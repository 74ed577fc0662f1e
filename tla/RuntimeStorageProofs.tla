------------------------ MODULE RuntimeStorageProofs ------------------------
(***************************************************************************)
(* Proofs about the storage under the values of compiled programs.         *)
(* ManagedStorage, for any number of chunks, any sizes the program asks    *)
(* for and any page size: pages, lists and free chains stay exact, and the *)
(* allocator never hands out a byte that is in use.  ArrayBacking, for any *)
(* arrays, buffers and lengths: every allocated buffer is that of one live *)
(* array or a member of the cache.  HashTable, for any words, hash codes   *)
(* and capacities: the probed slots of a table implement a map.            *)
(*                                                                         *)
(* Linked structures carry the first two arguments: the doubly linked list *)
(* of a class, the chain of freed cells of a page, the cache of array      *)
(* buffers.  All are described by the set of their members: the least set  *)
(* that holds the head and is closed under the links.  The third rests on  *)
(* a probe that visits every slot of a table once.                         *)
(***************************************************************************)
EXTENDS ManagedStorage, ArrayBacking, HashTable, FiniteSetTheorems, SequenceTheorems, WellFoundedInduction, TLAPS

(* From head, next visits every member of F once and then ends at null.      *)
Chain(F, head, next, null) ==
  /\ null \notin F
  /\ head \in F \cup {null}
  /\ \A c \in F : next[c] \in F \cup {null} /\ next[c] # head
  /\ \A c, d \in F : next[c] = next[d] /\ next[c] # null => c = d
  /\ \A S \in SUBSET F :
       head \in S \cup {null} /\ (\A c \in S : next[c] \in S \cup {null}) => S = F

(* A chain that ends at once has no members.                                 *)
LEMMA ChainEmpty ==
  ASSUME NEW F, NEW next, NEW null, Chain(F, null, next, null)
  PROVE  F = {}
<1>1. {} \in SUBSET F /\ null \in {} \cup {null} /\ \A c \in {} : next[c] \in {} \cup {null}
  OBVIOUS
<1> QED BY <1>1 DEF Chain

(* No member is its own successor.                                           *)
LEMMA ChainNoLoop ==
  ASSUME NEW F, NEW head, NEW next, NEW null, Chain(F, head, next, null), NEW c \in F
  PROVE  next[c] # c
<1> SUFFICES ASSUME next[c] = c PROVE FALSE
  OBVIOUS
<1> DEFINE S == F \ {c}
<1>1. head \in S \cup {null}
  BY DEF Chain
<1>2. \A d \in S : next[d] \in S \cup {null}
  BY DEF Chain
<1>3. S = F
  BY <1>1, <1>2 DEF Chain
<1> QED BY <1>3

(* Only the links of members matter.                                         *)
LEMMA ChainSame ==
  ASSUME NEW F, NEW head, NEW next, NEW after, NEW null, Chain(F, head, next, null),
         \A c \in F : after[c] = next[c]
  PROVE  Chain(F, head, after, null)
<1>1. \A S \in SUBSET F : (\A c \in S : after[c] \in S \cup {null}) => \A c \in S : next[c] \in S \cup {null}
  OBVIOUS
<1> QED BY <1>1 DEF Chain

(* The head is taken off.                                                    *)
LEMMA ChainPop ==
  ASSUME NEW F, NEW head, NEW next, NEW after, NEW null, Chain(F, head, next, null), head # null,
         \A c \in F \ {head} : after[c] = next[c]
  PROVE  Chain(F \ {head}, next[head], after, null)
<1>1. head \in F /\ null \notin F
  BY DEF Chain
<1> DEFINE G == F \ {head}
<1>2. next[head] \in G \cup {null}
  BY <1>1 DEF Chain
<1>3. ASSUME NEW c \in G PROVE after[c] \in G \cup {null} /\ after[c] # next[head]
  <2>1. next[head] # null
    <3> SUFFICES ASSUME next[head] = null PROVE FALSE
      OBVIOUS
    <3>1. {head} \in SUBSET F /\ \A d \in {head} : next[d] \in {head} \cup {null}
      BY <1>1
    <3>2. {head} = F
      BY <3>1 DEF Chain
    <3> QED BY <3>2
  <2> QED BY <1>1, <2>1 DEF Chain
<1>4. \A c, d \in G : after[c] = after[d] /\ after[c] # null => c = d
  BY DEF Chain
<1>5. ASSUME NEW S \in SUBSET G, next[head] \in S \cup {null}, \A c \in S : after[c] \in S \cup {null}
      PROVE  S = G
  <2>1. S \cup {head} \in SUBSET F /\ \A c \in S \cup {head} : next[c] \in S \cup {head} \cup {null}
    BY <1>1, <1>5
  <2>2. S \cup {head} = F
    BY <2>1 DEF Chain
  <2> QED BY <2>2
<1> QED BY <1>1, <1>2, <1>3, <1>4, <1>5 DEF Chain

(* A new member is put in front.                                             *)
LEMMA ChainPush ==
  ASSUME NEW F, NEW head, NEW next, NEW after, NEW null, Chain(F, head, next, null),
         NEW new, new \notin F, new # null, after[new] = head, \A c \in F : after[c] = next[c]
  PROVE  Chain(F \cup {new}, new, after, null)
<1> DEFINE G == F \cup {new}
<1>1. null \notin G
  BY DEF Chain
<1>2. \A c \in G : after[c] \in G \cup {null} /\ after[c] # new
  BY DEF Chain
<1>3. \A c, d \in G : after[c] = after[d] /\ after[c] # null => c = d
  BY DEF Chain
<1>4. ASSUME NEW S \in SUBSET G, new \in S \cup {null}, \A c \in S : after[c] \in S \cup {null}
      PROVE  S = G
  <2> DEFINE T == S \cap F
  <2>1. new \in S
    BY <1>4
  <2>2. head \in T \cup {null}
    BY <1>4, <2>1 DEF Chain
  <2>3. \A c \in T : next[c] \in T \cup {null}
    BY <1>4 DEF Chain
  <2>4. T = F
    BY <2>2, <2>3 DEF Chain
  <2> QED BY <2>1, <2>4
<1> QED BY <1>1, <1>2, <1>3, <1>4 DEF Chain

(* A member p is skipped by its predecessor q.                               *)
LEMMA ChainSkip ==
  ASSUME NEW F, NEW head, NEW next, NEW after, NEW null, Chain(F, head, next, null),
         NEW p \in F, NEW q \in F, next[q] = p, after[q] = next[p],
         \A c \in F \ {q} : after[c] = next[c]
  PROVE  Chain(F \ {p}, head, after, null)
<1> DEFINE G == F \ {p}
<1>1. p # head /\ p # null /\ q # p /\ next[p] # p
  <2>1. next[q] # q /\ next[p] # p
    BY ChainNoLoop
  <2> QED BY <2>1 DEF Chain
<1>2. null \notin G /\ head \in G \cup {null}
  BY <1>1 DEF Chain
<1>3. \A c \in G : after[c] \in G \cup {null} /\ after[c] # head
  BY <1>1 DEF Chain
<1>4. ASSUME NEW c \in G, NEW d \in G, after[c] = after[d], after[c] # null PROVE c = d
  <2>1. CASE c = q
    BY <1>1, <1>4, <2>1 DEF Chain
  <2>2. CASE d = q
    BY <1>1, <1>4, <2>2 DEF Chain
  <2>3. CASE c # q /\ d # q
    BY <1>4, <2>3 DEF Chain
  <2> QED BY <2>1, <2>2, <2>3
<1>5. ASSUME NEW S \in SUBSET G, head \in S \cup {null}, \A c \in S : after[c] \in S \cup {null}
      PROVE  S = G
  <2>1. CASE q \in S
    <3> DEFINE T == S \cup {p}
    <3>1. \A c \in T : next[c] \in T \cup {null}
      BY <1>1, <1>5, <2>1
    <3>2. T \in SUBSET F /\ head \in T \cup {null}
      BY <1>5
    <3>3. T = F
      BY <3>1, <3>2 DEF Chain
    <3> QED BY <3>3
  <2>2. CASE q \notin S
    <3>1. \A c \in S : next[c] \in S \cup {null}
      BY <1>5, <2>2
    <3>2. S = F
      BY <1>5, <3>1 DEF Chain
    <3> QED BY <2>2, <3>2
  <2> QED BY <2>1, <2>2
<1> QED BY <1>2, <1>3, <1>4, <1>5 DEF Chain

(* The members are what any closed set around the chain contains.            *)
Least(U, head, next, null) ==
  {c \in U : \A S \in SUBSET U :
     head \in S \cup {null} /\ (\A d \in S : next[d] \in S \cup {null}) => c \in S}

(* A finite chain holds exactly what can be reached from its head.           *)
LEMMA ChainIsLeast ==
  ASSUME NEW U, NEW F \in SUBSET U, NEW head, NEW next, NEW null, null \notin U, Chain(F, head, next, null)
  PROVE  F = Least(U, head, next, null)
<1>1. ASSUME NEW c \in F, NEW S \in SUBSET U, head \in S \cup {null}, \A d \in S : next[d] \in S \cup {null}
      PROVE  c \in S
  <2> DEFINE T == S \cap F
  <2>1. head \in T \cup {null} /\ \A d \in T : next[d] \in T \cup {null}
    BY <1>1 DEF Chain
  <2>2. T = F
    BY <2>1 DEF Chain
  <2> QED BY <2>2
<1>2. head \in F \cup {null} /\ \A d \in F : next[d] \in F \cup {null}
  BY DEF Chain
<1> QED BY <1>1, <1>2 DEF Least

-----------------------------------------------------------------------------
(* Sizes.                                                                    *)

(* The quotient of a division.                                               *)
LEMMA Division ==
  ASSUME NEW a \in Nat, NEW b \in Nat, b > 0
  PROVE  a \div b \in Nat /\ (a \div b) * b <= a /\ a < (a \div b) * b + b
OBVIOUS

(* A larger divisor has a smaller quotient.                                  *)
LEMMA Quotients ==
  ASSUME NEW a \in Nat, NEW b \in Nat, NEW c \in Nat, b > 0, c >= b
  PROVE  a \div c <= a \div b
OBVIOUS

(* A cell holds its owner word and the object.                               *)
LEMMA Sizes ==
  ASSUME NEW size \in Nat, size >= 16
  PROVE  /\ Offset(size) \in Nat /\ Stride(Offset(size)) \in Nat
         /\ size + 8 <= Stride(Offset(size))
BY DEF Offset, Stride

(* The cells of a page of any class lie in the page.                         *)
LEMMA Capacities ==
  ASSUME NEW x \in Offsets
  PROVE  /\ x \in Nat /\ Stride(x) \in Nat /\ Stride(x) >= 24
         /\ Capacity(x) \in Nat /\ Capacity(x) >= 1
         /\ HeaderSize + Capacity(x) * Stride(x) <= PageSize
         /\ 1..Capacity(x) \subseteq Cells
<1>1. PICK size \in Requests : x = Offset(size) /\ Pooled(size)
  BY DEF Offsets
<1>2. size \in Nat /\ size >= 16 /\ PageSize \in Nat /\ Capacity(x) >= 1
  BY StorageAssumption
<1>3. x \in Nat /\ Stride(x) \in Nat /\ Stride(x) >= 24
  BY <1>1, <1>2, Sizes DEF Stride
<1>4. PICK b \in Nat : b = Stride(x) /\ b >= 24
  BY <1>3
<1>5. PICK a \in Int : a = PageSize - 64 /\ Capacity(x) = a \div b
  BY <1>2, <1>4 DEF Capacity, HeaderSize
<1>6. a \in Nat
  <2> SUFFICES ASSUME a < 0 PROVE FALSE
    BY <1>5
  <2>1. a \div b < 1
    BY <1>4
  <2>2. a \div b \in Int
    BY <1>4
  <2> QED BY <1>2, <1>5, <2>1, <2>2
<1>7. a \div b \in Nat /\ (a \div b) * b <= a
  BY <1>4, <1>6, Division
<1>8. a \div b <= PageSize \div 24
  <2>1. a \div b <= a \div 24
    BY <1>4, <1>6, Quotients
  <2>2. a <= PageSize
    BY <1>2, <1>5
  <2>3. a \div 24 <= PageSize \div 24
    BY <1>2, <1>6, <2>2
  <2> QED BY <1>2, <1>6, <1>7, <2>1, <2>3
<1>9. Cells = 1..(PageSize \div 24)
  BY DEF Cells, Stride
<1>10. PageSize \div 24 \in Nat
  BY <1>2
<1>11. 64 + (a \div b) * b <= PageSize
  <2>1. PICK m \in Int : m = (a \div b) * b
    BY <1>4, <1>7
  <2> QED BY <1>2, <1>5, <1>7, <2>1
<1> QED BY <1>2, <1>3, <1>4, <1>5, <1>7, <1>8, <1>9, <1>10, <1>11 DEF HeaderSize

-----------------------------------------------------------------------------
(* The lists of available pages.                                             *)

ListState == [page : [Chunks -> Page], available : [Offsets -> Chunks \cup {Null}]]
Nexts(g) == [c \in Chunks |-> g[c].next]

(* The words of a header that are about cells.                               *)
SameWords(h, k) == h.free = k.free /\ h.cursor = k.cursor /\ h.live = k.live /\ h.offset = k.offset

(* t is g with other next words, and with other prev words.                  *)
Relinked(t, g, c, v) ==
  /\ t \in [Chunks -> Page]
  /\ \A d \in Chunks : /\ t[d].next = (IF d = c THEN v ELSE g[d].next)
                       /\ t[d].prev = g[d].prev /\ SameWords(t[d], g[d])
Reversed(t, g, c, v) ==
  /\ t \in [Chunks -> Page]
  /\ \A d \in Chunks : /\ t[d].prev = (IF d = c THEN v ELSE g[d].prev)
                       /\ t[d].next = g[d].next /\ SameWords(t[d], g[d])

(* A header with another next or prev word.                                  *)
LEMMA HeaderLinks ==
  ASSUME NEW h \in Page, NEW v \in Chunks \cup {Null}
  PROVE  /\ [h EXCEPT !.next = v] \in Page /\ [h EXCEPT !.next = v].next = v
         /\ [h EXCEPT !.next = v].prev = h.prev /\ SameWords([h EXCEPT !.next = v], h)
         /\ [h EXCEPT !.prev = v] \in Page /\ [h EXCEPT !.prev = v].prev = v
         /\ [h EXCEPT !.prev = v].next = h.next /\ SameWords([h EXCEPT !.prev = v], h)
BY DEF Page, SameWords

(* Writing one forward link,                                                 *)
LEMMA NextSet ==
  ASSUME NEW g \in [Chunks -> Page], NEW c \in Chunks, NEW v \in Chunks \cup {Null}
  PROVE  Relinked([g EXCEPT ![c].next = v], g, c, v)
<1> DEFINE q == [g[c] EXCEPT !.next = v]
<1>1. q \in Page /\ q.next = v /\ q.prev = g[c].prev /\ SameWords(q, g[c])
  BY HeaderLinks
<1>2. [g EXCEPT ![c].next = v] = [g EXCEPT ![c] = q]
  OBVIOUS
<1> HIDE DEF q
<1> QED BY <1>1, <1>2 DEF Relinked, SameWords

(* and one back link.                                                        *)
LEMMA PrevSet ==
  ASSUME NEW g \in [Chunks -> Page], NEW c \in Chunks, NEW v \in Chunks \cup {Null}
  PROVE  Reversed([g EXCEPT ![c].prev = v], g, c, v)
<1> DEFINE q == [g[c] EXCEPT !.prev = v]
<1>1. q \in Page /\ q.prev = v /\ q.next = g[c].next /\ SameWords(q, g[c])
  BY HeaderLinks
<1>2. [g EXCEPT ![c].prev = v] = [g EXCEPT ![c] = q]
  OBVIOUS
<1> HIDE DEF q
<1> QED BY <1>1, <1>2 DEF Reversed, SameWords

(* F holds the pages of the list of class x, linked both ways.               *)
Listed(F, s, x) ==
  /\ F \in SUBSET Chunks
  /\ \A c \in F : s.page[c].offset = x
  /\ Chain(F, s.available[x], Nexts(s.page), Null)
  /\ \A c \in F : IF c = s.available[x] THEN s.page[c].prev = Null
                  ELSE s.page[c].prev \in F /\ s.page[s.page[c].prev].next = c

(* A list depends on the links of its own pages and on its head.             *)
LEMMA ListedSame ==
  ASSUME NEW s, NEW r, NEW x, NEW F, Listed(F, s, x), r.available[x] = s.available[x],
         \A c \in F : /\ r.page[c].next = s.page[c].next /\ r.page[c].prev = s.page[c].prev
                      /\ r.page[c].offset = s.page[c].offset
  PROVE  Listed(F, r, x)
<1>1. \A c \in F : Nexts(r.page)[c] = Nexts(s.page)[c]
  BY DEF Listed, Nexts
<1>2. Chain(F, r.available[x], Nexts(r.page), Null)
  BY <1>1, ChainSame DEF Listed
<1> QED BY <1>2 DEF Listed

(* What trbn_storage_unlink changes.                                         *)
Unlinked(r, s, x, p) ==
  /\ r \in ListState
  /\ \A c \in Chunks :
       /\ r.page[c].next = (IF c = s.page[p].prev THEN s.page[p].next ELSE s.page[c].next)
       /\ r.page[c].prev = (IF c = s.page[p].next THEN s.page[p].prev ELSE s.page[c].prev)
       /\ SameWords(r.page[c], s.page[c])
  /\ \A y \in Offsets :
       r.available[y] = IF y = x /\ s.page[p].prev = Null THEN s.page[p].next ELSE s.available[y]

(* trbn_storage_unlink changes the neighbours, the head and nothing else.    *)
LEMMA UnlinkChanges ==
  ASSUME NEW s \in ListState, NEW p \in Chunks, NEW x \in Offsets, s.page[p].offset = x
  PROVE  Unlinked(Unlink(s, p), s, x, p)
<1> DEFINE next == s.page[p].next
           prev == s.page[p].prev
           g == IF prev = Null THEN s.page ELSE [s.page EXCEPT ![prev].next = next]
           t == IF next = Null THEN g ELSE [g EXCEPT ![next].prev = prev]
           a == IF prev = Null THEN [s.available EXCEPT ![x] = next] ELSE s.available
           r == Unlink(s, p)
<1>1. /\ s.page \in [Chunks -> Page] /\ s.available \in [Offsets -> Chunks \cup {Null}]
      /\ s = [page |-> s.page, available |-> s.available]
  BY DEF ListState
<1>2. next \in Chunks \cup {Null} /\ prev \in Chunks \cup {Null} /\ Null \notin Chunks
  <2>1. s.page[p] \in Page
    BY <1>1
  <2> QED BY <2>1, StorageAssumption DEF Page
<1>3. r = [page |-> t, available |-> a]
  <2>1. CASE prev = Null
    <3>1. r = IF next = Null THEN [s EXCEPT !.available[x] = next]
              ELSE [[s EXCEPT !.available[x] = next] EXCEPT !.page[next].prev = prev]
      BY <2>1 DEF Unlink
    <3>2. [s EXCEPT !.available[x] = next] = [page |-> s.page, available |-> [s.available EXCEPT ![x] = next]]
      BY <1>1
    <3> QED BY <2>1, <3>1, <3>2
  <2>2. CASE prev # Null
    <3>1. r = IF next = Null THEN [s EXCEPT !.page[prev].next = next]
              ELSE [[s EXCEPT !.page[prev].next = next] EXCEPT !.page[next].prev = prev]
      BY <2>2 DEF Unlink
    <3>2. [s EXCEPT !.page[prev].next = next] = [page |-> [s.page EXCEPT ![prev].next = next], available |-> s.available]
      BY <1>1
    <3> QED BY <2>2, <3>1, <3>2
  <2> QED BY <2>1, <2>2
<1> HIDE DEF r
<1>4. Relinked(g, s.page, prev, next)
  <2>1. CASE prev = Null
    BY <1>1, <1>2, <2>1 DEF Relinked, SameWords
  <2>2. CASE prev # Null
    BY <1>1, <1>2, <2>2, NextSet
  <2> QED BY <2>1, <2>2
<1> HIDE DEF g
<1>5. Reversed(t, g, next, prev)
  <2>1. g \in [Chunks -> Page]
    BY <1>4 DEF Relinked
  <2>2. CASE next = Null
    BY <1>2, <2>1, <2>2 DEF Reversed, SameWords
  <2>3. CASE next # Null
    BY <1>2, <2>1, <2>3, PrevSet
  <2> QED BY <2>2, <2>3
<1>6. a \in [Offsets -> Chunks \cup {Null}] /\ \A y \in Offsets : a[y] = IF y = x /\ prev = Null THEN next ELSE s.available[y]
  BY <1>1, <1>2
<1> HIDE DEF t, a
<1>7. r.page = t /\ r.available = a /\ t \in [Chunks -> Page]
  BY <1>3, <1>5 DEF Reversed
<1>8. r \in ListState
  BY <1>3, <1>6, <1>7 DEF ListState
<1>9. \A c \in Chunks : /\ t[c].next = (IF c = prev THEN next ELSE s.page[c].next)
                        /\ t[c].prev = (IF c = next THEN prev ELSE s.page[c].prev)
                        /\ SameWords(t[c], s.page[c])
  BY <1>4, <1>5 DEF Relinked, Reversed, SameWords
<1> QED BY <1>6, <1>7, <1>8, <1>9 DEF Unlinked, r

(* The list loses p, and no other list changes.                              *)
LEMMA UnlinkList ==
  ASSUME NEW s \in ListState, NEW x \in Offsets, NEW F, Listed(F, s, x), NEW p \in F,
         NEW r, Unlinked(r, s, x, p)
  PROVE  Listed(F \ {p}, r, x)
<1> DEFINE next == s.page[p].next
           prev == s.page[p].prev
           head == s.available[x]
<1>0. F \in SUBSET Chunks /\ p \in Chunks /\ Null \notin Chunks
  BY StorageAssumption DEF Listed
<1>1. /\ \A c \in Chunks : /\ r.page[c].next = (IF c = prev THEN next ELSE s.page[c].next)
                           /\ r.page[c].prev = (IF c = next THEN prev ELSE s.page[c].prev)
                           /\ r.page[c].offset = s.page[c].offset
      /\ r.available[x] = IF prev = Null THEN next ELSE head
  BY DEF Unlinked, SameWords
<1>2. Chain(F, head, Nexts(s.page), Null) /\ \A c \in Chunks : Nexts(s.page)[c] = s.page[c].next
  BY DEF Listed, Nexts
<1>3. \A c \in Chunks : Nexts(r.page)[c] = IF c = prev THEN next ELSE s.page[c].next
  BY <1>1 DEF Nexts
<1>4. /\ \A c \in F : s.page[c].next \in F \cup {Null} /\ s.page[c].next # head /\ s.page[c].next # c
      /\ \A c, d \in F : s.page[c].next = s.page[d].next /\ s.page[c].next # Null => c = d
  <2>1. \A c \in F : Nexts(s.page)[c] # c
    BY <1>2, ChainNoLoop
  <2> QED BY <1>0, <1>2, <2>1 DEF Chain
<1>5. \A c \in F : /\ c = head => s.page[c].prev = Null
                   /\ c # head => s.page[c].prev \in F /\ s.page[s.page[c].prev].next = c
  BY DEF Listed
<1>6. \A c \in F : s.page[c].next # Null => s.page[c].next \in F /\ s.page[s.page[c].next].prev = c
  BY <1>4, <1>5
<1>7. p = head <=> prev = Null
  BY <1>0, <1>5
<1>8. Chain(F \ {p}, r.available[x], Nexts(r.page), Null)
  <2>1. CASE p = head
    <3>1. \A c \in F \ {head} : Nexts(r.page)[c] = Nexts(s.page)[c]
      BY <1>0, <1>2, <1>3, <1>7, <2>1
    <3>2. r.available[x] = Nexts(s.page)[head]
      BY <1>0, <1>1, <1>2, <1>7, <2>1
    <3> QED BY <1>0, <1>2, <2>1, <3>1, <3>2, ChainPop
  <2>2. CASE p # head
    <3>1. prev \in F /\ Nexts(s.page)[prev] = p
      BY <1>0, <1>2, <1>5, <2>2
    <3>2. Nexts(r.page)[prev] = Nexts(s.page)[p] /\ \A c \in F \ {prev} : Nexts(r.page)[c] = Nexts(s.page)[c]
      BY <1>0, <1>2, <1>3, <3>1
    <3>3. r.available[x] = head
      BY <1>1, <1>7, <2>2
    <3> QED BY <1>2, <3>1, <3>2, <3>3, ChainSkip
  <2> QED BY <2>1, <2>2
<1>9. ASSUME NEW c \in F \ {p}
      PROVE  IF c = r.available[x] THEN r.page[c].prev = Null
             ELSE r.page[c].prev \in F \ {p} /\ r.page[r.page[c].prev].next = c
  <2>1. c \in Chunks /\ c # p /\ c \in F
    BY <1>0
  <2>2. CASE c = next
    <3>1. r.page[c].prev = prev /\ c # head
      BY <1>1, <1>4, <2>1, <2>2
    <3>2. CASE prev = Null
      BY <1>1, <2>2, <3>1, <3>2
    <3>3. CASE prev # Null
      <4>1. prev \in F /\ s.page[prev].next = p
        BY <1>5, <1>7, <3>3
      <4>2. prev # p
        BY <1>4, <4>1
      <4>3. r.page[prev].next = c
        BY <1>0, <1>1, <2>2, <4>1
      <4> QED BY <1>1, <3>1, <3>3, <4>1, <4>2, <4>3
    <3> QED BY <3>2, <3>3
  <2>3. CASE c # next
    <3>1. r.page[c].prev = s.page[c].prev
      BY <1>1, <2>1, <2>3
    <3>2. CASE c = head
      <4>1. r.available[x] = c
        BY <1>1, <1>7, <2>1, <3>2
      <4> QED BY <1>5, <2>1, <3>1, <3>2, <4>1
    <3>3. CASE c # head
      <4>1. s.page[c].prev \in F /\ s.page[s.page[c].prev].next = c
        BY <1>5, <2>1, <3>3
      <4>2. s.page[c].prev # p
        BY <2>3, <4>1
      <4>3. s.page[c].prev # prev
        BY <1>5, <1>7, <2>1, <4>1, <1>0
      <4>4. r.page[s.page[c].prev].next = c
        BY <1>0, <1>1, <4>1, <4>3
      <4>5. c # r.available[x]
        BY <1>1, <2>3, <3>3
      <4> QED BY <3>1, <4>1, <4>2, <4>4, <4>5
    <3> QED BY <3>2, <3>3
  <2> QED BY <2>2, <2>3
<1>10. \A c \in F : r.page[c].offset = x
  BY <1>0, <1>1 DEF Listed
<1> QED BY <1>0, <1>8, <1>9, <1>10 DEF Listed

(* Pages of two classes are different pages.                                 *)
LEMMA UnlinkOthers ==
  ASSUME NEW s \in ListState, NEW x \in Offsets, NEW F, Listed(F, s, x), NEW p \in F,
         NEW r, Unlinked(r, s, x, p), NEW y \in Offsets, y # x, NEW G, Listed(G, s, y)
  PROVE  Listed(G, r, y)
<1> DEFINE next == s.page[p].next
           prev == s.page[p].prev
<1>1. F \in SUBSET Chunks /\ G \in SUBSET Chunks /\ p \in Chunks /\ Null \notin Chunks
  BY StorageAssumption DEF Listed
<1>2. next \in F \cup {Null} /\ prev \in F \cup {Null}
  <2>1. Nexts(s.page)[p] \in F \cup {Null}
    BY DEF Listed, Chain
  <2>2. next \in F \cup {Null}
    BY <1>1, <2>1 DEF Nexts
  <2>3. prev \in F \cup {Null}
    BY DEF Listed
  <2> QED BY <2>2, <2>3
<1>3. \A c \in G : c \in Chunks /\ c \notin F /\ c # Null
  BY <1>1 DEF Listed
<1>4. \A c \in G : /\ r.page[c].next = s.page[c].next /\ r.page[c].prev = s.page[c].prev
                   /\ r.page[c].offset = s.page[c].offset
  BY <1>2, <1>3 DEF Unlinked, SameWords
<1>5. r.available[y] = s.available[y]
  BY DEF Unlinked
<1> QED BY <1>4, <1>5, ListedSame

(* What trbn_storage_insert changes.                                         *)
Inserted(r, s, x, p) ==
  /\ r \in ListState
  /\ \A c \in Chunks :
       /\ r.page[c].next = (IF c = p THEN s.available[x] ELSE s.page[c].next)
       /\ r.page[c].prev = (IF c = s.available[x] THEN p ELSE IF c = p THEN Null ELSE s.page[c].prev)
       /\ SameWords(r.page[c], s.page[c])
  /\ \A y \in Offsets : r.available[y] = IF y = x THEN p ELSE s.available[y]

(* One assignment to a header word, and one to a head.                       *)
LEMMA PrevOfState ==
  ASSUME NEW g, NEW a, NEW c, NEW v, NEW s, s = [page |-> g, available |-> a]
  PROVE  [s EXCEPT !.page[c].prev = v] = [page |-> [g EXCEPT ![c].prev = v], available |-> a]
OBVIOUS

(* Writing the head of a list.                                               *)
LEMMA HeadOfState ==
  ASSUME NEW g, NEW a, NEW x, NEW v, NEW s, s = [page |-> g, available |-> a]
  PROVE  [s EXCEPT !.available[x] = v] = [page |-> g, available |-> [a EXCEPT ![x] = v]]
OBVIOUS

(* trbn_storage_insert changes the old head, the head and the page itself.   *)
LEMMA InsertChanges ==
  ASSUME NEW s \in ListState, NEW p \in Chunks, NEW x \in Offsets, s.page[p].offset = x
  PROVE  Inserted(Insert(s, p), s, x, p)
<1> DEFINE head == s.available[x]
           g == [s.page EXCEPT ![p].next = head]
           k == [g EXCEPT ![p].prev = Null]
           t == IF head = Null THEN k ELSE [k EXCEPT ![head].prev = p]
           a == [s.available EXCEPT ![x] = p]
           r == Insert(s, p)
<1>1. /\ s.page \in [Chunks -> Page] /\ s.available \in [Offsets -> Chunks \cup {Null}]
      /\ s = [page |-> s.page, available |-> s.available]
  BY DEF ListState
<1>2. head \in Chunks \cup {Null} /\ Null \notin Chunks
  BY <1>1, StorageAssumption
<1>3. r = [page |-> t, available |-> a]
  <2> DEFINE l == [s EXCEPT !.page[p].next = head, !.page[p].prev = Null, !.available[x] = p]
         l1 == [s EXCEPT !.page[p].next = head]
         l2 == [l1 EXCEPT !.page[p].prev = Null]
  <2>1. l = [page |-> k, available |-> a]
    <3>1. l1 = [page |-> g, available |-> s.available]
      BY <1>1
    <3>2. l = [l2 EXCEPT !.available[x] = p]
      OBVIOUS
    <3> HIDE DEF l1, g, l
    <3>3. l2 = [page |-> k, available |-> s.available]
      BY <3>1, PrevOfState
    <3> HIDE DEF l2, k
    <3>4. [l2 EXCEPT !.available[x] = p] = [page |-> k, available |-> a]
      BY <3>3, HeadOfState
    <3> QED BY <3>2, <3>4
  <2>2. r = IF head = Null THEN l ELSE [l EXCEPT !.page[head].prev = p]
    BY DEF Insert
  <2> HIDE DEF l, k
  <2>3. CASE head = Null
    BY <2>1, <2>2, <2>3
  <2>4. CASE head # Null
    <3>1. [l EXCEPT !.page[head].prev = p] = [page |-> [k EXCEPT ![head].prev = p], available |-> a]
      BY <2>1, PrevOfState
    <3> QED BY <2>2, <2>4, <3>1
  <2> QED BY <2>3, <2>4
<1> HIDE DEF r
<1>4. Relinked(g, s.page, p, head)
  BY <1>1, <1>2, NextSet
<1> HIDE DEF g
<1>5. Reversed(k, g, p, Null)
  BY <1>4, PrevSet DEF Relinked
<1> HIDE DEF k
<1>6. Reversed(t, k, head, p)
  <2>1. k \in [Chunks -> Page]
    BY <1>5 DEF Reversed
  <2>2. CASE head = Null
    BY <1>2, <2>1, <2>2 DEF Reversed, SameWords
  <2>3. CASE head # Null
    BY <1>2, <2>1, <2>3, PrevSet
  <2> QED BY <2>2, <2>3
<1>7. a \in [Offsets -> Chunks \cup {Null}] /\ \A y \in Offsets : a[y] = IF y = x THEN p ELSE s.available[y]
  BY <1>1
<1> HIDE DEF t, a
<1>8. r.page = t /\ r.available = a /\ t \in [Chunks -> Page]
  BY <1>3, <1>6 DEF Reversed
<1>9. r \in ListState
  BY <1>3, <1>7, <1>8 DEF ListState
<1>10. \A c \in Chunks : /\ t[c].next = (IF c = p THEN head ELSE s.page[c].next)
                         /\ t[c].prev = (IF c = head THEN p ELSE IF c = p THEN Null ELSE s.page[c].prev)
                         /\ SameWords(t[c], s.page[c])
  BY <1>4, <1>5, <1>6 DEF Relinked, Reversed, SameWords
<1> QED BY <1>7, <1>8, <1>9, <1>10 DEF Inserted, r

(* The list gains p in front.                                                *)
LEMMA InsertList ==
  ASSUME NEW s \in ListState, NEW x \in Offsets, NEW F, Listed(F, s, x), NEW p \in Chunks, p \notin F,
         s.page[p].offset = x, NEW r, Inserted(r, s, x, p)
  PROVE  Listed(F \cup {p}, r, x)
<1> DEFINE head == s.available[x]
<1>0. F \in SUBSET Chunks /\ Null \notin Chunks
  BY StorageAssumption DEF Listed
<1>1. /\ \A c \in Chunks : /\ r.page[c].next = (IF c = p THEN head ELSE s.page[c].next)
                           /\ r.page[c].prev = (IF c = head THEN p ELSE IF c = p THEN Null ELSE s.page[c].prev)
                           /\ r.page[c].offset = s.page[c].offset
      /\ r.available[x] = p
  BY DEF Inserted, SameWords
<1>2. Chain(F, head, Nexts(s.page), Null) /\ head \in F \cup {Null}
  BY DEF Listed, Chain
<1>3. Chain(F \cup {p}, p, Nexts(r.page), Null)
  <2>1. Nexts(r.page)[p] = head /\ \A c \in F : Nexts(r.page)[c] = Nexts(s.page)[c]
    BY <1>0, <1>1 DEF Nexts
  <2> QED BY <1>0, <1>2, <2>1, ChainPush
<1>4. ASSUME NEW c \in F \cup {p}
      PROVE  IF c = r.available[x] THEN r.page[c].prev = Null
             ELSE r.page[c].prev \in F \cup {p} /\ r.page[r.page[c].prev].next = c
  <2>1. CASE c = p
    <3>1. c # head
      BY <1>0, <1>2, <2>1
    <3> QED BY <1>1, <2>1, <3>1
  <2>2. CASE c # p /\ c = head
    BY <1>0, <1>1, <2>2
  <2>3. CASE c # p /\ c # head
    <3>1. c \in F /\ s.page[c].prev \in F /\ s.page[s.page[c].prev].next = c
      BY <2>3 DEF Listed
    <3>2. r.page[c].prev = s.page[c].prev /\ s.page[c].prev # p
      BY <1>0, <1>1, <2>3, <3>1
    <3>3. r.page[s.page[c].prev].next = c
      BY <1>0, <1>1, <3>1, <3>2
    <3> QED BY <1>1, <2>3, <3>1, <3>2, <3>3
  <2> QED BY <2>1, <2>2, <2>3
<1>5. \A c \in F \cup {p} : r.page[c].offset = x
  BY <1>0, <1>1 DEF Listed
<1> QED BY <1>0, <1>1, <1>3, <1>4, <1>5 DEF Listed

(* The lists of the other classes do not change.                             *)
LEMMA InsertOthers ==
  ASSUME NEW s \in ListState, NEW x \in Offsets, NEW F, Listed(F, s, x), NEW p \in Chunks,
         s.page[p].offset = x, NEW r, Inserted(r, s, x, p), NEW y \in Offsets, y # x, NEW G, Listed(G, s, y)
  PROVE  Listed(G, r, y)
<1>1. G \in SUBSET Chunks /\ F \in SUBSET Chunks /\ Null \notin Chunks /\ s.available[x] \in F \cup {Null}
  BY StorageAssumption DEF Listed, Chain
<1>2. \A c \in G : c \in Chunks /\ c # p /\ c # s.available[x]
  BY <1>1 DEF Listed
<1>3. \A c \in G : /\ r.page[c].next = s.page[c].next /\ r.page[c].prev = s.page[c].prev
                   /\ r.page[c].offset = s.page[c].offset
  BY <1>2 DEF Inserted, SameWords
<1>4. r.available[y] = s.available[y]
  BY DEF Inserted
<1> QED BY <1>3, <1>4, ListedSame

-----------------------------------------------------------------------------
(* The invariant.                                                            *)

Avail(x) == {p \in Pages : page[p].offset = x /\ NotFull(p)}

(* A header h describes the objects O of its page: the count is theirs, they *)
(* are in different cells below the cursor, and the chain that starts in the *)
(* header visits exactly the cells below the cursor that none of them is in. *)
HeaderExact(h, O, l) ==
  /\ h.live = Cardinality(O) /\ h.live \in 0..Capacity(h.offset)
  /\ h.cursor \in 1..Capacity(h.offset) + 1
  /\ \A o \in O : Offset(o.size) = h.offset /\ o.cell \in 1..h.cursor - 1
  /\ \A o, q \in O : o.cell = q.cell => o = q
  /\ Chain((1..h.cursor - 1) \ {o.cell : o \in O}, h.free, l, 0)

ObjectsExact == \A o, q \in objects : o.at = q.at /\ ~Pooled(o.size) => o = q

StorageInv ==
  /\ TypeOK /\ IsFiniteSet(objects) /\ ObjectsExact
  /\ \A x \in Offsets : Listed(Avail(x), Lists, x)
  /\ \A p \in Pages : page[p].live > 0 /\ HeaderExact(page[p], In(p), link[p])

(* Taking a cell changes these words.                                        *)
CellOf(h) == IF h.free # 0 THEN h.free ELSE h.cursor
TakenFrom(h, l) ==
  [h EXCEPT !.free = IF h.free # 0 THEN l[h.free] ELSE @,
            !.cursor = IF h.free # 0 THEN @ ELSE @ + 1, !.live = @ + 1]

Links == [Cells -> Cells \cup {0}]

(* The cells of a page, and how many a page can have.                        *)
LEMMA CellsOfPages ==
  /\ PageSize \div 24 \in Nat /\ Cells = 1..(PageSize \div 24) /\ Cells \in SUBSET Nat
  /\ Cardinality(Cells) = PageSize \div 24
<1>1. PageSize \div 24 \in Nat /\ Cells = 1..(PageSize \div 24)
  BY StorageAssumption DEF Cells, Stride
<1>2. PICK n \in Nat : n = PageSize \div 24
  BY <1>1
<1>3. Cardinality(1..n) = n
  BY FS_Interval
<1> QED BY <1>1, <1>2, <1>3

(* The fields of a header.                                                   *)
LEMMA HeaderFields ==
  ASSUME NEW h \in Page
  PROVE  /\ h.next \in Chunks \cup {Null} /\ h.prev \in Chunks \cup {Null} /\ h.free \in Cells \cup {0}
         /\ h.cursor \in Cells \cup {1 + Cardinality(Cells)} /\ h.live \in Nat /\ h.offset \in Offsets
BY DEF Page

(* A page that is not full has a cell to give: a freed one, or, when every   *)
(* cell below the cursor is in use, the one at the cursor.                   *)
LEMMA CellIsFree ==
  ASSUME NEW h \in Page, NEW O, IsFiniteSet(O), NEW l, HeaderExact(h, O, l),
         h.live < Capacity(h.offset)
  PROVE  /\ CellOf(h) \in 1..Capacity(h.offset) /\ \A o \in O : o.cell # CellOf(h)
         /\ CellOf(h) \in Cells
<1>0. PICK n \in Nat : n = Capacity(h.offset) /\ 1..n \subseteq Cells
  BY HeaderFields, Capacities
<1>1. PICK k \in Nat : k = h.cursor /\ k \in 1..n + 1
  BY <1>0 DEF HeaderExact
<1>2. \A o \in O : o.cell \in 1..k - 1
  BY <1>1 DEF HeaderExact
<1>3. CASE h.free # 0
  <2>1. h.free \in (1..k - 1) \ {o.cell : o \in O}
    BY <1>1, <1>3 DEF HeaderExact, Chain
  <2>2. h.free \in 1..n /\ \A o \in O : o.cell # h.free
    BY <1>1, <2>1
  <2> QED BY <1>0, <1>3, <2>2 DEF CellOf
<1>4. CASE h.free = 0
  <2>1. (1..k - 1) \ {o.cell : o \in O} = {}
    BY <1>1, <1>4, ChainEmpty DEF HeaderExact
  <2> DEFINE f == [o \in O |-> o.cell]
  <2>2. f \in Surjection(O, 1..k - 1)
    BY <1>2, <2>1 DEF Surjection
  <2>3. Cardinality(1..k - 1) <= Cardinality(O)
    BY <2>2, FS_Surjection
  <2>4. Cardinality(1..k - 1) = k - 1
    BY <1>1, FS_Interval
  <2>5. h.live = Cardinality(O) /\ h.live \in 0..n
    BY <1>0 DEF HeaderExact
  <2>6. k \in 1..n
    BY <1>0, <1>1, <2>3, <2>4, <2>5
  <2>7. \A o \in O : o.cell # k
    BY <1>1, <1>2
  <2> QED BY <1>0, <1>1, <1>4, <2>6, <2>7 DEF CellOf
<1> QED BY <1>3, <1>4

(* Handing out a cell keeps the header exact.                                *)
CellTaken(h, O, l, o) ==
  LET k == TakenFrom(h, l)
      m == [l EXCEPT ![CellOf(h)] = 0]
  IN  /\ k \in Page /\ k.next = h.next /\ k.prev = h.prev
      /\ k.live = h.live + 1 /\ k.offset = h.offset
      /\ o \notin O /\ m \in Links /\ HeaderExact(k, O \cup {o}, m)

(* A cell taken from a page, from its free chain or from its cursor.         *)
LEMMA TakeKeepsHeader ==
  ASSUME NEW h \in Page, NEW O, IsFiniteSet(O), NEW l \in Links, HeaderExact(h, O, l),
         h.live < Capacity(h.offset), NEW o, o.cell = CellOf(h), Offset(o.size) = h.offset
  PROVE  CellTaken(h, O, l, o)
<1>0. PICK n \in Nat : n = Capacity(h.offset) /\ 1..n \subseteq Cells
  BY HeaderFields, Capacities
<1>1. PICK k \in Nat : k = h.cursor /\ k \in 1..n + 1
  BY <1>0 DEF HeaderExact
<1>2. /\ CellOf(h) \in 1..n /\ CellOf(h) \in Cells /\ \A q \in O : q.cell # CellOf(h)
  BY <1>0, CellIsFree
<1>3. PICK e \in Nat : e = CellOf(h) /\ e \in 1..n /\ e # 0
  BY <1>2
<1>4. PICK k2 \in Nat : k2 = IF h.free # 0 THEN k ELSE k + 1
  OBVIOUS
<1>5. PICK f2 : f2 = IF h.free # 0 THEN l[h.free] ELSE h.free
  OBVIOUS
<1>6. f2 \in Cells \cup {0} /\ h.live \in Nat
  BY <1>5, HeaderFields DEF Links
<1>7. k2 \in 1..n + 1 /\ e \in 1..k2 - 1 /\ k2 \in Cells \cup {1 + Cardinality(Cells)}
  <2>1. h.free # 0 => h.free \in 1..k - 1
    BY <1>1 DEF HeaderExact, Chain
  <2>2. (h.free # 0 => e = h.free) /\ (h.free = 0 => e = k)
    BY <1>1, <1>3 DEF CellOf
  <2>3. k2 \in 1..n + 1 /\ e \in 1..k2 - 1
    BY <1>1, <1>3, <1>4, <2>1, <2>2
  <2>4. n <= PageSize \div 24
    <3>1. n >= 1 /\ n \in 1..n
      BY <1>3
    <3> QED BY <1>0, <3>1, CellsOfPages
  <2> QED BY <2>3, <2>4, CellsOfPages
<1> DEFINE t == TakenFrom(h, l)
           m == [l EXCEPT ![e] = 0]
           F == (1..k - 1) \ {q.cell : q \in O}
           G == (1..k2 - 1) \ {q.cell : q \in O \cup {o}}
<1>8. /\ t \in Page /\ t.next = h.next /\ t.prev = h.prev /\ t.live = h.live + 1 /\ t.offset = h.offset
      /\ t.free = f2 /\ t.cursor = k2
  <2>1. t = [h EXCEPT !.free = f2, !.cursor = k2, !.live = h.live + 1]
    BY <1>1, <1>4, <1>5 DEF TakenFrom, Page
  <2>2. PICK v \in Nat : v = h.live + 1
    BY <1>6
  <2>3. t = [h EXCEPT !.free = f2, !.cursor = k2, !.live = v]
    BY <2>1, <2>2
  <2> HIDE DEF t
  <2>4. t \in Page
    BY <1>6, <1>7, <2>3 DEF Page
  <2>5. t.next = h.next /\ t.prev = h.prev /\ t.live = v /\ t.offset = h.offset /\ t.free = f2 /\ t.cursor = k2
    BY <2>3 DEF Page
  <2> QED BY <2>2, <2>4, <2>5
<1> HIDE DEF t
<1>9. m \in Links /\ \A c \in Cells : c # e => m[c] = l[c]
  BY <1>2, <1>3 DEF Links
<1> HIDE DEF m
<1>10. Chain(F, h.free, l, 0)
  BY <1>1 DEF HeaderExact
<1>11. F \subseteq Cells
  BY <1>0, <1>1
<1>12. Chain(G, f2, m, 0)
  <2>1. CASE h.free # 0
    <3>1. e = h.free /\ k2 = k /\ f2 = l[h.free]
      BY <1>3, <1>4, <1>5, <2>1 DEF CellOf
    <3>2. G = F \ {h.free}
      BY <1>3, <3>1
    <3>3. \A c \in F \ {h.free} : m[c] = l[c]
      BY <1>9, <1>11, <3>1
    <3> HIDE DEF F, G
    <3> QED BY <1>10, <2>1, <3>1, <3>2, <3>3, ChainPop
  <2>2. CASE h.free = 0
    <3>1. e = k /\ k2 = k + 1 /\ f2 = 0
      BY <1>1, <1>3, <1>4, <1>5, <2>2 DEF CellOf
    <3>2. F = {}
      BY <1>10, <2>2, ChainEmpty
    <3>3. G = {}
      <4>1. \A c \in 1..k2 - 1 : c \in 1..k - 1 \/ c = e
        BY <1>1, <3>1
      <4> QED BY <1>3, <3>2, <4>1
    <3> QED BY <3>1, <3>3 DEF Chain
  <2> QED BY <2>1, <2>2
<1>13. \A q \in O \cup {o} : Offset(q.size) = h.offset /\ q.cell \in 1..k2 - 1
  <2>1. \A q \in O : Offset(q.size) = h.offset /\ q.cell \in 1..k - 1
    BY <1>1 DEF HeaderExact
  <2>2. \A c \in 1..k - 1 : c \in 1..k2 - 1
    BY <1>1, <1>4
  <2> QED BY <1>3, <1>7, <2>1, <2>2
<1>14. \A q, r \in O \cup {o} : q.cell = r.cell => q = r
  BY <1>2 DEF HeaderExact
<1>15. o \notin O
  BY <1>2
<1>16. t.live = Cardinality(O \cup {o}) /\ t.live \in 0..n
  <2>1. Cardinality(O \cup {o}) = Cardinality(O) + 1
    BY <1>15, FS_AddElement
  <2>2. h.live = Cardinality(O)
    BY DEF HeaderExact
  <2> QED BY <1>0, <1>6, <1>8, <2>1, <2>2
<1>17. HeaderExact(t, O \cup {o}, m)
  BY <1>0, <1>7, <1>8, <1>12, <1>13, <1>14, <1>16 DEF HeaderExact
<1> QED BY <1>3, <1>8, <1>9, <1>15, <1>17 DEF t, m, CellTaken

(* Giving a cell back, too.                                                  *)
GivenBack(h, cell) == [h EXCEPT !.live = @ - 1, !.free = cell]
CellGiven(h, O, l, o) ==
  LET k == GivenBack(h, o.cell)
      m == [l EXCEPT ![o.cell] = h.free]
  IN  /\ k \in Page /\ k.next = h.next /\ k.prev = h.prev
      /\ k.live = h.live - 1 /\ k.offset = h.offset
      /\ o.cell \in Cells /\ m \in Links /\ HeaderExact(k, O \ {o}, m)

(* A cell given back to its page goes to the front of the free chain.        *)
LEMMA GiveKeepsHeader ==
  ASSUME NEW h \in Page, NEW O, IsFiniteSet(O), NEW l \in Links, HeaderExact(h, O, l), NEW o \in O
  PROVE  CellGiven(h, O, l, o)
<1>0. PICK n \in Nat : n = Capacity(h.offset) /\ 1..n \subseteq Cells
  BY HeaderFields, Capacities
<1>1. PICK k \in Nat : k = h.cursor /\ k \in 1..n + 1
  BY <1>0 DEF HeaderExact
<1>2. PICK e \in Nat : e = o.cell /\ e \in 1..k - 1 /\ e \in Cells /\ e # 0
  <2>1. o.cell \in 1..k - 1
    BY <1>1 DEF HeaderExact
  <2> QED BY <1>0, <1>1, <2>1
<1>3. Cardinality(O \ {o}) = Cardinality(O) - 1 /\ Cardinality(O) \in Nat /\ Cardinality(O \ {o}) \in Nat
  BY FS_RemoveElement, FS_CardinalityType
<1>4. h.live \in Nat /\ h.live = Cardinality(O) /\ h.live - 1 \in Nat /\ h.live \in 0..n
  BY <1>0, <1>3, HeaderFields DEF HeaderExact
<1> DEFINE t == GivenBack(h, o.cell)
           m == [l EXCEPT ![e] = h.free]
           F == (1..k - 1) \ {q.cell : q \in O}
           G == (1..k - 1) \ {q.cell : q \in O \ {o}}
<1>5. /\ t \in Page /\ t.next = h.next /\ t.prev = h.prev /\ t.live = h.live - 1 /\ t.offset = h.offset
      /\ t.free = e /\ t.cursor = k
  BY <1>1, <1>2, <1>4 DEF GivenBack, Page
<1> HIDE DEF t
<1>6. m \in Links /\ m[e] = h.free /\ \A c \in Cells : c # e => m[c] = l[c]
  BY <1>2, HeaderFields DEF Links
<1> HIDE DEF m
<1>7. \A q \in O \ {o} : q.cell # e
  BY <1>2 DEF HeaderExact
<1>8. G = F \cup {e} /\ e \notin F
  <2>1. e \in G /\ e \notin F
    BY <1>2, <1>7
  <2>2. \A c : c \in F => c \in G
    OBVIOUS
  <2>3. \A c : c \in G => c \in F \/ c = e
    BY <1>2
  <2> QED BY <2>1, <2>2, <2>3
<1>9. Chain(F, h.free, l, 0) /\ F \subseteq Cells
  BY <1>0, <1>1 DEF HeaderExact
<1>10. \A c \in F : m[c] = l[c]
  BY <1>6, <1>8, <1>9
<1> HIDE DEF F, G
<1>11. Chain(G, e, m, 0)
  <2>1. Chain(F \cup {e}, e, m, 0)
    BY <1>2, <1>6, <1>8, <1>9, <1>10, ChainPush
  <2> QED BY <1>8, <2>1
<1>12. \A q \in O \ {o} : Offset(q.size) = h.offset /\ q.cell \in 1..k - 1
  BY <1>1 DEF HeaderExact
<1>13. \A q, r \in O \ {o} : q.cell = r.cell => q = r
  BY DEF HeaderExact
<1>14. t.live = Cardinality(O \ {o}) /\ t.live \in 0..n
  BY <1>3, <1>4, <1>5
<1>15. HeaderExact(t, O \ {o}, m)
  BY <1>0, <1>1, <1>5, <1>11, <1>12, <1>13, <1>14 DEF HeaderExact, G
<1> QED BY <1>2, <1>5, <1>6, <1>15 DEF t, m, CellGiven

-----------------------------------------------------------------------------
(* Blocks and bytes.                                                         *)

(* More cells take more bytes.                                               *)
LEMMA Products ==
  ASSUME NEW i \in Nat, NEW j \in Nat, NEW b \in Nat, i <= j
  PROVE  i * b <= j * b /\ (i + 1) * b = i * b + b /\ i * b \in Nat
OBVIOUS

(* Where an object of a cell lies in its page.                               *)
LEMMA ExtentOfCell ==
  ASSUME NEW o \in Object, Pooled(o.size), o.cell # 0
  PROVE  LET b == Stride(Offset(o.size))
         IN  /\ b \in Nat /\ o.cell \in Nat
             /\ Extent(o) \subseteq HeaderSize + (o.cell - 1) * b .. HeaderSize + o.cell * b - 1
<1>1. o.size \in Nat /\ o.size >= 16 /\ o.cell \in Nat
  BY StorageAssumption, CellsOfPages DEF Object
<1>2. PICK b \in Nat : b = Stride(Offset(o.size)) /\ o.size + 8 <= b
  BY <1>1, Sizes
<1>3. PICK i \in Nat : i + 1 = o.cell /\ i = o.cell - 1
  BY <1>1
<1>4. o.cell * b = i * b + b /\ i * b \in Nat
  <2>1. (i + 1) * b = i * b + b /\ i * b \in Nat
    BY Products
  <2> QED BY <1>3, <2>1
<1>5. PICK m \in Nat : m = i * b
  BY <1>4
<1>6. Extent(o) = 64 + m .. (64 + m + 8 + o.size - 1)
  BY <1>2, <1>3, <1>5 DEF Extent, HeaderSize
<1>7. Extent(o) \subseteq 64 + m .. 64 + (m + b) - 1
  BY SMTT(30), <1>1, <1>2, <1>6
<1> QED BY <1>1, <1>2, <1>3, <1>4, <1>5, <1>7 DEF HeaderSize

(* Different cells of one page share no byte.                                *)
LEMMA CellsApart ==
  ASSUME NEW a \in Object, NEW b \in Object, Pooled(a.size), Pooled(b.size), a.cell # 0, b.cell # 0,
         Offset(a.size) = Offset(b.size), a.cell # b.cell
  PROVE  Extent(a) \cap Extent(b) = {}
<1>1. PICK d \in Nat : /\ d = Stride(Offset(a.size)) /\ a.cell \in Nat /\ b.cell \in Nat
                       /\ Extent(a) \subseteq HeaderSize + (a.cell - 1) * d .. HeaderSize + a.cell * d - 1
                       /\ Extent(b) \subseteq HeaderSize + (b.cell - 1) * d .. HeaderSize + b.cell * d - 1
  BY ExtentOfCell
<1>2. PICK i \in Nat, j \in Nat : i = a.cell - 1 /\ a.cell = i + 1 /\ j = b.cell - 1 /\ b.cell = j + 1
  BY <1>1
<1>3. PICK u \in Nat, v \in Nat, w \in Nat, z \in Nat :
        u = i * d /\ w = (i + 1) * d /\ v = j * d /\ z = (j + 1) * d
  BY Products
<1>4. (i < j => w <= v) /\ (j < i => z <= u)
  <2>1. i < j => (i + 1) * d <= j * d
    BY Products
  <2>2. j < i => (j + 1) * d <= i * d
    BY Products
  <2> QED BY <1>3, <2>1, <2>2
<1>5. i < j \/ j < i
  BY <1>2
<1>6. Extent(a) \subseteq 64 + u .. 64 + w - 1 /\ Extent(b) \subseteq 64 + v .. 64 + z - 1
  BY ZenonT(30), <1>1, <1>2, <1>3 DEF HeaderSize
<1> QED BY <1>4, <1>5, <1>6

-----------------------------------------------------------------------------
(* The steps.                                                                *)

(* The object o is handed out, and shares no byte with one in use.           *)
Handed(o) == o \in Object /\ objects' = objects \cup {o} /\ \A q \in objects : ~Overlap(o, q)

(* Only the words of a header say whether it is exact.                       *)
LEMMA HeaderSame ==
  ASSUME NEW h, NEW k, NEW O, NEW l, HeaderExact(h, O, l), SameWords(k, h)
  PROVE  HeaderExact(k, O, l)
BY DEF HeaderExact, SameWords

(* What the invariant says of a page, a free chunk and the lists.            *)
LEMMA InvFacts ==
  ASSUME StorageInv
  PROVE  /\ use \in [Chunks -> {"free", "direct", "page"}] /\ page \in [Chunks -> Page]
         /\ link \in [Chunks -> Links] /\ available \in [Offsets -> Chunks \cup {Null}]
         /\ objects \subseteq Object /\ IsFiniteSet(objects)
         /\ Lists \in ListState /\ Lists.page = page /\ Lists.available = available
         /\ \A c \in Chunks : IsFiniteSet(In(c))
         /\ \A c \in Chunks : use[c] = "free" => In(c) = {}
         /\ \A c \in Chunks : use[c] = "page" => \A o \in In(c) : Pooled(o.size)
         /\ \A o \in objects : o.at \in Chunks
<1>1. TypeOK /\ IsFiniteSet(objects)
  BY DEF StorageInv
<1>2. Lists \in ListState /\ Lists.page = page /\ Lists.available = available
  BY <1>1 DEF TypeOK, Lists, ListState
<1>3. \A o \in objects : o.at \in Chunks
  BY <1>1 DEF TypeOK, Object
<1>4. \A c \in Chunks : IsFiniteSet(In(c))
  BY <1>1, FS_Subset DEF In
<1>5. /\ \A c \in Chunks : use[c] = "free" => In(c) = {}
      /\ \A c \in Chunks : use[c] = "page" => \A o \in In(c) : Pooled(o.size)
  BY <1>1 DEF TypeOK, In
<1> QED BY <1>1, <1>2, <1>3, <1>4, <1>5 DEF TypeOK, Links

(* A state without room for doubt: everything outside one page p is as it    *)
(* was, and p has the header k, the objects O and the cell words l.          *)
Changed(p, k, O, l, r, B) ==
  /\ page' = r.page /\ available' = r.available /\ link' = [link EXCEPT ![p] = l]
  /\ use' \in [Chunks -> {"free", "direct", "page"}] /\ use'[p] = "page"
  /\ \A c \in Chunks : c # p => use'[c] = use[c] /\ SameWords(r.page[c], page[c])
  /\ SameWords(r.page[p], k) /\ k.live > 0 /\ HeaderExact(k, O, l)
  /\ objects' \subseteq Object /\ IsFiniteSet(objects') /\ In(p)' = O
  /\ \A c \in Chunks : c # p => In(c)' = In(c)
  /\ \A o \in O : Pooled(o.size)
  /\ \A y \in Offsets : Listed(B[y], r, y)
  /\ \A y \in Offsets : \A c \in Chunks : c # p => (c \in B[y] <=> c \in Avail(y))
  /\ \A y \in Offsets : p \in B[y] <=> k.offset = y /\ k.live < Capacity(k.offset)

(* A step that changes one page and its list preserves the invariant.        *)
LEMMA PageChanged ==
  ASSUME StorageInv, NEW p \in Chunks, NEW k, NEW O, NEW l \in Links, NEW r \in ListState, NEW B,
         Changed(p, k, O, l, r, B)
  PROVE  StorageInv'
<1> USE DEF Changed
<1>1. /\ use \in [Chunks -> {"free", "direct", "page"}] /\ page \in [Chunks -> Page]
      /\ link \in [Chunks -> Links] /\ available \in [Offsets -> Chunks \cup {Null}]
      /\ \A o \in objects : o.at \in Chunks
  BY InvFacts
<1>2. \A o \in objects' : o.at \in Chunks /\ o \in In(o.at)'
  BY DEF Object, In
<1>3. \A c \in Chunks : c # p => \A o \in In(c)' : o \in objects /\ o.at = c
  BY DEF In
<1>4. TypeOK'
  <2>1. page' \in [Chunks -> Page] /\ available' \in [Offsets -> Chunks \cup {Null}]
    BY DEF ListState
  <2>2. link' \in [Chunks -> Links]
    BY <1>1
  <2>3. ASSUME NEW o \in objects' PROVE use'[o.at] = IF Pooled(o.size) THEN "page" ELSE "direct"
    <3>1. CASE o.at = p
      BY <1>2, <3>1
    <3>2. CASE o.at # p
      <4>1. o \in objects
        BY <1>2, <1>3, <3>2
      <4> QED BY <1>2, <3>2, <4>1 DEF StorageInv, TypeOK
    <3> QED BY <3>1, <3>2
  <2> QED BY <2>1, <2>2, <2>3 DEF TypeOK, Links
<1>5. ObjectsExact'
  <2> SUFFICES ASSUME NEW o \in objects', NEW q \in objects', o.at = q.at, ~Pooled(o.size) PROVE o = q
    BY DEF ObjectsExact
  <2>1. o.at # p
    BY <1>2
  <2>2. o \in objects /\ q \in objects
    BY <1>2, <1>3, <2>1
  <2> QED BY <2>2 DEF StorageInv, ObjectsExact
<1>6. ASSUME NEW c \in Pages' PROVE page'[c].live > 0 /\ HeaderExact(page'[c], In(c)', link'[c])
  <2>1. c \in Chunks /\ use'[c] = "page"
    BY DEF Pages
  <2>2. CASE c = p
    <3>1. link'[p] = l
      BY <1>1
    <3>2. HeaderExact(r.page[p], O, l)
      BY HeaderSame
    <3> QED BY <2>2, <3>1, <3>2 DEF SameWords
  <2>3. CASE c # p
    <3>1. link'[c] = link[c] /\ In(c)' = In(c) /\ SameWords(page'[c], page[c]) /\ c \in Pages
      BY <1>1, <2>1, <2>3 DEF Pages
    <3>2. page[c].live > 0 /\ HeaderExact(page[c], In(c), link[c])
      BY <3>1 DEF StorageInv
    <3>3. HeaderExact(page'[c], In(c), link[c])
      BY <3>1, <3>2, HeaderSame
    <3> QED BY <3>1, <3>2, <3>3 DEF SameWords
  <2> QED BY <2>2, <2>3
<1>7. ASSUME NEW y \in Offsets PROVE Listed(Avail(y)', Lists', y)
  <2>1. Lists' = r
    <3>1. r = [page |-> r.page, available |-> r.available]
      BY DEF ListState
    <3> QED BY <3>1 DEF Lists
  <2>2. B[y] \in SUBSET Chunks /\ Avail(y)' \in SUBSET Chunks
    BY DEF Listed, Avail, Pages
  <2>3. ASSUME NEW c \in Chunks PROVE c \in Avail(y)' <=> c \in B[y]
    <3>1. c \in Avail(y)' <=> use'[c] = "page" /\ r.page[c].offset = y /\ r.page[c].live < Capacity(r.page[c].offset)
      BY DEF Avail, Pages, NotFull
    <3>2. CASE c = p
      BY <3>1, <3>2 DEF SameWords
    <3>3. CASE c # p
      <4>1. use'[c] = use[c] /\ r.page[c].offset = page[c].offset /\ r.page[c].live = page[c].live
        BY <3>3 DEF SameWords
      <4> QED BY <3>1, <3>3, <4>1 DEF Avail, Pages, NotFull
    <3> QED BY <3>2, <3>3
  <2>4. Avail(y)' = B[y]
    BY <2>2, <2>3
  <2> QED BY <2>1, <2>4
<1> QED BY <1>4, <1>5, <1>6, <1>7 DEF StorageInv

(* @allocate on the page p of the lists s: p has room, and everything else   *)
(* is as the invariant says.                                                 *)
LEMMA TakeKeeps ==
  ASSUME StorageInv, NEW s \in ListState, NEW p \in Chunks, NEW size \in Requests, Pooled(size),
         s.page[p].offset = Offset(size), s.page[p].live < Capacity(Offset(size)),
         HeaderExact(s.page[p], In(p), link[p]), \A o \in In(p) : Pooled(o.size),
         use' \in [Chunks -> {"free", "direct", "page"}], use'[p] = "page",
         \A c \in Chunks : c # p => use'[c] = use[c] /\ SameWords(s.page[c], page[c]),
         NEW A \in [Offsets -> SUBSET Chunks], \A y \in Offsets : Listed(A[y], s, y), p \in A[Offset(size)],
         \A y \in Offsets : \A c \in Chunks : c # p => (c \in A[y] <=> c \in Avail(y)),
         TakeCell(s, p, size)
  PROVE  StorageInv' /\ \E o : Handed(o)
<1>1. PICK x \in Offsets : x = Offset(size)
  BY DEF Offsets
<1> DEFINE h == s.page[p]
           l == link[p]
           k == TakenFrom(h, l)
           o == [at |-> p, cell |-> CellOf(h), size |-> size]
           m == [l EXCEPT ![CellOf(h)] = 0]
           t == [s EXCEPT !.page[p] = k]
           r == IF Full(k) THEN Unlink(t, p) ELSE t
<1>2. /\ page' = r.page /\ available' = r.available /\ link' = [link EXCEPT ![p][CellOf(h)] = 0]
      /\ objects' = objects \cup {o}
  BY DEF TakeCell, CellOf, TakenFrom
<1>3. /\ objects \subseteq Object /\ IsFiniteSet(objects) /\ IsFiniteSet(In(p)) /\ l \in Links
      /\ link \in [Chunks -> Links] /\ h \in Page /\ h.offset = x /\ h.live < Capacity(h.offset)
      /\ s = [page |-> s.page, available |-> s.available] /\ s.page \in [Chunks -> Page]
      /\ s.available \in [Offsets -> Chunks \cup {Null}] /\ h.live \in Nat
  BY <1>1, InvFacts, HeaderFields DEF ListState
<1>4. o.at = p /\ o.cell = CellOf(h) /\ o.size = size
  OBVIOUS
<1>5. CellOf(h) \in Cells /\ \A q \in In(p) : q.cell # CellOf(h)
  BY <1>3, CellIsFree
<1>6. o \in Object
  BY <1>5 DEF Object
<1>7. /\ k \in Page /\ k.next = h.next /\ k.prev = h.prev /\ k.live = h.live + 1 /\ k.offset = x
      /\ m \in Links /\ HeaderExact(k, In(p) \cup {o}, m)
  <2>1. Offset(o.size) = h.offset /\ HeaderExact(h, In(p), l)
    BY <1>1, <1>3, <1>4
  <2>2. o.cell = CellOf(h)
    BY <1>4
  <2> HIDE DEF o, h, l, k, m
  <2>3. CellTaken(h, In(p), l, o)
    BY <1>3, <2>1, <2>2, TakeKeepsHeader
  <2> QED BY <1>3, <2>3 DEF CellTaken, k, m
<1>8. link' = [link EXCEPT ![p] = m]
  BY <1>2, <1>3
<1> HIDE DEF o, k, m
<1>9. /\ t = [page |-> [s.page EXCEPT ![p] = k], available |-> s.available]
  BY <1>3
<1>10. /\ t \in ListState /\ t.page[p] = k /\ t.available = s.available
       /\ \A c \in Chunks : c # p => t.page[c] = s.page[c]
  <2>1. [s.page EXCEPT ![p] = k] \in [Chunks -> Page]
    BY <1>3, <1>7
  <2> HIDE DEF t
  <2>2. t.page = [s.page EXCEPT ![p] = k] /\ t.available = s.available
    BY <1>9
  <2>3. t \in ListState
    BY <1>3, <1>9, <2>1 DEF ListState
  <2> QED BY <1>3, <2>2, <2>3
<1> HIDE DEF t
<1>11. \A y \in Offsets : Listed(A[y], t, y)
  <2> SUFFICES ASSUME NEW y \in Offsets PROVE Listed(A[y], t, y)
    OBVIOUS
  <2>1. \A c \in Chunks : /\ t.page[c].next = s.page[c].next /\ t.page[c].prev = s.page[c].prev
                          /\ t.page[c].offset = s.page[c].offset
    BY <1>3, <1>7, <1>10
  <2>2. Listed(A[y], s, y) /\ \A c \in A[y] : c \in Chunks
    OBVIOUS
  <2> QED BY <1>10, <2>1, <2>2, ListedSame
<1>12. p \in A[x] /\ \A y \in Offsets : y # x => p \notin A[y]
  BY <1>1 DEF Listed
<1>13. Capacity(x) \in Nat
  BY <1>1, Capacities
<1> DEFINE B == [y \in Offsets |-> IF y = x /\ Full(k) THEN A[y] \ {p} ELSE A[y]]
<1>14. /\ r \in ListState /\ SameWords(r.page[p], k)
       /\ \A c \in Chunks : c # p => SameWords(r.page[c], s.page[c])
       /\ \A y \in Offsets : Listed(B[y], r, y)
  <2>1. CASE ~Full(k)
    <3>1. r = t /\ \A y \in Offsets : B[y] = A[y]
      BY <2>1
    <3> QED BY <1>10, <1>11, <3>1 DEF SameWords
  <2>2. CASE Full(k)
    <3>1. r = Unlink(t, p)
      BY <2>2
    <3>2. Unlinked(r, t, x, p)
      <4>1. t.page[p].offset = x
        BY <1>7, <1>10
      <4> QED BY <1>10, <3>1, <4>1, UnlinkChanges
    <3> HIDE DEF r
    <3>3. r \in ListState /\ \A c \in Chunks : SameWords(r.page[c], t.page[c])
      BY <3>2 DEF Unlinked
    <3>4. Listed(A[x] \ {p}, r, x)
      BY <1>10, <1>11, <1>12, <3>2, UnlinkList
    <3>5. ASSUME NEW y \in Offsets, y # x PROVE Listed(A[y], r, y)
      BY <1>10, <1>11, <1>12, <3>2, <3>5, UnlinkOthers
    <3>6. B[x] = A[x] \ {p} /\ \A y \in Offsets : y # x => B[y] = A[y]
      BY <2>2
    <3> HIDE DEF B
    <3>7. \A y \in Offsets : Listed(B[y], r, y)
      BY <3>4, <3>5, <3>6
    <3>8. SameWords(r.page[p], k) /\ \A c \in Chunks : c # p => SameWords(r.page[c], s.page[c])
      BY <1>10, <3>3
    <3> QED BY <3>3, <3>7, <3>8
  <2> QED BY <2>1, <2>2
<1> HIDE DEF r
<1>15. \A y \in Offsets : \A c \in Chunks : c # p => (c \in B[y] <=> c \in Avail(y))
  OBVIOUS
<1>16. \A y \in Offsets : p \in B[y] <=> k.offset = y /\ k.live < Capacity(k.offset)
  <2>1. Full(k) <=> k.live = Capacity(x)
    BY <1>7 DEF Full
  <2>2. k.live <= Capacity(x) /\ k.live \in Nat
    BY <1>3, <1>7, <1>13
  <2> QED BY <1>7, <1>12, <1>13, <2>1, <2>2
<1> HIDE DEF B
<1>17. \A c \in Chunks : c # p => use'[c] = use[c] /\ SameWords(r.page[c], page[c])
  BY <1>14 DEF SameWords
<1>18. In(p)' = In(p) \cup {o} /\ \A c \in Chunks : c # p => In(c)' = In(c)
  BY <1>2, <1>4 DEF In
<1>19. objects' \subseteq Object /\ IsFiniteSet(objects')
  BY <1>2, <1>3, <1>6, FS_AddElement
<1>20. k.live > 0 /\ \A q \in In(p) \cup {o} : Pooled(q.size)
  BY <1>3, <1>4, <1>7
<1>21. StorageInv'
  <2>1. Changed(p, k, In(p) \cup {o}, m, r, B)
    BY <1>2, <1>7, <1>8, <1>14, <1>15, <1>16, <1>17, <1>18, <1>19, <1>20 DEF Changed
  <2> QED BY <1>7, <1>14, <2>1, PageChanged
<1>22. ASSUME NEW q \in objects PROVE ~Overlap(o, q)
  <2> SUFFICES ASSUME q.at = p PROVE Extent(o) \cap Extent(q) = {}
    BY <1>4 DEF Overlap
  <2>1. q \in In(p) /\ Pooled(q.size) /\ q \in Object
    BY <1>3 DEF In
  <2>2. /\ Offset(q.size) = x /\ q.cell # 0 /\ q.cell # o.cell /\ o.cell # 0
    <3>1. Offset(q.size) = x /\ q.cell \in 1..h.cursor - 1
      BY <1>3, <2>1 DEF HeaderExact
    <3>2. q.cell # o.cell
      BY <1>4, <1>5, <2>1
    <3> QED BY <1>4, <1>5, <3>1, <3>2, CellsOfPages
  <2> QED BY <1>1, <1>4, <1>6, <2>1, <2>2, CellsApart
<1>23. Handed(o)
  BY <1>2, <1>6, <1>22 DEF Handed
<1> QED BY <1>21, <1>23

(* A class that has an available page gives a cell of the first.             *)
LEMMA AllocExistingKeeps ==
  ASSUME StorageInv, NEW size \in Requests, AllocExisting(size)
  PROVE  StorageInv' /\ \E o : Handed(o)
<1>1. PICK x \in Offsets : x = Offset(size) /\ Pooled(size)
  BY DEF Offsets, AllocExisting
<1>2. PICK p : p = available[x] /\ p # Null /\ TakeCell(Lists, p, size) /\ use' = use
  BY <1>1 DEF AllocExisting
<1>3. Listed(Avail(x), Lists, x) /\ Lists.page = page /\ Lists.available = available /\ Lists \in ListState
  BY InvFacts DEF StorageInv
<1>4. p \in Avail(x)
  BY <1>2, <1>3 DEF Listed, Chain
<1>5. p \in Chunks /\ use[p] = "page" /\ page[p].offset = x /\ page[p].live < Capacity(x)
  BY <1>4 DEF Avail, Pages, NotFull
<1>6. HeaderExact(page[p], In(p), link[p]) /\ \A o \in In(p) : Pooled(o.size)
  BY <1>5, InvFacts DEF StorageInv, Pages
<1> DEFINE A == [y \in Offsets |-> Avail(y)]
<1>7. /\ A \in [Offsets -> SUBSET Chunks] /\ p \in A[x] /\ \A y \in Offsets : Listed(A[y], Lists, y)
      /\ \A y \in Offsets : \A c \in Chunks : c # p => (c \in A[y] <=> c \in Avail(y))
  BY <1>4 DEF StorageInv, Avail, Pages
<1>8. use' \in [Chunks -> {"free", "direct", "page"}] /\ use'[p] = "page"
  BY <1>2, <1>5, InvFacts
<1>9. \A c \in Chunks : c # p => use'[c] = use[c] /\ SameWords(Lists.page[c], page[c])
  BY <1>2, <1>3 DEF SameWords
<1> HIDE DEF A
<1> QED BY <1>1, <1>2, <1>3, <1>5, <1>6, <1>7, <1>8, <1>9, TakeKeeps

(* Otherwise a new page becomes the list of its class.                       *)
LEMMA AllocNewPageKeeps ==
  ASSUME StorageInv, NEW size \in Requests, AllocNewPage(size)
  PROVE  StorageInv' /\ \E o : Handed(o)
<1>1. PICK x \in Offsets : x = Offset(size) /\ Pooled(size) /\ available[x] = Null
  BY DEF Offsets, AllocNewPage
<1> DEFINE st(p) == [page |-> [page EXCEPT ![p] = NewPage(x)], available |-> [available EXCEPT ![x] = p]]
<1>2. PICK p \in Chunks : use[p] = "free" /\ use' = [use EXCEPT ![p] = "page"] /\ TakeCell(st(p), p, size)
  BY <1>1 DEF AllocNewPage
<1> DEFINE s == st(p)
           h == NewPage(x)
<1>3. /\ use \in [Chunks -> {"free", "direct", "page"}] /\ page \in [Chunks -> Page]
      /\ available \in [Offsets -> Chunks \cup {Null}] /\ In(p) = {} /\ Null \notin Chunks
      /\ Lists.page = page /\ Lists.available = available /\ Lists \in ListState
  BY <1>2, InvFacts, StorageAssumption
<1>4. Capacity(x) \in Nat /\ Capacity(x) >= 1 /\ 1 \in Cells
  <2>1. Capacity(x) \in Nat /\ Capacity(x) >= 1 /\ 1..Capacity(x) \subseteq Cells
    BY Capacities
  <2>2. 1 \in 1..Capacity(x)
    BY <2>1
  <2> QED BY <2>1, <2>2
<1>5. /\ h \in Page /\ h.next = Null /\ h.prev = Null /\ h.free = 0 /\ h.cursor = 1 /\ h.live = 0 /\ h.offset = x
  BY <1>4 DEF NewPage, Page
<1>6. /\ s \in ListState /\ s.page[p] = h /\ s.available[x] = p
      /\ \A c \in Chunks : c # p => s.page[c] = page[c]
      /\ \A y \in Offsets : y # x => s.available[y] = available[y]
  <2> HIDE DEF h
  <2>1. [page EXCEPT ![p] = h] \in [Chunks -> Page] /\ [available EXCEPT ![x] = p] \in [Offsets -> Chunks \cup {Null}]
    BY <1>3, <1>5
  <2>2. s = [page |-> [page EXCEPT ![p] = h], available |-> [available EXCEPT ![x] = p]]
    BY DEF h
  <2> HIDE DEF s
  <2>3. s.page = [page EXCEPT ![p] = h] /\ s.available = [available EXCEPT ![x] = p]
    BY <2>2
  <2>4. s \in ListState
    BY <2>1, <2>2 DEF ListState
  <2> QED BY <1>3, <2>3, <2>4
<1>7. TakeCell(s, p, size)
  BY <1>2
<1> HIDE DEF s, h, st
<1>8. Avail(x) = {} /\ \A y \in Offsets : p \notin Avail(y) /\ Listed(Avail(y), Lists, y)
  <2>1. Listed(Avail(x), Lists, x) /\ \A y \in Offsets : Listed(Avail(y), Lists, y)
    BY DEF StorageInv
  <2>2. Chain(Avail(x), Null, Nexts(page), Null)
    BY <1>1, <1>3, <2>1 DEF Listed
  <2>3. Avail(x) = {}
    BY <2>2, ChainEmpty
  <2> QED BY <1>2, <2>1, <2>3 DEF Avail, Pages
<1> DEFINE A == [y \in Offsets |-> IF y = x THEN {p} ELSE Avail(y)]
<1>9. Listed({p}, s, x)
  <2>1. Chain({}, Null, Nexts(s.page), Null)
    BY DEF Chain
  <2>2. Nexts(s.page)[p] = Null
    BY <1>5, <1>6 DEF Nexts
  <2>3. Chain({} \cup {p}, p, Nexts(s.page), Null)
    BY <1>3, <2>1, <2>2, ChainPush
  <2>4. Chain({p}, p, Nexts(s.page), Null)
    <3>1. {} \cup {p} = {p}
      OBVIOUS
    <3> QED BY <2>3, <3>1
  <2> QED BY <1>5, <1>6, <2>4 DEF Listed
<1>10. ASSUME NEW y \in Offsets PROVE Listed(A[y], s, y)
  <2>1. CASE y = x
    BY <1>9, <2>1
  <2>2. CASE y # x
    <3>1. A[y] = Avail(y) /\ Listed(Avail(y), Lists, y) /\ p \notin Avail(y) /\ Avail(y) \in SUBSET Chunks
      BY <1>8, <2>2 DEF Listed
    <3>2. \A c \in Avail(y) : s.page[c] = Lists.page[c]
      BY <1>3, <1>6, <3>1
    <3>3. s.available[y] = Lists.available[y]
      BY <1>3, <1>6, <2>2
    <3>4. Listed(Avail(y), s, y)
      BY <3>1, <3>2, <3>3, ListedSame
    <3> QED BY <3>1, <3>4
  <2> QED BY <2>1, <2>2
<1>11. /\ A \in [Offsets -> SUBSET Chunks] /\ p \in A[x]
       /\ \A y \in Offsets : \A c \in Chunks : c # p => (c \in A[y] <=> c \in Avail(y))
  BY <1>8 DEF Avail, Pages
<1> HIDE DEF A
<1>12. HeaderExact(s.page[p], In(p), link[p])
  <2>1. 1..1 - 1 = {} /\ (1..1 - 1) \ {o.cell : o \in {}} = {}
    OBVIOUS
  <2>2. Chain({}, 0, link[p], 0)
    BY DEF Chain
  <2>3. Cardinality({}) = 0
    BY FS_EmptySet
  <2>4. (1..s.page[p].cursor - 1) \ {o.cell : o \in In(p)} = {} /\ 1 \in 1..Capacity(x) + 1
    BY <1>3, <1>4, <1>5, <1>6, <2>1
  <2>5. s.page[p].live = Cardinality(In(p)) /\ s.page[p].live \in 0..Capacity(s.page[p].offset)
    BY <1>3, <1>4, <1>5, <1>6, <2>3
  <2>6. s.page[p].cursor \in 1..Capacity(s.page[p].offset) + 1
    BY <1>5, <1>6, <2>4
  <2>7. /\ \A o \in In(p) : Offset(o.size) = s.page[p].offset /\ o.cell \in 1..s.page[p].cursor - 1
        /\ \A o, q \in In(p) : o.cell = q.cell => o = q
    BY <1>3
  <2>8. Chain((1..s.page[p].cursor - 1) \ {o.cell : o \in In(p)}, s.page[p].free, link[p], 0)
    BY <1>5, <1>6, <2>2, <2>4
  <2> QED BY <2>5, <2>6, <2>7, <2>8 DEF HeaderExact
<1>13. use' \in [Chunks -> {"free", "direct", "page"}] /\ use'[p] = "page"
  BY <1>2, <1>3
<1>14. \A c \in Chunks : c # p => use'[c] = use[c] /\ SameWords(s.page[c], page[c])
  BY <1>2, <1>3, <1>6 DEF SameWords
<1>15. s.page[p].offset = Offset(size) /\ s.page[p].live < Capacity(Offset(size)) /\ \A o \in In(p) : Pooled(o.size)
  BY <1>1, <1>3, <1>4, <1>5, <1>6
<1> QED BY <1>1, <1>6, <1>7, <1>10, <1>11, <1>12, <1>13, <1>14, <1>15, TakeKeeps

(* A chunk c that is no page changes hands: pages and lists are as they were.*)
DirectChanged(c, u) ==
  /\ use' = [use EXCEPT ![c] = u] /\ page' = page /\ link' = link /\ available' = available
  /\ objects' \subseteq Object /\ IsFiniteSet(objects')
  /\ \A d \in Chunks : d # c => In(d)' = In(d)
  /\ \A o \in In(c)' : ~Pooled(o.size) /\ u = "direct"
  /\ \A o, q \in In(c)' : o = q

(* So does one that takes or returns a direct chunk.                         *)
LEMMA DirectKeeps ==
  ASSUME StorageInv, NEW c \in Chunks, use[c] # "page", NEW u \in {"free", "direct"}, DirectChanged(c, u)
  PROVE  StorageInv'
<1> USE DEF DirectChanged
<1>1. /\ use \in [Chunks -> {"free", "direct", "page"}] /\ page \in [Chunks -> Page]
      /\ link \in [Chunks -> Links] /\ available \in [Offsets -> Chunks \cup {Null}]
      /\ \A o \in objects : o.at \in Chunks
  BY InvFacts
<1>2. /\ use' \in [Chunks -> {"free", "direct", "page"}] /\ use'[c] = u
      /\ \A d \in Chunks : d # c => use'[d] = use[d]
  BY <1>1
<1>3. \A o \in objects' : o.at \in Chunks /\ o \in In(o.at)'
  BY DEF Object, In
<1>4. \A d \in Chunks : d # c => \A o \in In(d)' : o \in objects /\ o.at = d
  BY DEF In
<1>5. TypeOK'
  <2>1. ASSUME NEW o \in objects' PROVE use'[o.at] = IF Pooled(o.size) THEN "page" ELSE "direct"
    <3>1. CASE o.at = c
      BY <1>2, <1>3, <3>1
    <3>2. CASE o.at # c
      BY <1>2, <1>3, <1>4, <3>2 DEF StorageInv, TypeOK
    <3> QED BY <3>1, <3>2
  <2> QED BY <1>1, <1>2, <2>1 DEF TypeOK, Links
<1>6. ObjectsExact'
  <2> SUFFICES ASSUME NEW o \in objects', NEW q \in objects', o.at = q.at, ~Pooled(o.size) PROVE o = q
    BY DEF ObjectsExact
  <2>1. CASE o.at = c
    BY <1>3, <2>1
  <2>2. CASE o.at # c
    <3>1. o \in objects /\ q \in objects
      BY <1>3, <1>4, <2>2
    <3> QED BY <3>1 DEF StorageInv, ObjectsExact
  <2> QED BY <2>1, <2>2
<1>7. Pages' = Pages /\ c \notin Pages
  BY <1>1, <1>2 DEF Pages
<1>8. ASSUME NEW p \in Pages' PROVE page'[p].live > 0 /\ HeaderExact(page'[p], In(p)', link'[p])
  <2>1. p \in Pages /\ p \in Chunks /\ p # c /\ In(p)' = In(p)
    BY <1>7 DEF Pages
  <2> QED BY <2>1 DEF StorageInv
<1>9. ASSUME NEW y \in Offsets PROVE Listed(Avail(y)', Lists', y)
  <2>1. Avail(y)' = Avail(y) /\ Lists' = Lists
    BY <1>7 DEF Avail, NotFull, Lists
  <2> QED BY <2>1 DEF StorageInv
<1> QED BY <1>5, <1>6, <1>8, <1>9 DEF StorageInv

(* A large object is a block of its own.                                     *)
LEMMA AllocDirectKeeps ==
  ASSUME StorageInv, NEW size \in Requests, AllocDirect(size)
  PROVE  StorageInv' /\ \E o : Handed(o)
<1> DEFINE b(c) == [at |-> c, cell |-> 0, size |-> size]
<1>1. PICK c \in Chunks : /\ use[c] = "free" /\ use' = [use EXCEPT ![c] = "direct"]
                          /\ objects' = objects \cup {b(c)}
  BY DEF AllocDirect
<1>2. page' = page /\ link' = link /\ available' = available /\ ~Pooled(size)
  BY DEF AllocDirect
<1> DEFINE o == b(c)
<1>3. o \in Object /\ o.at = c /\ o.size = size
  BY DEF Object
<1>4. objects' = objects \cup {o}
  BY <1>1
<1> HIDE DEF o, b
<1>5. In(c) = {} /\ objects \subseteq Object /\ IsFiniteSet(objects)
  BY <1>1, InvFacts
<1>6. objects' \subseteq Object /\ IsFiniteSet(objects')
  BY <1>3, <1>4, <1>5, FS_AddElement
<1>7. In(c)' = {o} /\ \A d \in Chunks : d # c => In(d)' = In(d)
  BY <1>3, <1>4, <1>5 DEF In
<1>8. DirectChanged(c, "direct")
  BY <1>1, <1>2, <1>3, <1>6, <1>7 DEF DirectChanged
<1>9. StorageInv'
  BY <1>1, <1>8, DirectKeeps
<1>10. \A q \in objects : ~Overlap(o, q)
  BY <1>3, <1>5 DEF Overlap, In
<1> QED BY <1>3, <1>4, <1>9, <1>10 DEF Handed

(* Its block is malloc's again once it is free.                              *)
LEMMA FreeDirectKeeps ==
  ASSUME StorageInv, NEW o \in objects, FreeDirect(o)
  PROVE  StorageInv' /\ objects' = objects \ {o}
<1>1. PICK c \in Chunks : c = o.at
  BY InvFacts
<1>2. /\ use' = [use EXCEPT ![c] = "free"] /\ objects' = objects \ {o} /\ ~Pooled(o.size)
      /\ page' = page /\ link' = link /\ available' = available
  BY <1>1 DEF FreeDirect
<1>3. use[c] # "page"
  BY <1>1, <1>2 DEF StorageInv, TypeOK
<1>4. objects' \subseteq Object /\ IsFiniteSet(objects')
  BY <1>2, InvFacts, FS_RemoveElement
<1>5. In(c)' = {} /\ \A d \in Chunks : d # c => In(d)' = In(d)
  BY <1>1, <1>2 DEF In, StorageInv, ObjectsExact
<1>6. DirectChanged(c, "free")
  BY <1>2, <1>4, <1>5 DEF DirectChanged
<1> QED BY <1>2, <1>3, <1>6, DirectKeeps

(* What the sweep gives back lies in a page of its class.                    *)
LEMMA PageOfObject ==
  ASSUME StorageInv, NEW o \in objects, Pooled(o.size)
  PROVE  /\ o.at \in Chunks /\ o.at \in Pages /\ use[o.at] = "page" /\ o \in In(o.at)
         /\ page[o.at] \in Page /\ link[o.at] \in Links /\ IsFiniteSet(In(o.at))
         /\ page[o.at].live > 0 /\ HeaderExact(page[o.at], In(o.at), link[o.at])
         /\ \A q \in In(o.at) : Pooled(q.size)
<1>1. o.at \in Chunks /\ page[o.at] \in Page /\ link[o.at] \in Links /\ IsFiniteSet(In(o.at))
  BY InvFacts
<1>2. use[o.at] = "page"
  BY DEF StorageInv, TypeOK
<1>3. o.at \in Pages /\ o \in In(o.at) /\ \A q \in In(o.at) : Pooled(q.size)
  BY <1>1, <1>2, InvFacts DEF Pages, In
<1> QED BY <1>1, <1>2, <1>3 DEF StorageInv

(* The last object of a page takes the page with it.                         *)
LEMMA FreeLastKeeps ==
  ASSUME StorageInv, NEW o \in objects, FreeLast(o)
  PROVE  StorageInv' /\ objects' = objects \ {o}
<1>1. PICK p \in Chunks : p = o.at /\ p \in Pages /\ page[p] \in Page /\ page[p].live = 1 /\ o \in In(p)
                          /\ HeaderExact(page[p], In(p), link[p]) /\ IsFiniteSet(In(p))
  BY PageOfObject DEF FreeLast, LastObject
<1> DEFINE s == IF Full(page[p]) THEN Lists ELSE Unlink(Lists, p)
<1>2. /\ page' = [s.page EXCEPT ![p] = Unused] /\ available' = s.available
      /\ link' = [link EXCEPT ![p] = [i \in Cells |-> 0]]
      /\ use' = [use EXCEPT ![p] = "free"] /\ objects' = objects \ {o}
  BY <1>1 DEF FreeLast
<1>3. /\ use \in [Chunks -> {"free", "direct", "page"}] /\ page \in [Chunks -> Page]
      /\ link \in [Chunks -> Links] /\ available \in [Offsets -> Chunks \cup {Null}]
      /\ objects \subseteq Object /\ IsFiniteSet(objects)
      /\ Lists \in ListState /\ Lists.page = page /\ Lists.available = available
      /\ \A q \in objects : q.at \in Chunks
  BY InvFacts
<1>4. In(p) = {o}
  <2>1. Cardinality(In(p)) = 1
    BY <1>1 DEF HeaderExact
  <2>2. \E q : In(p) = {q}
    BY <1>1, <2>1, FS_Singleton
  <2> QED BY <1>1, <2>2
<1>5. PICK x \in Offsets : x = page[p].offset /\ Capacity(x) \in Nat /\ Capacity(x) >= 1
  BY <1>1, HeaderFields, Capacities
<1>6. \A y \in Offsets : Listed(Avail(y), Lists, y) /\ Avail(y) \in SUBSET Chunks
  BY DEF StorageInv, Listed
<1>7. /\ s \in ListState /\ \A c \in Chunks : SameWords(s.page[c], page[c])
      /\ \A y \in Offsets : Listed(Avail(y) \ {p}, s, y)
  <2>1. CASE Full(page[p])
    <3>1. \A y \in Offsets : p \notin Avail(y)
      BY <1>5, <2>1 DEF Full, Avail, NotFull
    <3>2. \A y \in Offsets : Avail(y) \ {p} = Avail(y)
      BY <3>1
    <3> QED BY <1>3, <1>6, <2>1, <3>2 DEF SameWords
  <2>2. CASE ~Full(page[p])
    <3>1. p \in Avail(x)
      BY <1>1, <1>5, <2>2 DEF Full, Avail, NotFull
    <3>2. s = Unlink(Lists, p)
      BY <2>2
    <3>3. Unlinked(s, Lists, x, p)
      BY <1>3, <1>5, <3>2, UnlinkChanges
    <3> HIDE DEF s
    <3>4. Listed(Avail(x) \ {p}, s, x)
      BY <1>3, <1>6, <3>1, <3>3, UnlinkList
    <3>5. ASSUME NEW y \in Offsets, y # x PROVE Listed(Avail(y) \ {p}, s, y)
      <4>1. Listed(Avail(y), s, y)
        BY <1>3, <1>6, <3>1, <3>3, <3>5, UnlinkOthers
      <4>2. Avail(y) \ {p} = Avail(y)
        BY <1>5, <3>5 DEF Avail
      <4> QED BY <4>1, <4>2
    <3>6. s \in ListState /\ \A c \in Chunks : SameWords(s.page[c], page[c])
      BY <1>3, <3>3 DEF Unlinked
    <3> QED BY <3>4, <3>5, <3>6
  <2> QED BY <2>1, <2>2
<1> HIDE DEF s
<1>8. Unused \in Page
  <2>1. PICK y \in Offsets : Unused = NewPage(y)
    BY StorageAssumption DEF Unused
  <2>2. 1 \in Cells /\ Null \in Chunks \cup {Null}
    <3>1. 1 \in 1..Capacity(x)
      BY <1>5
    <3> QED BY <3>1, Capacities
  <2> QED BY <2>1, <2>2 DEF NewPage, Page
<1>9. /\ page' \in [Chunks -> Page] /\ available' \in [Offsets -> Chunks \cup {Null}]
      /\ \A c \in Chunks : c # p => page'[c] = s.page[c]
  BY <1>2, <1>7, <1>8 DEF ListState
<1>10. /\ link' \in [Chunks -> Links] /\ \A c \in Chunks : c # p => link'[c] = link[c]
  BY <1>2, <1>3 DEF Links
<1>11. /\ use' \in [Chunks -> {"free", "direct", "page"}] /\ use'[p] = "free"
       /\ \A c \in Chunks : c # p => use'[c] = use[c]
  BY <1>2, <1>3
<1>12. objects' \subseteq Object /\ IsFiniteSet(objects') /\ \A q \in objects' : q \in objects /\ q.at # p
  <2>1. objects' \subseteq Object /\ IsFiniteSet(objects')
    BY <1>2, <1>3, FS_RemoveElement
  <2>2. \A q \in objects' : q \in objects /\ q.at # p
    BY <1>2, <1>4 DEF In
  <2> QED BY <2>1, <2>2
<1>13. TypeOK'
  <2>1. \A q \in objects' : use'[q.at] = IF Pooled(q.size) THEN "page" ELSE "direct"
    BY <1>3, <1>11, <1>12 DEF StorageInv, TypeOK
  <2> QED BY <1>9, <1>10, <1>11, <1>12, <2>1 DEF TypeOK, Links
<1>14. ObjectsExact'
  BY <1>12 DEF StorageInv, ObjectsExact
<1>15. \A c \in Chunks : c # p => In(c)' = In(c)
  BY <1>1, <1>2 DEF In
<1>16. Pages' = Pages \ {p}
  BY <1>11 DEF Pages
<1>17. ASSUME NEW c \in Pages' PROVE page'[c].live > 0 /\ HeaderExact(page'[c], In(c)', link'[c])
  <2>1. c \in Chunks /\ c \in Pages /\ c # p
    BY <1>16 DEF Pages
  <2>2. page[c].live > 0 /\ HeaderExact(page[c], In(c), link[c])
    BY <2>1 DEF StorageInv
  <2>3. SameWords(page'[c], page[c]) /\ link'[c] = link[c] /\ In(c)' = In(c)
    BY <1>7, <1>9, <1>10, <1>15, <2>1
  <2>4. HeaderExact(page'[c], In(c), link[c])
    BY <2>2, <2>3, HeaderSame
  <2> QED BY <2>2, <2>3, <2>4 DEF SameWords
<1>18. ASSUME NEW y \in Offsets PROVE Listed(Avail(y)', Lists', y)
  <2>1. Lists'.page = page' /\ Lists'.available = available'
    BY DEF Lists
  <2>2. \A c \in Avail(y) \ {p} : c \in Chunks /\ Lists'.page[c] = s.page[c]
    BY <1>6, <1>9, <2>1
  <2>3. Lists'.available[y] = s.available[y]
    BY <1>2, <2>1
  <2>4. Listed(Avail(y) \ {p}, s, y)
    BY <1>7
  <2>5. Listed(Avail(y) \ {p}, Lists', y)
    BY <2>2, <2>3, <2>4, ListedSame
  <2>6. Avail(y)' = Avail(y) \ {p}
    <3>1. \A c \in Pages' : c \in Chunks /\ c # p /\ page'[c].offset = page[c].offset /\ page'[c].live = page[c].live
      BY <1>7, <1>9, <1>16 DEF SameWords, Pages
    <3>2. \A c \in Pages' : NotFull(c)' <=> NotFull(c)
      BY <3>1 DEF NotFull
    <3> QED BY <1>16, <3>1, <3>2 DEF Avail
  <2> QED BY <2>5, <2>6
<1> QED BY <1>2, <1>12, <1>13, <1>14, <1>17, <1>18 DEF StorageInv

(* The two words that FreeCell writes.                                       *)
KeptPage(s, c, e) == [s EXCEPT !.page[c].live = @ - 1, !.page[c].free = e]
KeptIs(s, g, a, c, e) ==
  KeptPage(s, c, e) = [page |-> [g EXCEPT ![c] = GivenBack(g[c], e)], available |-> a]

(* The header words that trbn_storage_free writes.                           *)
LEMMA GiveOfState ==
  ASSUME NEW g \in [Chunks -> Page], NEW a, NEW c \in Chunks, NEW e, NEW s, s = [page |-> g, available |-> a]
  PROVE  KeptIs(s, g, a, c, e)
<1>1. [s EXCEPT !.page[c].live = @ - 1, !.page[c].free = e]
        = [page |-> [g EXCEPT ![c].live = @ - 1, ![c].free = e], available |-> a]
  <2>1. PICK u : u = [s EXCEPT !.page[c].live = @ - 1]
    OBVIOUS
  <2>2. u = [page |-> [g EXCEPT ![c].live = @ - 1], available |-> a]
    BY <2>1
  <2>3. [s EXCEPT !.page[c].live = @ - 1, !.page[c].free = e] = [u EXCEPT !.page[c].free = e]
    BY <2>1
  <2>4. PICK f : f = [g EXCEPT ![c].live = @ - 1]
    OBVIOUS
  <2>5. [u EXCEPT !.page[c].free = e] = [page |-> [f EXCEPT ![c].free = e], available |-> a]
    BY <2>2, <2>4
  <2>6. [g EXCEPT ![c].live = @ - 1, ![c].free = e] = [f EXCEPT ![c].free = e]
    BY <2>4
  <2> QED BY <2>3, <2>5, <2>6
<1> DEFINE k == [g[c] EXCEPT !.live = @ - 1]
<1>2. [g EXCEPT ![c].live = @ - 1, ![c].free = e] = [[g EXCEPT ![c] = k] EXCEPT ![c].free = e]
  OBVIOUS
<1> HIDE DEF k
<1>3. [[g EXCEPT ![c] = k] EXCEPT ![c].free = e] = [g EXCEPT ![c] = [k EXCEPT !.free = e]]
  OBVIOUS
<1>4. [k EXCEPT !.free = e] = GivenBack(g[c], e)
  BY DEF k, GivenBack
<1> QED BY <1>1, <1>2, <1>3, <1>4 DEF KeptPage, KeptIs

(* Otherwise the cell joins the free chain, and a page that was full its     *)
(* list.                                                                     *)
LEMMA FreeCellKeeps ==
  ASSUME StorageInv, NEW o \in objects, FreeCell(o)
  PROVE  StorageInv' /\ objects' = objects \ {o}
<1>1. PICK p \in Chunks : p = o.at /\ use[p] = "page" /\ p \in Pages /\ page[p] \in Page /\ o \in In(p)
                          /\ page[p].live > 0 /\ page[p].live # 1 /\ link[p] \in Links
                          /\ HeaderExact(page[p], In(p), link[p]) /\ IsFiniteSet(In(p))
                          /\ \A q \in In(p) : Pooled(q.size)
  BY PageOfObject DEF FreeCell, FreeRetaining, LastObject
<1>2. /\ use \in [Chunks -> {"free", "direct", "page"}] /\ page \in [Chunks -> Page]
      /\ link \in [Chunks -> Links] /\ available \in [Offsets -> Chunks \cup {Null}]
      /\ objects \subseteq Object /\ IsFiniteSet(objects)
      /\ Lists \in ListState /\ Lists.page = page /\ Lists.available = available
  BY InvFacts
<1>3. PICK x \in Offsets : x = page[p].offset /\ Capacity(x) \in Nat /\ Capacity(x) >= 1
  BY <1>1, HeaderFields, Capacities
<1> DEFINE k == GivenBack(page[p], o.cell)
           m == [link[p] EXCEPT ![o.cell] = page[p].free]
           t == [page |-> [page EXCEPT ![p] = k], available |-> available]
           r == IF Full(page[p]) THEN Insert(t, p) ELSE t
<1>4. /\ page' = r.page /\ available' = r.available /\ objects' = objects \ {o} /\ use' = use
      /\ link' = [link EXCEPT ![p][o.cell] = page[p].free]
  <2>1. Lists = [page |-> page, available |-> available]
    BY DEF Lists
  <2>2. KeptPage(Lists, p, o.cell) = t
    <3>1. KeptIs(Lists, page, available, p, o.cell)
      BY <1>2, <2>1, GiveOfState
    <3> QED BY <3>1 DEF KeptIs
  <2>3. LET u == IF Full(page[p]) THEN Insert(KeptPage(Lists, p, o.cell), p) ELSE KeptPage(Lists, p, o.cell)
        IN  page' = u.page /\ available' = u.available
    BY <1>1 DEF FreeCell, FreeRetaining, KeptPage
  <2>4. page' = r.page /\ available' = r.available
    BY <2>2, <2>3
  <2> QED BY <1>1, <2>4 DEF FreeCell, FreeRetaining
<1>5. /\ k \in Page /\ k.next = page[p].next /\ k.prev = page[p].prev /\ k.live = page[p].live - 1
      /\ k.offset = x /\ m \in Links /\ HeaderExact(k, In(p) \ {o}, m)
  <2>1. CellGiven(page[p], In(p), link[p], o)
    BY <1>1, GiveKeepsHeader
  <2> QED BY <1>3, <2>1 DEF CellGiven
<1>6. link' = [link EXCEPT ![p] = m]
  BY <1>2, <1>4
<1> HIDE DEF k, m
<1>7. /\ t \in ListState /\ t.page[p] = k /\ t.available = available
      /\ \A c \in Chunks : c # p => t.page[c] = page[c]
  <2>1. [page EXCEPT ![p] = k] \in [Chunks -> Page]
    BY <1>2, <1>5
  <2>2. t.page = [page EXCEPT ![p] = k] /\ t.available = available
    OBVIOUS
  <2>3. t \in ListState
    BY <1>2, <2>1 DEF ListState
  <2> HIDE DEF t
  <2> QED BY <1>2, <2>2, <2>3
<1> HIDE DEF t
<1>8. \A y \in Offsets : Listed(Avail(y), t, y)
  <2> SUFFICES ASSUME NEW y \in Offsets PROVE Listed(Avail(y), t, y)
    OBVIOUS
  <2>1. \A c \in Chunks : /\ t.page[c].next = page[c].next /\ t.page[c].prev = page[c].prev
                          /\ t.page[c].offset = page[c].offset
    BY <1>3, <1>5, <1>7
  <2>2. Listed(Avail(y), Lists, y) /\ \A c \in Avail(y) : c \in Chunks
    BY DEF StorageInv, Listed
  <2> QED BY <1>2, <1>7, <2>1, <2>2, ListedSame
<1>9. page[p].live \in Nat /\ page[p].live <= Capacity(x) /\ (Full(page[p]) <=> page[p].live = Capacity(x))
  BY <1>1, <1>3, HeaderFields DEF HeaderExact, Full
<1>10. \A y \in Offsets : p \in Avail(y) <=> (y = x /\ ~Full(page[p]))
  BY <1>1, <1>3, <1>9 DEF Avail, NotFull
<1> DEFINE B == [y \in Offsets |-> IF y = x /\ Full(page[p]) THEN Avail(y) \cup {p} ELSE Avail(y)]
<1>11. /\ r \in ListState /\ SameWords(r.page[p], k)
       /\ \A c \in Chunks : c # p => SameWords(r.page[c], page[c])
       /\ \A y \in Offsets : Listed(B[y], r, y)
  <2>1. CASE ~Full(page[p])
    <3>1. r = t /\ \A y \in Offsets : B[y] = Avail(y)
      BY <2>1
    <3> QED BY <1>7, <1>8, <3>1 DEF SameWords
  <2>2. CASE Full(page[p])
    <3>1. r = Insert(t, p)
      BY <2>2
    <3>2. t.page[p].offset = x /\ p \notin Avail(x)
      BY <1>5, <1>7, <1>10, <2>2
    <3>3. Inserted(r, t, x, p)
      BY <1>7, <3>1, <3>2, InsertChanges
    <3> HIDE DEF r
    <3>4. Listed(Avail(x) \cup {p}, r, x)
      BY <1>7, <1>8, <3>2, <3>3, InsertList
    <3>5. ASSUME NEW y \in Offsets, y # x PROVE Listed(Avail(y), r, y)
      BY <1>7, <1>8, <3>2, <3>3, <3>5, InsertOthers
    <3>6. B[x] = Avail(x) \cup {p} /\ \A y \in Offsets : y # x => B[y] = Avail(y)
      BY <2>2
    <3> HIDE DEF B
    <3>7. \A y \in Offsets : Listed(B[y], r, y)
      BY <3>4, <3>5, <3>6
    <3>8. r \in ListState /\ \A c \in Chunks : SameWords(r.page[c], t.page[c])
      BY <3>3 DEF Inserted
    <3> QED BY <1>7, <3>7, <3>8
  <2> QED BY <2>1, <2>2
<1> HIDE DEF r
<1>12. \A y \in Offsets : \A c \in Chunks : c # p => (c \in B[y] <=> c \in Avail(y))
  OBVIOUS
<1>13. k.live < Capacity(x) /\ k.live > 0
  BY <1>1, <1>3, <1>5, <1>9
<1>14. \A y \in Offsets : p \in B[y] <=> k.offset = y /\ k.live < Capacity(k.offset)
  BY <1>5, <1>10, <1>13
<1> HIDE DEF B
<1>15. In(p)' = In(p) \ {o} /\ \A c \in Chunks : c # p => In(c)' = In(c)
  BY <1>1, <1>4 DEF In
<1>16. objects' \subseteq Object /\ IsFiniteSet(objects')
  BY <1>2, <1>4, FS_RemoveElement
<1>17. Changed(p, k, In(p) \ {o}, m, r, B)
  <2>1. use' \in [Chunks -> {"free", "direct", "page"}] /\ use'[p] = "page"
        /\ \A c \in Chunks : c # p => use'[c] = use[c] /\ SameWords(r.page[c], page[c])
    BY <1>1, <1>2, <1>4, <1>11
  <2>2. \A q \in In(p) \ {o} : Pooled(q.size)
    BY <1>1
  <2> QED BY <1>4, <1>5, <1>6, <1>11, <1>12, <1>13, <1>14, <1>15, <1>16, <2>1, <2>2 DEF Changed
<1> QED BY <1>4, <1>5, <1>11, <1>17, PageChanged

-----------------------------------------------------------------------------
(* The theorems.                                                             *)

(* A fresh heap has no pages and no objects.                                 *)
LEMMA InitHolds == Init => StorageInv
<1> SUFFICES ASSUME Init PROVE StorageInv
  OBVIOUS
<1>1. Unused \in Page
  <2>1. PICK y \in Offsets : Unused = NewPage(y)
    BY StorageAssumption DEF Unused
  <2>2. 1 \in Cells
    <3>1. Capacity(y) \in Nat /\ Capacity(y) >= 1 /\ 1..Capacity(y) \subseteq Cells
      BY Capacities
    <3>2. 1 \in 1..Capacity(y)
      BY <3>1
    <3> QED BY <3>1, <3>2
  <2> QED BY <2>1, <2>2 DEF NewPage, Page
<1>2. TypeOK
  BY <1>1 DEF Init, TypeOK
<1>3. IsFiniteSet(objects) /\ ObjectsExact
  BY FS_EmptySet DEF Init, ObjectsExact
<1>4. Pages = {}
  BY DEF Pages, Init
<1>5. ASSUME NEW x \in Offsets PROVE Listed(Avail(x), Lists, x)
  <2>1. Avail(x) = {} /\ Lists.available[x] = Null
    BY <1>4 DEF Avail, Lists, Init
  <2>2. Chain({}, Null, Nexts(Lists.page), Null)
    BY DEF Chain
  <2> QED BY <2>1, <2>2 DEF Listed
<1> QED BY <1>2, <1>3, <1>4, <1>5 DEF StorageInv

(* Every step keeps the invariant, and hands out a block that overlaps none  *)
(* in use, gives one back, or leaves the blocks alone.                       *)
LEMMA StepHolds ==
  ASSUME StorageInv, [Next]_vars
  PROVE  /\ StorageInv'
         /\ \/ \E o : Handed(o)
            \/ \E o \in objects : objects' = objects \ {o}
            \/ objects' = objects
<1>1. ASSUME NEW size \in Requests, AllocDirect(size) \/ AllocExisting(size) \/ AllocNewPage(size)
      PROVE  StorageInv' /\ \E o : Handed(o)
  BY <1>1, AllocDirectKeeps, AllocExistingKeeps, AllocNewPageKeeps
<1>2. ASSUME NEW o \in objects, FreeDirect(o) \/ FreeLast(o) \/ FreeCell(o)
      PROVE  StorageInv' /\ objects' = objects \ {o}
  BY <1>2, FreeDirectKeeps, FreeLastKeeps, FreeCellKeeps
<1>3. CASE UNCHANGED vars
  <2>1. Pages' = Pages /\ Lists' = Lists /\ objects' = objects /\ page' = page /\ link' = link
    BY <1>3 DEF vars, Pages, Lists
  <2>2. TypeOK' /\ ObjectsExact'
    BY <1>3 DEF vars, StorageInv, TypeOK, ObjectsExact
  <2>3. \A x \in Offsets : Avail(x)' = Avail(x)
    BY <2>1 DEF Avail, NotFull
  <2>4. \A p \in Chunks : In(p)' = In(p)
    BY <2>1 DEF In
  <2>5. \A x \in Offsets : Listed(Avail(x)', Lists', x)
    BY <2>1, <2>3 DEF StorageInv
  <2>6. \A p \in Pages' : page'[p].live > 0 /\ HeaderExact(page'[p], In(p)', link'[p])
    BY <2>1, <2>4 DEF StorageInv, Pages
  <2> QED BY <2>1, <2>2, <2>5, <2>6 DEF StorageInv
<1> QED BY <1>1, <1>2, <1>3 DEF Next

(* trbn_storage_alloc and trbn_storage_free keep every header, list and free *)
(* chain exact, whatever the order of requests and releases.                 *)
THEOREM StorageInvariant == Spec => []StorageInv
<1>1. StorageInv /\ [Next]_vars => StorageInv'
  BY StepHolds
<1> QED BY <1>1, InitHolds, PTL DEF Spec

(* What the invariant says of the lists, counts and cells.                   *)
LEMMA InvImplies == StorageInv => PagesExact
<1> SUFFICES ASSUME StorageInv PROVE PagesExact
  OBVIOUS
<1>1. ListsExact
  <2> SUFFICES ASSUME NEW x \in Offsets PROVE Reachable(x) = Avail(x)
    BY DEF ListsExact, Avail
  <2>1. Listed(Avail(x), Lists, x) /\ Lists.page = page /\ Lists.available = available /\ Null \notin Chunks
    BY InvFacts, StorageAssumption DEF StorageInv
  <2>2. Chain(Avail(x), available[x], Nexts(page), Null) /\ Avail(x) \in SUBSET Chunks
    BY <2>1 DEF Listed
  <2>3. Avail(x) = Least(Chunks, available[x], Nexts(page), Null)
    BY <2>1, <2>2, ChainIsLeast
  <2>4. \A d \in Chunks : Nexts(page)[d] = page[d].next
    BY DEF Nexts
  <2>5. \A S \in SUBSET Chunks : (\A d \in S : Nexts(page)[d] \in S \cup {Null})
                                 <=> (\A d \in S : page[d].next \in S \cup {Null})
    BY <2>4
  <2> QED BY <2>3, <2>5 DEF Reachable, Least
<1>2. NoEmptyPage
  BY DEF StorageInv, NoEmptyPage, HeaderExact
<1>3. InsidePage
  <2> SUFFICES ASSUME NEW o \in objects, Pooled(o.size)
               PROVE  page[o.at].offset = Offset(o.size) /\ Extent(o) \subseteq HeaderSize..(PageSize - 1)
    BY DEF InsidePage
  <2>1. o \in In(o.at) /\ HeaderExact(page[o.at], In(o.at), link[o.at]) /\ page[o.at] \in Page /\ o \in Object
    BY PageOfObject, InvFacts
  <2>2. PICK x \in Offsets : x = page[o.at].offset /\ x = Offset(o.size)
    BY <2>1, HeaderFields DEF HeaderExact
  <2>3. PICK n \in Nat, b \in Nat : n = Capacity(x) /\ b = Stride(x) /\ 64 + n * b <= PageSize
    BY Capacities DEF HeaderSize
  <2>4. PICK e \in Nat : e = o.cell /\ e >= 1 /\ e <= n
    <3>1. page[o.at].cursor \in 1..n + 1 /\ o.cell \in 1..page[o.at].cursor - 1
      BY <2>1, <2>2, <2>3 DEF HeaderExact
    <3> QED BY <3>1
  <2>5. Extent(o) \subseteq 64 + (e - 1) * b .. 64 + e * b - 1
    BY <2>1, <2>2, <2>3, <2>4, ExtentOfCell DEF HeaderSize
  <2>6. PICK i \in Nat : i = e - 1
    BY <2>4
  <2>7. i * b \in Nat /\ e * b \in Nat /\ e * b <= n * b /\ n * b \in Nat
    BY <2>3, <2>4, <2>6, Products
  <2>8. PICK u \in Nat, v \in Nat, w \in Nat : u = i * b /\ v = e * b /\ w = n * b /\ v <= w
    BY <2>7
  <2>9. Extent(o) \subseteq 64 + u .. 64 + v - 1 /\ 64 + w <= PageSize /\ PageSize \in Nat
    BY <2>3, <2>5, <2>6, <2>8, StorageAssumption
  <2>10. Extent(o) \subseteq 64..(PageSize - 1)
    BY <2>8, <2>9
  <2> QED BY <2>2, <2>10 DEF HeaderSize
<1> QED BY <1>1, <1>2, <1>3 DEF PagesExact, StorageInv

(* In every state of the allocator the links of a class visit exactly its    *)
(* pages with room, no empty page is kept, the live count of a page is that  *)
(* of its objects, and every cell lies inside its page.                      *)
THEOREM PagesAreExact == Spec => []PagesExact
BY StorageInvariant, InvImplies, PTL

(* The pages implement the abstract allocator: every block they hand out is  *)
(* disjoint from all in use, and only blocks in use are given back.          *)
THEOREM AllocatorImplemented == Spec => ImplementsAllocator
<1>1. Init => Abstract!Init
  BY DEF Init, Abstract!Init
<1>2. StorageInv /\ [Next]_vars => [Abstract!Next]_objects
  <2> SUFFICES ASSUME StorageInv, [Next]_vars PROVE [Abstract!Next]_objects
    OBVIOUS
  <2>1. CASE \E o : Handed(o)
    BY <2>1 DEF Handed, Abstract!Next, Abstract!Alloc
  <2>2. CASE \E o \in objects : objects' = objects \ {o}
    BY <2>2 DEF Abstract!Next, Abstract!Free
  <2> QED BY <2>1, <2>2, StepHolds
<1> QED BY <1>1, <1>2, StorageInvariant, PTL DEF Spec, ImplementsAllocator, Abstract!Spec

-----------------------------------------------------------------------------
(* Buffers of arrays.                                                        *)

(* A set of numbers that is not empty has a least one.                       *)
LEMMA LeastNumber ==
  ASSUME NEW T \in SUBSET Nat, T # {}
  PROVE  \E x \in T : \A y \in T : x <= y
<1>1. PICK x \in T : ~ \E y \in T : <<y, x>> \in OpToRel(<, Nat)
  BY NatLessThanWellFounded, WFMin, Zenon
<1>2. \A y \in T : ~ (y < x)
  BY <1>1, Zenon DEF OpToRel
<1> QED BY <1>2

(* Induction over the numbers that have a property.                          *)
LEMMA Numbers ==
  ASSUME NEW S \in SUBSET Nat, 0 \in S, \A n \in S : n + 1 \in S
  PROVE  S = Nat
<1> SUFFICES ASSUME S # Nat PROVE FALSE
  OBVIOUS
<1> DEFINE T == Nat \ S
<1>1. T \in SUBSET Nat /\ T # {}
  OBVIOUS
<1>2. PICK x \in T : \A y \in T : x <= y
  <2> HIDE DEF T
  <2> QED BY <1>1, LeastNumber
<1>3. x - 1 \in Nat /\ x - 1 \notin T
  BY <1>2
<1> QED BY <1>3

Word == Buffers \cup {NoBuffer, Element, Undefined}
Header == [data : Buffers \cup {NoBuffer}, capacity : Nat, length : Nat]
Memories == [word : [Buffers -> Seq(Word)], cache : [head : Buffers \cup {NoBuffer}, count : Nat]]
Firsts(w) == [b \in Buffers |-> w[b][1]]

(* The cache: a chain through first words, counted, of small buffers.        *)
CacheExact(m, F) ==
  /\ F \in SUBSET Buffers
  /\ Chain(F, m.cache.head, Firsts(m.word), NoBuffer)
  /\ m.cache.count = Cardinality(F) /\ m.cache.count <= CacheLimit
  /\ \A b \in F : Len(m.word[b]) = Small

(* A buffer seen by its array: what it stored, and null behind it in a       *)
(* buffer that was never resized.                                            *)
Holds(w, r) ==
  /\ r.data \in Buffers /\ r.capacity >= Small /\ r.length <= r.capacity
  /\ Len(w[r.data]) = r.capacity
  /\ \A i \in 1..r.length : w[r.data][i] = Element
  /\ r.capacity = Small => \A i \in (r.length + 1)..Small : w[r.data][i] = NoBuffer

(* Every allocated buffer is cached, in hand or of one live array.           *)
Accounted(w, h, live, F, hand) ==
  /\ \A a \in live : h[a].data \notin F \cup hand
  /\ \A a, b \in live : h[a].data = h[b].data => a = b
  /\ F \cap hand = {}
  /\ \A b \in Buffers : w[b] # <<>> <=> b \in F \cup hand \cup {h[a].data : a \in live}

(* Memory m with headers h, between two steps of an operation: live arrays   *)
(* have their buffers, F is cached and hand is the buffer being set up.      *)
Sound(m, h, live, F, hand) ==
  /\ m \in Memories /\ h \in [Arrays -> Header] /\ live \in SUBSET Arrays /\ hand \in SUBSET Buffers
  /\ CacheExact(m, F)
  /\ \A a \in live : Holds(m.word, h[a])
  /\ Accounted(m.word, h, live, F, hand)

Injective(s) == \A i, j \in DOMAIN s : s[i] = s[j] => i = j

BuffersInv ==
  /\ heap \in Seq(Arrays) /\ Injective(heap)
  /\ \E F \in SUBSET Buffers : Sound(Memory, array, Exist, F, {})
  /\ status = "finished" => \A b \in Buffers : word[b] = <<>>

LEMMA BackingConstants ==
  /\ IsFiniteSet(Buffers) /\ NoBuffer \notin Buffers
  /\ Element \notin Buffers /\ Element # NoBuffer
  /\ Small \in Nat /\ Small > 0 /\ CacheLimit \in Nat /\ MaxLength \in Nat
BY BackingAssumption

(* The chain the flush follows is the set the cache is described by.         *)
LEMMA ChainedIs ==
  ASSUME NEW m \in Memories, NEW F \in SUBSET Buffers, CacheExact(m, F)
  PROVE  Chained(m) = F
<1>1. \A b \in F : m.word[b] # <<>> /\ Firsts(m.word)[b] = m.word[b][1]
  <2>1. Len(<<>>) = 0
    OBVIOUS
  <2> QED BY <2>1, BackingConstants DEF CacheExact, Firsts
<1>2. NoBuffer \notin F /\ m.cache.head \in F \cup {NoBuffer}
  BY DEF CacheExact, Chain
<1>3. \A b \in F : m.word[b][1] \in F \cup {NoBuffer}
  BY <1>1 DEF CacheExact, Chain
<1>4. \A S \in SUBSET F : m.cache.head \in S \cup {NoBuffer}
           /\ (\A c \in S : m.word[c][1] \in S \cup {NoBuffer}) => S = F
  BY <1>1 DEF CacheExact, Chain
<1>5. F \subseteq Chained(m)
  <2> SUFFICES ASSUME NEW b \in F, NEW S \in SUBSET Buffers, m.cache.head \in S \cup {NoBuffer},
                      \A c \in S : m.word[c] # <<>> => m.word[c][1] \in S \cup {NoBuffer}
               PROVE  b \in S
    BY DEF Chained
  <2> DEFINE T == S \cap F
  <2>1. m.cache.head \in T \cup {NoBuffer} /\ \A c \in T : m.word[c][1] \in T \cup {NoBuffer}
    BY <1>1, <1>2, <1>3
  <2>2. T = F
    BY <2>1, <1>4
  <2> QED BY <2>2
<1>6. Chained(m) \subseteq F
  BY <1>2, <1>3 DEF Chained
<1> QED BY <1>5, <1>6

(* The invariant says what the property says.                                *)
LEMMA BuffersInvExact ==
  ASSUME BuffersInv
  PROVE  BackingExact
<1>1. PICK F \in SUBSET Buffers : Sound(Memory, array, Exist, F, {})
  BY DEF BuffersInv
<1>2. Memory \in Memories /\ CacheExact(Memory, F) /\ Accounted(word, array, Exist, F, {})
      /\ \A a \in Exist : Holds(word, array[a])
  BY <1>1 DEF Sound, Memory
<1>3. Chained(Memory) = F
  BY <1>2, ChainedIs
<1>4. \A a, b \in Exist : array[a].data = array[b].data => a = b
  BY <1>2 DEF Accounted
<1>5. Owned \cap F = {} /\ Owned \cup F = Buffers \ Unallocated(Memory)
  <2>1. \A a \in Exist : array[a].data \in Buffers
    BY <1>2 DEF Holds
  <2>2. Unallocated(Memory) = {b \in Buffers : word[b] = <<>>}
    BY DEF Unallocated, Memory
  <2> QED BY <1>2, <2>1, <2>2 DEF Accounted, Owned
<1>6. cache.count = Cardinality(F) /\ cache.count <= CacheLimit /\ \A b \in F : Len(word[b]) = Small
  BY <1>2 DEF CacheExact, Memory
<1>7. \A a \in Exist : LET r == array[a] IN
       /\ Len(word[r.data]) = r.capacity
       /\ \A i \in 1..r.length : word[r.data][i] = Element
       /\ r.capacity = Small => \A i \in (r.length + 1)..Small : word[r.data][i] = NoBuffer
  BY <1>2 DEF Holds
<1>8. status = "finished" => Unallocated(Memory) = Buffers
  BY DEF BuffersInv, Unallocated, Memory
<1> QED BY <1>3, <1>4, <1>5, <1>6, <1>7, <1>8 DEF BackingExact

(* Two words are both sequences, and an empty one has no words.              *)
LEMMA WordsOf ==
  ASSUME NEW m \in Memories, NEW b \in Buffers
  PROVE  /\ m.word[b] \in Seq(Word) /\ Len(m.word[b]) \in Nat
         /\ m.word[b] = <<>> <=> Len(m.word[b]) = 0
<1>1. m.word[b] \in Seq(Word)
  BY DEF Memories
<1> QED BY <1>1, EmptySeq, LenProperties

(* A buffer the cache gives up: its first word becomes the chain's old head. *)
LEMMA ReleaseIs ==
  ASSUME NEW m \in Memories, NEW r \in Header, r.data \in Buffers, Len(m.word[r.data]) > 0,
         r.capacity = Small, m.cache.count < CacheLimit
  PROVE  LET x == m.word[r.data]
             y == [x EXCEPT ![1] = m.cache.head]
         IN  /\ backing_release(m, r) = [word |-> [m.word EXCEPT ![r.data] = y],
                                         cache |-> [head |-> r.data, count |-> m.cache.count + 1]]
             /\ y \in Seq(Word) /\ Len(y) = Len(x) /\ y[1] = m.cache.head
<1> DEFINE x == m.word[r.data]  y == [x EXCEPT ![1] = m.cache.head]
<1>1. x \in Seq(Word) /\ m.cache.head \in Word /\ 1 \in 1..Len(x)
  BY WordsOf DEF Memories, Word
<1>2. y \in Seq(Word) /\ Len(y) = Len(x) /\ y[1] = m.cache.head
  BY <1>1, ExceptSeq
<1>3. backing_release(m, r) = [word |-> [m.word EXCEPT ![r.data] = y],
                               cache |-> [head |-> r.data, count |-> m.cache.count + 1]]
  BY DEF backing_release, Memories
<1> QED BY <1>2, <1>3

FreedIs(m, r) == [word |-> [m.word EXCEPT ![r.data] = <<>>], cache |-> m.cache]

LEMMA FreeIs ==
  ASSUME NEW m \in Memories, NEW r \in Header, r.data \in Buffers,
         ~ (r.capacity = Small /\ m.cache.count < CacheLimit)
  PROVE  backing_release(m, r) = FreedIs(m, r)
BY DEF backing_release, Memories, FreedIs

(* The buffer of an array that dies goes to the cache or back to libc.       *)
LEMMA ReleaseSound ==
  ASSUME NEW m, NEW h, NEW live, NEW F, Sound(m, h, live, F, {}), NEW a \in live
  PROVE  \E G \in SUBSET Buffers : Sound(backing_release(m, h[a]), h, live \ {a}, G, {})
<1>1. m \in Memories /\ h[a] \in Header /\ Holds(m.word, h[a]) /\ a \in Arrays
  BY DEF Sound
<1> DEFINE b == h[a].data
<1>2. b \in Buffers /\ Len(m.word[b]) > 0 /\ Len(m.word[b]) = h[a].capacity /\ b \notin F /\ F \in SUBSET Buffers
  BY <1>1, BackingConstants DEF Holds, Sound, Accounted, Header, CacheExact
<1>3. \A c \in live \ {a} : h[c].data # b
  BY DEF Sound, Accounted
<1>4. CASE h[a].capacity = Small /\ m.cache.count < CacheLimit
  <2> DEFINE x == m.word[b]  y == [x EXCEPT ![1] = m.cache.head]
             w == [m.word EXCEPT ![b] = y]
             k == [head |-> b, count |-> m.cache.count + 1]
             n == [word |-> w, cache |-> k]
             G == F \cup {b}
  <2>1. backing_release(m, h[a]) = n /\ y \in Seq(Word) /\ Len(y) = Len(x) /\ y[1] = m.cache.head
    BY <1>1, <1>2, <1>4, ReleaseIs
  <2> HIDE DEF y
  <2>2. w \in [Buffers -> Seq(Word)] /\ w[b] = y /\ \A c \in Buffers \ {b} : w[c] = m.word[c]
    BY <1>1, <1>2, <2>1 DEF Memories
  <2> HIDE DEF w
  <2>3. n \in Memories
    BY <1>1, <1>2, <2>2 DEF Memories
  <2>4. CacheExact(n, G)
    <3>1. Chain(F, m.cache.head, Firsts(m.word), NoBuffer) /\ F \in SUBSET Buffers
      BY DEF Sound, CacheExact
    <3>2. Firsts(w)[b] = m.cache.head /\ \A c \in F : Firsts(w)[c] = Firsts(m.word)[c]
      BY <1>2, <2>1, <2>2 DEF Firsts
    <3>3. b # NoBuffer
      BY <1>2, BackingConstants
    <3>4. Chain(G, b, Firsts(w), NoBuffer)
      BY <1>2, <3>1, <3>2, <3>3, ChainPush
    <3>5. Cardinality(G) = Cardinality(F) + 1 /\ Cardinality(F) = m.cache.count
      <4>1. IsFiniteSet(F)
        BY <3>1, BackingConstants, FS_Subset
      <4> QED BY <4>1, <1>2, FS_AddElement DEF Sound, CacheExact
    <3>6. \A c \in G : Len(w[c]) = Small
      BY <1>2, <1>4, <2>1, <2>2 DEF Sound, CacheExact
    <3>7. m.cache.count \in Nat
      BY <1>1 DEF Memories
    <3> QED BY <1>2, <1>4, <3>4, <3>5, <3>6, <3>7, BackingConstants DEF CacheExact
  <2>5. \A c \in live \ {a} : Holds(w, h[c])
    BY <1>3, <2>2 DEF Holds, Sound
  <2>6. Accounted(w, h, live \ {a}, G, {})
    <3>1. y # <<>>
      BY <1>2, <2>1, EmptySeq
    <3> QED BY <3>1, <1>2, <1>3, <2>2 DEF Sound, Accounted
  <2>7. Sound(n, h, live \ {a}, G, {})
    BY <2>3, <2>4, <2>5, <2>6 DEF Sound
  <2> QED BY <2>1, <2>7, <1>2
<1>5. CASE ~ (h[a].capacity = Small /\ m.cache.count < CacheLimit)
  <2> DEFINE w == [m.word EXCEPT ![b] = <<>>]
             n == [word |-> w, cache |-> m.cache]
  <2>1. backing_release(m, h[a]) = n
    BY <1>1, <1>2, <1>5, FreeIs DEF FreedIs
  <2>2. w \in [Buffers -> Seq(Word)] /\ w[b] = <<>> /\ \A c \in Buffers \ {b} : w[c] = m.word[c]
    BY <1>1, <1>2, EmptySeq DEF Memories
  <2> HIDE DEF w
  <2>3. n \in Memories
    BY <1>1, <2>2 DEF Memories
  <2>4. CacheExact(n, F)
    <3>1. \A c \in F : Firsts(w)[c] = Firsts(m.word)[c] /\ w[c] = m.word[c]
      BY <1>2, <2>2 DEF Firsts
    <3>2. Chain(F, m.cache.head, Firsts(w), NoBuffer)
      BY <3>1, ChainSame DEF Sound, CacheExact
    <3> QED BY <1>2, <3>1, <3>2 DEF Sound, CacheExact
  <2>5. \A c \in live \ {a} : Holds(w, h[c])
    BY <1>3, <2>2 DEF Holds, Sound
  <2>6. Accounted(w, h, live \ {a}, F, {})
    BY <1>2, <1>3, <2>2 DEF Sound, Accounted
  <2>7. Sound(n, h, live \ {a}, F, {})
    BY <2>3, <2>4, <2>5, <2>6 DEF Sound
  <2> QED BY <2>1, <2>7, <1>2
<1> QED BY <1>4, <1>5

(* The sweep, step by step.                                                  *)
SweepIs(g, dead, n) ==
  g = [k \in 0..n |-> IF k = 0 THEN [memory |-> Memory, kept |-> <<>>] ELSE Visit(g[k - 1], heap[k], dead)]

LEMMA SweepExists ==
  ASSUME NEW dead, NEW n \in Nat
  PROVE  \E g : SweepIs(g, dead, n)
<1> DEFINE base == [memory |-> Memory, kept |-> <<>>]
           S == {k \in Nat : \E g : SweepIs(g, dead, k)}
<1>1. 0 \in S
  <2>1. SweepIs([k \in 0..0 |-> base], dead, 0)
    BY DEF SweepIs
  <2> QED BY <2>1
<1>2. ASSUME NEW k \in S PROVE k + 1 \in S
  <2>1. PICK g : SweepIs(g, dead, k)
    OBVIOUS
  <2> DEFINE f == [i \in 0..(k + 1) |-> IF i = k + 1 THEN Visit(g[k], heap[k + 1], dead) ELSE g[i]]
  <2>2. \A i \in 0..k : g[i] = IF i = 0 THEN base ELSE Visit(g[i - 1], heap[i], dead)
    BY <2>1 DEF SweepIs
  <2> HIDE DEF base
  <2>3. \A i \in 0..(k + 1) : f[i] = IF i = 0 THEN base ELSE Visit(f[i - 1], heap[i], dead)
    BY <2>2
  <2>4. SweepIs(f, dead, k + 1)
    BY <2>3 DEF SweepIs, base
  <2> QED BY <2>4
<1>3. S \in SUBSET Nat
  OBVIOUS
<1>4. S = Nat
  <2> HIDE DEF S
  <2> QED BY <1>1, <1>2, <1>3, Numbers
<1> QED BY <1>4

LEMMA SweepDef ==
  ASSUME NEW dead, Len(heap) \in Nat
  PROVE  \E g : SweepIs(g, dead, Len(heap)) /\ Sweep(dead) = g[Len(heap)]
<1> DEFINE g == CHOOSE g : g = [n \in 0..Len(heap) |->
                   IF n = 0 THEN [memory |-> Memory, kept |-> <<>>] ELSE Visit(g[n - 1], heap[n], dead)]
<1>1. Sweep(dead) = g[Len(heap)]
  BY DEF Sweep
<1>2. \E f : f = [n \in 0..Len(heap) |->
                   IF n = 0 THEN [memory |-> Memory, kept |-> <<>>] ELSE Visit(f[n - 1], heap[n], dead)]
  BY SweepExists DEF SweepIs
<1>3. SweepIs(g, dead, Len(heap))
  BY <1>2 DEF SweepIs
<1> QED BY <1>1, <1>3

Members(s) == {s[i] : i \in DOMAIN s}

LEMMA AppendMembers ==
  ASSUME NEW S, NEW s \in Seq(S), NEW a \in S, a \notin Members(s), Injective(s)
  PROVE  /\ Append(s, a) \in Seq(S) /\ Injective(Append(s, a))
         /\ Members(Append(s, a)) = Members(s) \cup {a}
<1> DEFINE t == Append(s, a)
<1>1. t \in Seq(S) /\ Len(t) = Len(s) + 1 /\ t[Len(s) + 1] = a /\ \A i \in 1..Len(s) : t[i] = s[i]
  BY AppendProperties
<1>2. Len(s) \in Nat /\ DOMAIN s = 1..Len(s) /\ DOMAIN t = 1..(Len(s) + 1)
  BY <1>1, LenProperties
<1> HIDE DEF t
<1>3. \A i \in DOMAIN t : IF i = Len(s) + 1 THEN t[i] = a ELSE i \in DOMAIN s /\ t[i] = s[i]
  BY <1>1, <1>2
<1>4. Members(t) = Members(s) \cup {a}
  <2>1. \A i \in DOMAIN s : i \in DOMAIN t /\ t[i] = s[i]
    BY <1>1, <1>2
  <2>2. Len(s) + 1 \in DOMAIN t /\ t[Len(s) + 1] = a
    BY <1>1, <1>2
  <2> QED BY <1>3, <2>1, <2>2 DEF Members
<1>5. Injective(t)
  <2> SUFFICES ASSUME NEW i \in DOMAIN t, NEW j \in DOMAIN t, t[i] = t[j] PROVE i = j
    BY DEF Injective
  <2>1. CASE i = Len(s) + 1 /\ j = Len(s) + 1
    BY <2>1
  <2>2. CASE i = Len(s) + 1 /\ j # Len(s) + 1
    BY <2>2, <1>3 DEF Members
  <2>3. CASE i # Len(s) + 1 /\ j = Len(s) + 1
    BY <2>3, <1>3 DEF Members
  <2>4. CASE i # Len(s) + 1 /\ j # Len(s) + 1
    BY <2>4, <1>3 DEF Injective
  <2> QED BY <2>1, <2>2, <2>3, <2>4
<1> QED BY <1>1, <1>4, <1>5 DEF t

(* The sweep after n objects: the dead among them have given up their        *)
(* buffers, the others are kept in order.                                    *)
Seen(n) == {heap[i] : i \in 1..n}
Partway(s, dead, n) ==
  /\ s \in [memory : Memories, kept : Seq(Arrays)]
  /\ \E F \in SUBSET Buffers : Sound(s.memory, array, Exist \ (dead \cap Seen(n)), F, {})
  /\ Injective(s.kept) /\ Members(s.kept) = Seen(n) \ dead

LEMMA SoundMemory ==
  ASSUME NEW m, NEW h, NEW live, NEW F, NEW hand, Sound(m, h, live, F, hand)
  PROVE  m \in Memories
BY DEF Sound

LEMMA VisitPartway ==
  ASSUME BuffersInv, NEW dead \in SUBSET Exist, NEW n \in Nat, n + 1 <= Len(heap), NEW s, Partway(s, dead, n)
  PROVE  Partway(Visit(s, heap[n + 1], dead), dead, n + 1)
<1>1. heap \in Seq(Arrays) /\ Injective(heap) /\ Len(heap) \in Nat /\ DOMAIN heap = 1..Len(heap)
  BY LenProperties DEF BuffersInv
<1>2. PICK a : a = heap[n + 1]
  OBVIOUS
<1>3. a \in Exist /\ a \in Arrays /\ a \notin Seen(n) /\ Seen(n + 1) = Seen(n) \cup {a}
  <2>1. n + 1 \in DOMAIN heap
    BY <1>1
  <2>2. a \in Exist /\ a \in Arrays
    BY <1>1, <1>2, <2>1 DEF Exist
  <2>3. \A i \in 1..n : heap[i] # a
    BY <1>1, <1>2, <2>1 DEF Injective
  <2>4. 1..(n + 1) = (1..n) \cup {n + 1}
    OBVIOUS
  <2>5. Seen(n + 1) = Seen(n) \cup {a}
    BY <1>2, <2>4 DEF Seen
  <2> QED BY <2>2, <2>3, <2>5 DEF Seen
<1>4. s \in [memory : Memories, kept : Seq(Arrays)]
      /\ Injective(s.kept) /\ Members(s.kept) = Seen(n) \ dead
  BY DEF Partway
<1>5. CASE a \in dead
  <2> DEFINE v == [memory |-> backing_release(s.memory, array[a]), kept |-> s.kept]
             live == Exist \ (dead \cap Seen(n))
  <2>1. Visit(s, a, dead) = v
    BY <1>4, <1>5 DEF Visit
  <2>2. a \in live /\ live \ {a} = Exist \ (dead \cap Seen(n + 1))
    BY <1>3, <1>5
  <2>3. \E G \in SUBSET Buffers : Sound(v.memory, array, live \ {a}, G, {})
    <3>1. PICK F \in SUBSET Buffers : Sound(s.memory, array, live, F, {})
      BY DEF Partway
    <3> HIDE DEF live
    <3> QED BY <3>1, <2>2, ReleaseSound
  <2>4. v.memory \in Memories
    BY <2>3, SoundMemory
  <2>5. Members(s.kept) = Seen(n + 1) \ dead
    BY <1>3, <1>4, <1>5
  <2>6. Partway(v, dead, n + 1)
    BY <1>4, <2>2, <2>3, <2>4, <2>5 DEF Partway
  <2> QED BY <1>2, <2>1, <2>6
<1>6. CASE a \notin dead
  <2> DEFINE v == [memory |-> s.memory, kept |-> Append(s.kept, a)]
  <2>1. Visit(s, a, dead) = v
    BY <1>4, <1>6 DEF Visit
  <2>2. Append(s.kept, a) \in Seq(Arrays) /\ Injective(Append(s.kept, a))
        /\ Members(Append(s.kept, a)) = Seen(n + 1) \ dead
    <3>1. s.kept \in Seq(Arrays) /\ a \notin Members(s.kept)
      BY <1>3, <1>4
    <3>2. Append(s.kept, a) \in Seq(Arrays) /\ Injective(Append(s.kept, a))
          /\ Members(Append(s.kept, a)) = Members(s.kept) \cup {a}
      BY <1>3, <1>4, <3>1, AppendMembers
    <3> QED BY <3>2, <1>3, <1>4, <1>6
  <2>3. dead \cap Seen(n + 1) = dead \cap Seen(n)
    BY <1>3, <1>6
  <2>4. Partway(v, dead, n + 1)
    BY <1>4, <2>2, <2>3 DEF Partway
  <2> QED BY <1>2, <2>1, <2>4
<1> QED BY <1>5, <1>6

(* After the sweep only the survivors have buffers.                          *)
LEMMA SweepSound ==
  ASSUME BuffersInv, NEW dead \in SUBSET Exist
  PROVE  /\ \E F \in SUBSET Buffers : Sound(Swept(dead), array, Exist \ dead, F, {})
         /\ Kept(dead) \in Seq(Arrays) /\ Injective(Kept(dead)) /\ Members(Kept(dead)) = Exist \ dead
<1>1. heap \in Seq(Arrays) /\ Len(heap) \in Nat /\ DOMAIN heap = 1..Len(heap)
  BY LenProperties DEF BuffersInv
<1>2. PICK g : SweepIs(g, dead, Len(heap)) /\ Sweep(dead) = g[Len(heap)]
  BY <1>1, SweepDef
<1>3. \A k \in 0..Len(heap) : g[k] = IF k = 0 THEN [memory |-> Memory, kept |-> <<>>]
                                     ELSE Visit(g[k - 1], heap[k], dead)
  BY <1>2 DEF SweepIs
<1> DEFINE S == {k \in Nat : k <= Len(heap) => Partway(g[k], dead, k)}
<1>4. 0 \in S
  <2>1. g[0] = [memory |-> Memory, kept |-> <<>>]
    BY <1>1, <1>3
  <2>2. Seen(0) = {}
    BY DEF Seen
  <2>3. \E F \in SUBSET Buffers : Sound(Memory, array, Exist, F, {})
    BY DEF BuffersInv
  <2>4. Memory \in Memories
    BY <2>3, SoundMemory
  <2>5. <<>> \in Seq(Arrays) /\ Injective(<<>>) /\ Members(<<>>) = {}
    BY EmptySeq DEF Injective, Members
  <2>6. Exist \ (dead \cap Seen(0)) = Exist
    BY <2>2
  <2>7. Partway(g[0], dead, 0)
    <3>1. g[0] \in [memory : Memories, kept : Seq(Arrays)] /\ g[0].memory = Memory /\ g[0].kept = <<>>
      BY <2>1, <2>4, <2>5
    <3>2. Members(<<>>) = Seen(0) \ dead
      BY <2>2, <2>5
    <3> HIDE DEF Memories, Sound, Memory, Seen, Members, Injective
    <3>3. \E F \in SUBSET Buffers : Sound(g[0].memory, array, Exist \ (dead \cap Seen(0)), F, {})
      BY <2>3, <2>6, <3>1
    <3> QED BY <2>5, <3>1, <3>2, <3>3, Zenon DEF Partway
  <2> QED BY <2>7
<1>5. ASSUME NEW k \in S PROVE k + 1 \in S
  <2> SUFFICES ASSUME k + 1 <= Len(heap) PROVE Partway(g[k + 1], dead, k + 1)
    OBVIOUS
  <2>1. Partway(g[k], dead, k)
    BY <1>1
  <2>2. g[k + 1] = Visit(g[k], heap[k + 1], dead)
    <3>1. k + 1 \in 0..Len(heap) /\ k + 1 # 0 /\ (k + 1) - 1 = k
      BY <1>1
    <3> QED BY <3>1, <1>3
  <2> QED BY <2>1, <2>2, VisitPartway
<1>6. S = Nat
  <2>1. S \in SUBSET Nat
    OBVIOUS
  <2> HIDE DEF S
  <2> QED BY <1>4, <1>5, <2>1, Numbers
<1>7. Partway(Sweep(dead), dead, Len(heap))
  BY <1>1, <1>2, <1>6
<1>8. Seen(Len(heap)) = Exist
  BY <1>1 DEF Seen, Exist
<1> QED BY <1>7, <1>8 DEF Partway, Swept, Kept

(* A buffer comes to hand, from libc or in place of the one in hand.         *)
LEMMA InHand ==
  ASSUME NEW m, NEW h, NEW live, NEW F, NEW hand, Sound(m, h, live, F, hand),
         NEW c \in Buffers, c \notin F, \A a \in live : h[a].data # c,
         NEW w \in [Buffers -> Seq(Word)], w[c] # <<>>,
         \A x \in Buffers \ (hand \cup {c}) : w[x] = m.word[x], \A x \in hand \ {c} : w[x] = <<>>
  PROVE  Sound([word |-> w, cache |-> m.cache], h, live, F, {c})
<1> DEFINE n == [word |-> w, cache |-> m.cache]
<1>1. n \in Memories
  BY DEF Sound, Memories
<1>2. F \in SUBSET Buffers /\ F \cap hand = {}
  BY DEF Sound, CacheExact, Accounted
<1>3. \A x \in F : w[x] = m.word[x]
  BY <1>2
<1>4. CacheExact(n, F)
  <2>1. \A x \in F : Firsts(w)[x] = Firsts(m.word)[x]
    BY <1>2, <1>3 DEF Firsts
  <2>2. Chain(F, m.cache.head, Firsts(w), NoBuffer)
    BY <2>1, ChainSame DEF Sound, CacheExact
  <2> QED BY <1>2, <1>3, <2>2 DEF Sound, CacheExact
<1>5. ASSUME NEW a \in live PROVE Holds(w, h[a])
  <2>1. Holds(m.word, h[a]) /\ h[a].data \notin hand
    BY DEF Sound, Accounted
  <2>2. w[h[a].data] = m.word[h[a].data]
    BY <2>1 DEF Holds
  <2> QED BY <2>1, <2>2 DEF Holds
<1>6. Accounted(w, h, live, F, {c})
  <2>1. \A x \in Buffers : w[x] # <<>> <=> x \in F \cup {c} \cup {h[a].data : a \in live}
    BY <1>2 DEF Sound, Accounted
  <2> QED BY <2>1 DEF Sound, Accounted
<1> QED BY <1>1, <1>4, <1>5, <1>6 DEF Sound

(* The buffer in hand becomes the buffer of array a.                         *)
LEMMA Adopted ==
  ASSUME NEW m, NEW h, NEW live, NEW F, NEW c, Sound(m, h, live, F, {c}),
         NEW k \in [Arrays -> Header], NEW a \in Arrays \ live, \A x \in live : k[x] = h[x],
         k[a].data = c, Holds(m.word, k[a])
  PROVE  Sound(m, k, live \cup {a}, F, {})
<1>1. \A x \in live \cup {a} : Holds(m.word, k[x])
  BY DEF Sound
<1>2. Accounted(m.word, k, live \cup {a}, F, {})
  <2>1. {k[x].data : x \in live \cup {a}} = {h[x].data : x \in live} \cup {c}
    OBVIOUS
  <2> QED BY <2>1 DEF Sound, Accounted
<1> QED BY <1>1, <1>2 DEF Sound

(* An array that is about to be moved: its buffer is in hand.                *)
LEMMA LetGo ==
  ASSUME NEW m, NEW h, NEW live, NEW F, Sound(m, h, live, F, {}), NEW a \in live
  PROVE  Sound(m, h, live \ {a}, F, {h[a].data}) /\ h[a].data \in Buffers /\ h[a].data \notin F
<1>1. h[a].data \in Buffers
  BY DEF Sound, Holds
<1>2. {h[x].data : x \in live} = {h[x].data : x \in live \ {a}} \cup {h[a].data}
  OBVIOUS
<1>3. Accounted(m.word, h, live \ {a}, F, {h[a].data})
  BY <1>2 DEF Sound, Accounted
<1> QED BY <1>1, <1>3 DEF Sound, Accounted

(* The headers of dead arrays do not matter.                                 *)
LEMMA OtherHeaders ==
  ASSUME NEW m, NEW h, NEW live, NEW F, NEW hand, Sound(m, h, live, F, hand),
         NEW k \in [Arrays -> Header], \A x \in live : k[x] = h[x]
  PROVE  Sound(m, k, live, F, hand)
<1>1. {h[x].data : x \in live} = {k[x].data : x \in live}
  OBVIOUS
<1>2. Accounted(m.word, k, live, F, hand)
  BY <1>1 DEF Sound, Accounted
<1> QED BY <1>2 DEF Sound

(* What a store of a whole buffer does to a memory.                          *)
LEMMA StoreIs ==
  ASSUME NEW m \in Memories, NEW b \in Buffers, NEW z
  PROVE  [m EXCEPT !.word[b] = z] = [word |-> [m.word EXCEPT ![b] = z], cache |-> m.cache]
<1>1. PICK w, k : m = [word |-> w, cache |-> k]
  BY DEF Memories
<1> QED BY <1>1

LEMMA ZerosAre ==
  ASSUME NEW n \in Nat
  PROVE  Zeros(n) \in Seq(Word) /\ Len(Zeros(n)) = n /\ \A i \in 1..n : Zeros(n)[i] = NoBuffer
BY DEF Zeros, Word

Hands(o, h, live, n) ==
  /\ o.data \in Buffers /\ o.memory.word[o.data] = Zeros(n)
  /\ \E F \in SUBSET Buffers : Sound(o.memory, h, live, F, {o.data})

(* libc hands out zeroed words that nobody else has.                         *)
LEMMA CallocHands ==
  ASSUME NEW m, NEW h, NEW live, NEW F \in SUBSET Buffers, Sound(m, h, live, F, {}),
         NEW n \in Nat, n > 0, NEW o \in calloc(m, n)
  PROVE  Hands(o, h, live, n)
<1>1. PICK b \in Unallocated(m) : o = [memory |-> [m EXCEPT !.word[b] = Zeros(n)], data |-> b]
  BY DEF calloc
<1> DEFINE w == [m.word EXCEPT ![b] = Zeros(n)]
<1>2. m \in Memories /\ b \in Buffers /\ m.word[b] = <<>>
  BY <1>1 DEF Unallocated, Sound
<1>3. [m EXCEPT !.word[b] = Zeros(n)] = [word |-> w, cache |-> m.cache]
  BY <1>2, StoreIs
<1>4. w \in [Buffers -> Seq(Word)] /\ w[b] = Zeros(n) /\ \A x \in Buffers \ {b} : w[x] = m.word[x]
  BY <1>2, ZerosAre DEF Memories
<1>5. w[b] # <<>>
  <2>1. Len(<<>>) = 0
    OBVIOUS
  <2> QED BY <1>4, <2>1, ZerosAre
<1>6. b \notin F /\ \A a \in live : h[a].data # b
  BY <1>2 DEF Sound, Accounted
<1> HIDE DEF w
<1>7. Sound([word |-> w, cache |-> m.cache], h, live, F, {b})
  BY <1>2, <1>4, <1>5, <1>6, InHand
<1> QED BY <1>1, <1>2, <1>3, <1>4, <1>7 DEF Hands

(* So does the cache, from its head.                                         *)
LEMMA BackingNewHands ==
  ASSUME NEW m, NEW h, NEW live, NEW F \in SUBSET Buffers, Sound(m, h, live, F, {}),
         NEW o \in backing_new(m)
  PROVE  Hands(o, h, live, Small)
<1>1. CASE m.cache.head = NoBuffer
  BY <1>1, CallocHands, BackingConstants DEF backing_new
<1>2. CASE m.cache.head # NoBuffer
  <2> DEFINE b == m.cache.head
             k == [head |-> m.word[b][1], count |-> m.cache.count - 1]
             p == [word |-> m.word, cache |-> k]
             w == [m.word EXCEPT ![b] = Zeros(Small)]
             G == F \ {b}
  <2>1. m \in Memories /\ CacheExact(m, F) /\ Chain(F, b, Firsts(m.word), NoBuffer)
    BY DEF Sound, CacheExact
  <2>2. b \in F /\ b \in Buffers
    BY <1>2, <2>1 DEF Chain
  <2>3. Popped(m) = {[memory |-> p, data |-> b]}
    BY <2>1 DEF Popped, Memories
  <2>4. o = [memory |-> [word |-> w, cache |-> k], data |-> b]
    <3>1. PICK z : z = Zeros(Small)
      OBVIOUS
    <3>2. backing_new(m) = {[q EXCEPT !.memory.word[q.data] = z] : q \in {[memory |-> p, data |-> b]}}
      BY <1>2, <2>3, <3>1 DEF backing_new
    <3> DEFINE r == [memory |-> p, data |-> b]
    <3>3. o = [[memory |-> p, data |-> b] EXCEPT !.memory.word[b] = z]
      <4>1. PICK q \in {r} : o = [q EXCEPT !.memory.word[q.data] = z]
        <5> HIDE DEF r
        <5> QED BY <3>2, Zenon DEF r
      <4>2. q = r /\ r.data = b
        OBVIOUS
      <4> HIDE DEF r
      <4>3. o = [r EXCEPT !.memory.word[b] = z]
        BY <4>1, <4>2
      <4> QED BY <4>3, Zenon DEF r
    <3>4. [[memory |-> p, data |-> b] EXCEPT !.memory.word[b] = z]
          = [memory |-> [word |-> [m.word EXCEPT ![b] = z], cache |-> k], data |-> b]
      OBVIOUS
    <3> QED BY <3>1, <3>3, <3>4
  <2>5. Chain(G, m.word[b][1], Firsts(m.word), NoBuffer)
    <3>1. Firsts(m.word)[b] = m.word[b][1]
      BY <2>2 DEF Firsts
    <3> QED BY <1>2, <2>1, <3>1, ChainPop
  <2>6. m.word[b][1] \in Buffers \cup {NoBuffer}
    BY <2>5 DEF Chain
  <2>7. Cardinality(G) = Cardinality(F) - 1 /\ Cardinality(G) \in Nat
    <3>1. IsFiniteSet(F)
      BY BackingConstants, FS_Subset
    <3>2. IsFiniteSet(G) /\ Cardinality(G) = Cardinality(F) - 1
      BY <2>2, <3>1, FS_RemoveElement
    <3> QED BY <3>2, FS_CardinalityType
  <2>8. p \in Memories
    BY <2>1, <2>6, <2>7 DEF Memories, CacheExact
  <2>9. CacheExact(p, G)
    <3>1. m.cache.count = Cardinality(F) /\ m.cache.count <= CacheLimit /\ m.cache.count \in Nat
      BY <2>1 DEF CacheExact, Memories
    <3> QED BY <2>1, <2>5, <2>7, <3>1, BackingConstants DEF CacheExact
  <2>10. Accounted(p.word, h, live, G, {b})
    BY <2>2 DEF Sound, Accounted
  <2>11. Sound(p, h, live, G, {b})
    BY <2>2, <2>8, <2>9, <2>10 DEF Sound
  <2>12. w \in [Buffers -> Seq(Word)] /\ w[b] = Zeros(Small) /\ \A x \in Buffers \ {b} : w[x] = m.word[x]
    BY <2>1, <2>2, ZerosAre, BackingConstants DEF Memories
  <2>13. w[b] # <<>>
    <3>1. Len(<<>>) = 0
      OBVIOUS
    <3> QED BY <2>12, <3>1, ZerosAre, BackingConstants
  <2>14. b \notin G /\ \A a \in live : h[a].data # b
    BY <2>2 DEF Sound, Accounted
  <2> HIDE DEF w
  <2>15. Sound([word |-> w, cache |-> p.cache], h, live, G, {b})
    <3> HIDE DEF p, G, b
    <3>1. \A x \in Buffers \ ({b} \cup {b}) : w[x] = p.word[x]
      BY <2>12 DEF p
    <3>2. \A x \in {b} \ {b} : w[x] = <<>>
      OBVIOUS
    <3> QED BY <2>2, <2>11, <2>12, <2>13, <2>14, <3>1, <3>2, InHand
  <2>16. G \in SUBSET Buffers
    OBVIOUS
  <2> HIDE DEF G
  <2>17. Sound(o.memory, h, live, G, {b})
    BY <2>4, <2>15
  <2> QED BY <2>2, <2>4, <2>12, <2>16, <2>17 DEF Hands
<1> QED BY <1>1, <1>2

(* What a constructor writes into the zeroed buffer.                         *)
LEMMA FilledIs ==
  ASSUME NEW n \in Nat, NEW s \in Seq({Element}), Len(s) <= n
  PROVE  LET t == s \o SubSeq(Zeros(n), Len(s) + 1, Len(Zeros(n)))
         IN  /\ t \in Seq(Word) /\ Len(t) = n
             /\ \A i \in 1..Len(s) : t[i] = Element
             /\ \A i \in (Len(s) + 1)..n : t[i] = NoBuffer
<1>1. PICK z : z = Zeros(n) /\ z \in Seq(Word) /\ Len(z) = n /\ \A i \in 1..n : z[i] = NoBuffer
  BY ZerosAre
<1>2. PICK k \in Nat : k = Len(s) /\ k <= n
  BY LenProperties
<1>3. s \in Seq(Word) /\ \A i \in 1..k : s[i] = Element
  <2>1. s \in [1..k -> {Element}]
    BY <1>2, LenProperties
  <2>2. {Element} \subseteq Word
    BY DEF Word
  <2> QED BY <1>2, <2>1, <2>2
<1> DEFINE u == SubSeq(z, k + 1, n)
<1>4. u \in Seq(Word) /\ Len(u) = n - k /\ \A i \in 1..(n - k) : u[i] = NoBuffer
  <2>1. \A i \in (k + 1)..n : z[i] \in Word
    BY <1>1, <1>2 DEF Word
  <2>2. u \in Seq(Word) /\ Len(u) = IF k + 1 <= n THEN n - (k + 1) + 1 ELSE 0
    BY <1>2, <2>1, SubSeqProperties
  <2>3. \A i \in 1..(n - (k + 1) + 1) : u[i] = z[(k + 1) + i - 1]
    BY <1>2, <2>1, SubSeqProperties
  <2>4. ASSUME NEW i \in 1..(n - k) PROVE u[i] = NoBuffer
    <3>1. i \in 1..(n - (k + 1) + 1) /\ (k + 1) + i - 1 \in 1..n
      BY <1>2
    <3> QED BY <1>1, <2>3, <3>1
  <2>5. Len(u) = n - k
    BY <1>2, <2>2
  <2> QED BY <2>2, <2>4, <2>5
<1> HIDE DEF u
<1> DEFINE t == s \o u
<1>5. t \in Seq(Word) /\ Len(t) = k + (n - k) /\ \A i \in 1..(k + (n - k)) : t[i] = IF i <= k THEN s[i] ELSE u[i - k]
  BY <1>2, <1>3, <1>4, ConcatProperties
<1>6. Len(t) = n
  BY <1>2, <1>5
<1>7. \A i \in 1..k : t[i] = Element
  BY <1>2, <1>3, <1>5
<1>8. ASSUME NEW i \in (k + 1)..n PROVE t[i] = NoBuffer
  <2>1. i \in 1..(k + (n - k)) /\ ~ (i <= k) /\ i - k \in 1..(n - k)
    BY <1>2
  <2> QED BY <1>4, <1>5, <2>1
<1> QED BY <1>1, <1>2, <1>5, <1>6, <1>7, <1>8 DEF u

LEMMA ConsMembers ==
  ASSUME NEW S, NEW s \in Seq(S), NEW a \in S, a \notin Members(s), Injective(s)
  PROVE  /\ <<a>> \o s \in Seq(S) /\ Injective(<<a>> \o s)
         /\ Members(<<a>> \o s) = Members(s) \cup {a}
<1> DEFINE t == <<a>> \o s
<1>1. PICK n \in Nat : n = Len(s) /\ DOMAIN s = 1..n
  BY LenProperties
<1>2. <<a>> \in Seq(S) /\ Len(<<a>>) = 1 /\ <<a>>[1] = a
  OBVIOUS
<1>3. t \in Seq(S) /\ Len(t) = 1 + n /\ \A i \in 1..(1 + n) : t[i] = IF i <= 1 THEN <<a>>[i] ELSE s[i - 1]
  BY <1>1, <1>2, ConcatProperties
<1>4. DOMAIN t = 1..(1 + n)
  BY <1>3, LenProperties
<1> HIDE DEF t
<1>5. \A i \in DOMAIN t : IF i = 1 THEN t[i] = a ELSE i - 1 \in DOMAIN s /\ t[i] = s[i - 1]
  BY <1>1, <1>2, <1>3, <1>4
<1>6. Members(t) = Members(s) \cup {a}
  <2>1. \A i \in DOMAIN s : i + 1 \in DOMAIN t /\ t[i + 1] = s[i]
    BY <1>1, <1>3, <1>4
  <2>2. 1 \in DOMAIN t /\ t[1] = a
    BY <1>4, <1>5
  <2> QED BY <1>5, <2>1, <2>2 DEF Members
<1>7. Injective(t)
  <2> SUFFICES ASSUME NEW i \in DOMAIN t, NEW j \in DOMAIN t, t[i] = t[j] PROVE i = j
    BY DEF Injective
  <2>1. CASE i = 1 /\ j = 1
    BY <2>1
  <2>2. CASE i = 1 /\ j # 1
    BY <2>2, <1>5 DEF Members
  <2>3. CASE i # 1 /\ j = 1
    BY <2>3, <1>5 DEF Members
  <2>4. CASE i # 1 /\ j # 1
    <3>1. i - 1 = j - 1
      BY <2>4, <1>5 DEF Injective
    <3> QED BY <3>1, <1>4
  <2> QED BY <2>1, <2>2, <2>3, <2>4
<1> QED BY <1>3, <1>6, <1>7 DEF t

LEMMA InvFactsBuffers ==
  ASSUME BuffersInv
  PROVE  /\ heap \in Seq(Arrays) /\ Injective(heap) /\ Exist = Members(heap) /\ Exist \in SUBSET Arrays
         /\ array \in [Arrays -> Header] /\ Memory \in Memories
         /\ word \in [Buffers -> Seq(Word)] /\ \A a \in Exist : Holds(word, array[a])
<1>1. heap \in Seq(Arrays) /\ Injective(heap) /\ DOMAIN heap = 1..Len(heap)
  BY LenProperties DEF BuffersInv
<1>2. PICK F \in SUBSET Buffers : Sound(Memory, array, Exist, F, {})
  BY DEF BuffersInv
<1>3. array \in [Arrays -> Header] /\ Memory \in Memories /\ \A a \in Exist : Holds(word, array[a])
  BY <1>2 DEF Sound, Memory
<1>4. word \in [Buffers -> Seq(Word)]
  BY <1>3 DEF Memories, Memory
<1> QED BY <1>1, <1>2, <1>3, <1>4 DEF Exist, Members, Sound

LEMMA SurvivorsAre ==
  ASSUME array \in [Arrays -> Header], NEW dead
  PROVE  Survivors(dead) \in [Arrays -> Header] /\ \A x \in Exist \ dead : x \in Arrays => Survivors(dead)[x] = array[x]
<1>1. Absent \in Header
  BY DEF Absent, Header
<1> QED BY <1>1 DEF Survivors

(* The next state is sound when its memory, headers and list are.            *)
LEMMA NextInv ==
  ASSUME NEW live, NEW F \in SUBSET Buffers, NEW m, NEW k, Sound(m, k, live, F, {}),
         word' = m.word, cache' = m.cache, array' = k,
         heap' \in Seq(Arrays), Injective(heap'), Members(heap') = live, status' = "running"
  PROVE  BuffersInv'
<1>1. Memory' = m
  <2>1. m = [word |-> m.word, cache |-> m.cache]
    BY DEF Sound, Memories
  <2> QED BY <2>1 DEF Memory
<1>2. Exist' = live
  BY DEF Exist, Members
<1>3. Sound(Memory', array', Exist', F, {})
  BY <1>1, <1>2
<1>4. Injective(heap)'
  BY DEF Injective
<1>5. (\E G \in SUBSET Buffers : Sound(Memory, array, Exist, G, {}))'
  BY <1>3
<1> QED BY <1>4, <1>5 DEF BuffersInv

LEMMA ConstructInv ==
  ASSUME BuffersInv, NEW a \in Arrays, NEW dead, NEW obtained, NEW capacity \in Nat, capacity >= Small,
         NEW elements \in Seq({Element}), Len(elements) <= capacity,
         dead \in SUBSET Exist => \A o \in obtained : Hands(o, array, Exist \ dead, capacity),
         Construct(a, dead, obtained, capacity, elements)
  PROVE  BuffersInv'
<1>1. CASE obtained = {} /\ Failed
  <2>1. Memory' = Memory /\ Exist' = Exist /\ array' = array /\ heap' = heap /\ status' = "fatal"
    BY <1>1 DEF Failed, Memory, Exist
  <2>2. PICK F \in SUBSET Buffers : Sound(Memory, array, Exist, F, {})
    BY DEF BuffersInv
  <2>3. Sound(Memory', array', Exist', F, {})
    BY <2>1, <2>2
  <2> QED BY <2>1, <2>3 DEF BuffersInv
<1>2. CASE \E o \in obtained :
          /\ word' = [o.memory.word EXCEPT ![o.data] =
                        elements \o SubSeq(@, Len(elements) + 1, Len(@))]
          /\ cache' = o.memory.cache
          /\ array' = [Survivors(dead) EXCEPT ![a] =
                         [data |-> o.data, capacity |-> capacity, length |-> Len(elements)]]
          /\ heap' = <<a>> \o Kept(dead)
          /\ UNCHANGED status
  <2>1. PICK o \in obtained :
          /\ word' = [o.memory.word EXCEPT ![o.data] =
                        elements \o SubSeq(@, Len(elements) + 1, Len(@))]
          /\ cache' = o.memory.cache
          /\ array' = [Survivors(dead) EXCEPT ![a] =
                         [data |-> o.data, capacity |-> capacity, length |-> Len(elements)]]
          /\ heap' = <<a>> \o Kept(dead)
          /\ UNCHANGED status
    BY <1>2
  <2>2. dead \in SUBSET Exist /\ a \notin Exist \ dead /\ status = "running"
    BY DEF Construct
  <2>3. PICK live \in SUBSET Arrays : live = Exist \ dead
    BY InvFactsBuffers
  <2>4. Hands(o, array, live, capacity)
    BY <2>2, <2>3
  <2>20. PICK v : v = o.memory.word
    OBVIOUS
  <2>5. PICK b \in Buffers, F \in SUBSET Buffers :
          b = o.data /\ v = o.memory.word /\ v[b] = Zeros(capacity) /\ Sound(o.memory, array, live, F, {b})
    <3>1. PICK F \in SUBSET Buffers : Sound(o.memory, array, live, F, {o.data})
      BY <2>4 DEF Hands
    <3>2. o.data \in Buffers /\ o.memory.word[o.data] = Zeros(capacity)
      BY <2>4 DEF Hands
    <3> QED BY <2>20, <3>1, <3>2
  <2>6. v \in [Buffers -> Seq(Word)]
    BY <2>5 DEF Sound, Memories
  <2>7. PICK t \in Seq(Word) :
          /\ t = elements \o SubSeq(v[b], Len(elements) + 1, Len(v[b])) /\ Len(t) = capacity
          /\ \A i \in 1..Len(elements) : t[i] = Element
          /\ \A i \in (Len(elements) + 1)..capacity : t[i] = NoBuffer
    BY <2>5, FilledIs
  <2> DEFINE w == [v EXCEPT ![b] = t]
             m == [word |-> w, cache |-> cache']
             r == [data |-> b, capacity |-> capacity, length |-> Len(elements)]
             k == [Survivors(dead) EXCEPT ![a] = r]
  <2>8. word' = w /\ array' = k
    BY <2>1, <2>5, <2>7
  <2>9. w \in [Buffers -> Seq(Word)] /\ w[b] = t /\ \A x \in Buffers \ {b} : w[x] = v[x]
    BY <2>6
  <2>10. t # <<>>
    <3>1. Len(<<>>) = 0
      OBVIOUS
    <3> QED BY <2>7, <3>1, BackingConstants
  <2>11. b \notin F /\ \A x \in live : array[x].data # b
    BY <2>5 DEF Sound, Accounted
  <2> HIDE DEF w
  <2>12. Sound(m, array, live, F, {b})
    <3>1. \A x \in Buffers \ ({b} \cup {b}) : w[x] = o.memory.word[x]
      BY <2>5, <2>9
    <3>2. \A x \in {b} \ {b} : w[x] = <<>>
      OBVIOUS
    <3>3. w[b] # <<>>
      BY <2>9, <2>10
    <3>4. Sound([word |-> w, cache |-> o.memory.cache], array, live, F, {b})
      BY <2>5, <2>9, <2>11, <3>1, <3>2, <3>3, InHand
    <3> QED BY <2>1, <3>4
  <2>13. Len(elements) \in Nat
    BY LenProperties
  <2>14. r \in Header
    BY <2>13 DEF Header
  <2>15. k \in [Arrays -> Header] /\ k[a] = r /\ \A x \in live : k[x] = array[x]
    <3>1. array \in [Arrays -> Header]
      BY InvFactsBuffers
    <3>2. Survivors(dead) \in [Arrays -> Header] /\ \A x \in live : Survivors(dead)[x] = array[x]
      BY <2>3, <3>1, SurvivorsAre
    <3> HIDE DEF r
    <3> QED BY <2>2, <2>3, <2>14, <3>2
  <2>16. Holds(w, r)
    BY <2>7, <2>9, <2>13 DEF Holds
  <2> HIDE DEF k
  <2>17. Sound(m, k, live \cup {a}, F, {})
    <3>1. a \in Arrays \ live /\ k[a].data = b /\ Holds(m.word, k[a])
      BY <2>2, <2>3, <2>15, <2>16
    <3> HIDE DEF m, r
    <3> QED BY <2>12, <2>15, <3>1, Adopted
  <2>18. heap' \in Seq(Arrays) /\ Injective(heap') /\ Members(heap') = live \cup {a}
    <3>1. Kept(dead) \in Seq(Arrays) /\ Injective(Kept(dead)) /\ Members(Kept(dead)) = live
      BY <2>2, <2>3, SweepSound
    <3> HIDE DEF Kept
    <3> QED BY <2>1, <2>2, <2>3, <3>1, ConsMembers
  <2>19. word' = m.word /\ cache' = m.cache /\ array' = k /\ status' = "running"
    BY <2>1, <2>2, <2>8
  <2> HIDE DEF m
  <2> QED BY <2>17, <2>18, <2>19, NextInv
<1> QED BY <1>1, <1>2 DEF Construct

LEMMA NewInv ==
  ASSUME BuffersInv, NEW a \in Arrays, NEW dead, New(a, dead)
  PROVE  BuffersInv'
<1>1. Construct(a, dead, backing_new(Swept(dead)), Small, <<>>)
  BY DEF New
<1>2. ASSUME dead \in SUBSET Exist, NEW o \in backing_new(Swept(dead))
      PROVE  Hands(o, array, Exist \ dead, Small)
  BY <1>2, SweepSound, BackingNewHands
<1>3. PICK none \in Seq({Element}) : none = <<>> /\ Len(none) = 0
  BY EmptySeq
<1>4. Construct(a, dead, backing_new(Swept(dead)), Small, none)
  BY <1>1, <1>3
<1>5. Len(none) <= Small /\ Small \in Nat /\ Small >= Small
  BY <1>3, BackingConstants
<1> QED BY <1>2, <1>4, <1>5, ConstructInv, Zenon

LEMMA CallocConstruct ==
  ASSUME BuffersInv, NEW a \in Arrays, NEW dead, NEW capacity \in Nat, capacity >= Small,
         NEW elements \in Seq({Element}), Len(elements) <= capacity,
         Construct(a, dead, calloc(Swept(dead), capacity), capacity, elements)
  PROVE  BuffersInv'
<1>1. ASSUME dead \in SUBSET Exist, NEW o \in calloc(Swept(dead), capacity)
      PROVE  Hands(o, array, Exist \ dead, capacity)
  <2>1. capacity > 0
    BY BackingConstants
  <2> QED BY <1>1, <2>1, SweepSound, CallocHands
<1> QED BY <1>1, ConstructInv

LEMMA MaxIs ==
  ASSUME NEW i \in Nat, NEW j \in Nat
  PROVE  Max({i, j}) \in Nat /\ Max({i, j}) >= i /\ Max({i, j}) >= j
<1>1. \E x \in {i, j} : \A y \in {i, j} : x >= y
  OBVIOUS
<1>2. Max({i, j}) \in {i, j} /\ \A y \in {i, j} : Max({i, j}) >= y
  BY <1>1 DEF Max
<1> QED BY <1>2

LEMMA NewReservedInv ==
  ASSUME BuffersInv, NEW a \in Arrays, NEW dead, NEW requested \in 0..MaxLength, NewReserved(a, dead, requested)
  PROVE  BuffersInv'
<1>1. PICK capacity \in Nat : capacity = Max({Small, requested}) /\ capacity >= Small
  BY MaxIs, BackingConstants
<1>2. PICK none \in Seq({Element}) : none = <<>> /\ Len(none) = 0
  BY EmptySeq
<1>3. Construct(a, dead, calloc(Swept(dead), capacity), capacity, none)
  BY <1>1, <1>2 DEF NewReserved
<1>4. Len(none) <= capacity
  BY <1>2
<1> QED BY <1>1, <1>3, <1>4, CallocConstruct, Zenon

LEMMA CopyInv ==
  ASSUME BuffersInv, NEW a \in Arrays, NEW dead, NEW source, NEW count \in 0..MaxLength,
         Copy(a, dead, source, count)
  PROVE  BuffersInv'
<1>1. PICK capacity \in Nat : capacity = Max({Small, count}) /\ capacity >= Small /\ capacity >= count
  BY MaxIs, BackingConstants
<1> DEFINE s == SubSeq(word[array[source].data], 1, count)
<1>2. s \in Seq({Element}) /\ Len(s) = count
  <2>1. source \in Exist /\ count <= array[source].length
    BY DEF Copy
  <2>2. array[source].length \in Nat /\ \A i \in 1..array[source].length : word[array[source].data][i] = Element
    BY <2>1, InvFactsBuffers DEF Holds, Header
  <2>3. \A i \in 1..count : word[array[source].data][i] \in {Element}
    BY <2>1, <2>2
  <2>4. count \in Int /\ 1 \in Int
    OBVIOUS
  <2>5. s \in Seq({Element}) /\ Len(s) = IF 1 <= count THEN count - 1 + 1 ELSE 0
    BY <2>3, <2>4, SubSeqProperties
  <2> QED BY <2>5
<1>3. Construct(a, dead, calloc(Swept(dead), capacity), capacity, s)
  BY <1>1 DEF Copy
<1> HIDE DEF s
<1> QED BY <1>1, <1>2, <1>3, CallocConstruct

(* The capacities that are tried grow past any count.                        *)
FourfoldIs(g, n) == g = [i \in 0..n |-> IF i = 0 THEN Small ELSE 4 * g[i - 1]]

LEMMA FourfoldExists ==
  ASSUME NEW n \in Nat
  PROVE  \E g : FourfoldIs(g, n)
<1> DEFINE S == {k \in Nat : \E g : FourfoldIs(g, k)}
<1>1. 0 \in S
  <2>1. FourfoldIs([i \in 0..0 |-> Small], 0)
    BY DEF FourfoldIs
  <2> QED BY <2>1
<1>2. ASSUME NEW k \in S PROVE k + 1 \in S
  <2>1. PICK g : FourfoldIs(g, k)
    OBVIOUS
  <2> DEFINE f == [i \in 0..(k + 1) |-> IF i = k + 1 THEN 4 * g[k] ELSE g[i]]
  <2>2. \A i \in 0..k : g[i] = IF i = 0 THEN Small ELSE 4 * g[i - 1]
    BY <2>1 DEF FourfoldIs
  <2>3. \A i \in 0..(k + 1) : f[i] = IF i = 0 THEN Small ELSE 4 * f[i - 1]
    BY <2>2
  <2>4. FourfoldIs(f, k + 1)
    BY <2>3 DEF FourfoldIs
  <2> QED BY <2>4
<1>3. S \in SUBSET Nat
  OBVIOUS
<1>4. S = Nat
  <2> HIDE DEF S
  <2> QED BY <1>1, <1>2, <1>3, Numbers
<1> QED BY <1>4

LEMMA FourfoldGrows ==
  ASSUME NEW n \in Nat
  PROVE  Fourfold(n) \in SUBSET {c \in Nat : c >= Small} /\ \E c \in Fourfold(n) : c >= n
<1> DEFINE g == CHOOSE g : g = [i \in 0..n |-> IF i = 0 THEN Small ELSE 4 * g[i - 1]]
<1>1. Fourfold(n) = {g[i] : i \in 0..n}
  BY DEF Fourfold
<1>2. \E f : f = [i \in 0..n |-> IF i = 0 THEN Small ELSE 4 * f[i - 1]]
  BY FourfoldExists DEF FourfoldIs
<1>3. \A i \in 0..n : g[i] = IF i = 0 THEN Small ELSE 4 * g[i - 1]
  <2>1. FourfoldIs(g, n)
    BY <1>2 DEF FourfoldIs
  <2> HIDE DEF g
  <2> QED BY <2>1 DEF FourfoldIs
<1> HIDE DEF g
<1> DEFINE S == {k \in Nat : k <= n => g[k] \in Nat /\ g[k] >= Small /\ g[k] >= k}
<1>4. 0 \in S
  BY <1>3, BackingConstants
<1>5. ASSUME NEW k \in S PROVE k + 1 \in S
  <2> SUFFICES ASSUME k + 1 <= n PROVE g[k + 1] \in Nat /\ g[k + 1] >= Small /\ g[k + 1] >= k + 1
    OBVIOUS
  <2>1. PICK x \in Nat : x = g[k] /\ x >= Small /\ x >= k
    OBVIOUS
  <2>2. g[k + 1] = 4 * x
    <3>1. k + 1 \in 0..n /\ k + 1 # 0 /\ (k + 1) - 1 = k
      OBVIOUS
    <3> QED BY <1>3, <2>1, <3>1
  <2> QED BY <2>1, <2>2, BackingConstants
<1>6. S = Nat
  <2>1. S \in SUBSET Nat
    OBVIOUS
  <2> HIDE DEF S
  <2> QED BY <1>4, <1>5, <2>1, Numbers
<1>7. \A k \in 0..n : g[k] \in Nat /\ g[k] >= Small /\ g[k] >= k
  BY <1>6
<1>8. n \in 0..n
  OBVIOUS
<1> QED BY <1>1, <1>7, <1>8

LEMMA FirstEnough ==
  ASSUME NEW n \in Nat
  PROVE  LET c == Min({c \in Fourfold(n) : c >= n}) IN c \in Nat /\ c >= Small /\ c >= n
<1> DEFINE S == {c \in Fourfold(n) : c >= n}
<1>1. S \in SUBSET Nat /\ S # {}
  BY FourfoldGrows
<1>2. \A c \in S : c \in Nat /\ c >= Small /\ c >= n
  BY FourfoldGrows
<1> HIDE DEF S
<1>3. \E x \in S : \A y \in S : x <= y
  BY <1>1, LeastNumber
<1>4. Min(S) \in S
  BY <1>3 DEF Min
<1> QED BY <1>2, <1>4 DEF S

LEMMA LiteralSplitInv ==
  ASSUME BuffersInv, NEW a \in Arrays, NEW dead, NEW count \in 1..MaxLength, LiteralSplit(a, dead, count)
  PROVE  BuffersInv'
<1>1. count \in Nat
  BY BackingConstants
<1>2. PICK capacity \in Nat : capacity = Min({c \in Fourfold(count) : c >= count}) /\ capacity >= Small /\ capacity >= count
  BY <1>1, FirstEnough
<1>3. PICK s \in Seq({Element}) : s = Elements(count) /\ Len(s) = count
  <2>1. [i \in 1..count |-> Element] \in Seq({Element}) /\ Len([i \in 1..count |-> Element]) = count
    BY <1>1
  <2> QED BY <2>1, Zenon DEF Elements
<1>4. Construct(a, dead, IF capacity = Small THEN backing_new(Swept(dead)) ELSE calloc(Swept(dead), capacity), capacity, s)
  BY <1>2, <1>3 DEF LiteralSplit
<1>5. Len(s) <= capacity
  BY <1>2, <1>3
<1>6. CASE capacity = Small
  <2>1. ASSUME dead \in SUBSET Exist, NEW o \in backing_new(Swept(dead))
        PROVE  Hands(o, array, Exist \ dead, Small)
    BY <2>1, SweepSound, BackingNewHands
  <2>2. Construct(a, dead, backing_new(Swept(dead)), capacity, s)
    BY <1>4, <1>6
  <2>3. dead \in SUBSET Exist => \A o \in backing_new(Swept(dead)) : Hands(o, array, Exist \ dead, capacity)
    BY <1>6, <2>1
  <2> QED BY <1>2, <1>5, <2>2, <2>3, ConstructInv, Zenon
<1>7. CASE capacity # Small
  <2>1. Construct(a, dead, calloc(Swept(dead), capacity), capacity, s)
    BY <1>4, <1>7
  <2> QED BY <1>2, <1>5, <2>1, CallocConstruct, Zenon
<1> QED BY <1>6, <1>7

(* A word of a live array's buffer is written in place, and its length follows. *)
LEMMA WriteInv ==
  ASSUME BuffersInv, status = "running", NEW a \in Exist, NEW i \in 1..array[a].capacity, NEW x \in Word,
         NEW n \in Nat, n <= array[a].capacity,
         word' = [word EXCEPT ![array[a].data][i] = x],
         array' = [array EXCEPT ![a].length = n],
         UNCHANGED <<cache, heap, status>>,
         \A j \in 1..n : (IF j = i THEN x ELSE word[array[a].data][j]) = Element,
         array[a].capacity = Small =>
           \A j \in (n + 1)..Small : (IF j = i THEN x ELSE word[array[a].data][j]) = NoBuffer
  PROVE  BuffersInv'
<1>1. array \in [Arrays -> Header] /\ a \in Arrays /\ word \in [Buffers -> Seq(Word)] /\ Exist \in SUBSET Arrays
      /\ heap \in Seq(Arrays) /\ Injective(heap) /\ Exist = Members(heap)
  BY InvFactsBuffers
<1>2. PICK r \in Header : r = array[a] /\ Holds(word, r)
  BY <1>1, InvFactsBuffers
<1>3. PICK b \in Buffers : b = r.data
  BY <1>2 DEF Holds
<1>4. PICK y \in Seq(Word) : y = [word[b] EXCEPT ![i] = x] /\ Len(y) = r.capacity
         /\ \A j \in 1..r.capacity : y[j] = IF j = i THEN x ELSE word[b][j]
  <2>1. word[b] \in Seq(Word) /\ Len(word[b]) = r.capacity
    BY <1>1, <1>2, <1>3 DEF Holds
  <2>2. i \in 1..Len(word[b])
    BY <1>2, <2>1
  <2>3. [word[b] EXCEPT ![i] = x] \in Seq(Word) /\ Len([word[b] EXCEPT ![i] = x]) = Len(word[b])
        /\ \A j \in 1..Len(word[b]) : [word[b] EXCEPT ![i] = x][j] = IF j = i THEN x ELSE word[b][j]
    BY <2>1, <2>2, ExceptSeq
  <2> QED BY <2>1, <2>3, Zenon
<1> DEFINE w == [word EXCEPT ![b] = y]  k == [array EXCEPT ![a] = [r EXCEPT !.length = n]]
           m == [word |-> w, cache |-> cache]
<1>5. word' = w /\ array' = k
  BY <1>1, <1>2, <1>3, <1>4
<1>6. PICK F \in SUBSET Buffers : Sound(Memory, array, Exist, F, {})
  BY DEF BuffersInv
<1>7. Sound(Memory, array, Exist \ {a}, F, {b}) /\ b \notin F
  BY <1>2, <1>3, <1>6, LetGo
<1>8. w \in [Buffers -> Seq(Word)] /\ w[b] = y /\ \A c \in Buffers \ {b} : w[c] = word[c]
  BY <1>1
<1>9. y # <<>>
  <2>1. Len(<<>>) = 0
    OBVIOUS
  <2>2. r.capacity \in Nat /\ r.capacity > 0
    BY <1>2, BackingConstants DEF Holds, Header
  <2> QED BY <1>4, <2>1, <2>2
<1> HIDE DEF w
<1>10. Sound(m, array, Exist \ {a}, F, {b})
  <2>1. \A c \in Exist \ {a} : array[c].data # b
    BY <1>7 DEF Sound, Accounted
  <2>2. Memory.word = word /\ Memory.cache = cache
    BY DEF Memory
  <2>3. \A c \in Buffers \ ({b} \cup {b}) : w[c] = Memory.word[c]
    BY <1>8, <2>2
  <2>4. \A c \in {b} \ {b} : w[c] = <<>>
    OBVIOUS
  <2>5. w[b] # <<>>
    BY <1>8, <1>9
  <2>6. Sound([word |-> w, cache |-> Memory.cache], array, Exist \ {a}, F, {b})
    BY <1>7, <1>8, <2>1, <2>3, <2>4, <2>5, InHand
  <2> QED BY <2>2, <2>6
<1>11. PICK q \in Header : q = [r EXCEPT !.length = n] /\ q.data = b /\ q.capacity = r.capacity /\ q.length = n
  <2>1. [r EXCEPT !.length = n] = [data |-> b, capacity |-> r.capacity, length |-> n]
    BY <1>2, <1>3 DEF Header
  <2>2. [r EXCEPT !.length = n] \in Header
    BY <2>1 DEF Header
  <2> QED BY <2>1, <2>2
<1>12. k \in [Arrays -> Header] /\ k[a] = q /\ \A c \in Exist \ {a} : k[c] = array[c]
  BY <1>1, <1>11
<1>13. Holds(w, q)
  <2>1. b \in Buffers /\ q.capacity >= Small /\ q.length <= q.capacity /\ Len(w[b]) = q.capacity
    BY <1>2, <1>4, <1>8, <1>11 DEF Holds
  <2>2. r.capacity \in Nat
    BY <1>2 DEF Header
  <2>3. \A j \in 1..n : w[b][j] = Element
    BY <1>2, <1>3, <1>4, <1>8, <2>2
  <2>4. r.capacity = Small => \A j \in (n + 1)..Small : w[b][j] = NoBuffer
    <3> SUFFICES ASSUME r.capacity = Small, NEW j \in (n + 1)..Small PROVE w[b][j] = NoBuffer
      OBVIOUS
    <3>1. j \in 1..r.capacity
      BY BackingConstants
    <3> QED BY <1>2, <1>3, <1>4, <1>8, <3>1
  <2> QED BY <1>11, <2>1, <2>3, <2>4 DEF Holds
<1> HIDE DEF k
<1>14. Sound(m, k, (Exist \ {a}) \cup {a}, F, {})
  <2>1. a \in Arrays \ (Exist \ {a}) /\ k[a].data = b /\ Holds(m.word, k[a])
    BY <1>1, <1>11, <1>12, <1>13
  <2> HIDE DEF m
  <2> QED BY <1>10, <1>12, <2>1, Adopted
<1>15. (Exist \ {a}) \cup {a} = Members(heap')
  BY <1>1
<1>16. word' = m.word /\ cache' = m.cache /\ array' = k /\ heap' \in Seq(Arrays) /\ Injective(heap') /\ status' = "running"
  BY <1>1, <1>5
<1> HIDE DEF m
<1> QED BY <1>14, <1>15, <1>16, NextInv

LEMMA PushStoreInv ==
  ASSUME BuffersInv, NEW a, PushStore(a)
  PROVE  BuffersInv'
<1>1. a \in Exist /\ array \in [Arrays -> Header] /\ Exist \in SUBSET Arrays
  BY InvFactsBuffers DEF PushStore
<1>2. PICK n \in Nat, c \in Nat : n = array[a].length /\ c = array[a].capacity /\ Holds(word, array[a])
  BY <1>1, InvFactsBuffers DEF Header
<1>3. n + 1 \in 1..c /\ n + 1 \in Nat /\ Element \in Word /\ n + 1 <= c
  BY <1>2 DEF PushStore, Word
<1>4. word' = [word EXCEPT ![array[a].data][n + 1] = Element] /\ array' = [array EXCEPT ![a].length = n + 1]
      /\ UNCHANGED <<cache, heap, status>> /\ status = "running"
  BY <1>2 DEF PushStore
<1>5. \A j \in 1..(n + 1) : (IF j = n + 1 THEN Element ELSE word[array[a].data][j]) = Element
  BY <1>2 DEF Holds
<1>6. c = Small => \A j \in (n + 1 + 1)..Small : (IF j = n + 1 THEN Element ELSE word[array[a].data][j]) = NoBuffer
  BY <1>2 DEF Holds
<1> QED BY <1>1, <1>2, <1>3, <1>4, <1>5, <1>6, WriteInv

LEMMA TakeLastInv ==
  ASSUME BuffersInv, NEW a, TakeLast(a)
  PROVE  BuffersInv'
<1>1. a \in Exist /\ array \in [Arrays -> Header] /\ Exist \in SUBSET Arrays
  BY InvFactsBuffers DEF TakeLast
<1>2. PICK n \in Nat, c \in Nat : n = array[a].length /\ c = array[a].capacity /\ Holds(word, array[a])
  BY <1>1, InvFactsBuffers DEF Header
<1>3. PICK p \in Nat : p = n - 1 /\ n = p + 1 /\ n \in 1..c /\ NoBuffer \in Word /\ p <= c
  <2>1. n > 0 /\ n <= c /\ NoBuffer \in Word
    BY <1>2 DEF TakeLast, Word, Holds
  <2>2. n - 1 \in Nat /\ n = (n - 1) + 1 /\ n \in 1..c /\ n - 1 <= c
    BY <2>1
  <2> QED BY <2>1, <2>2
<1>4. word' = [word EXCEPT ![array[a].data][n] = NoBuffer] /\ array' = [array EXCEPT ![a].length = p]
      /\ UNCHANGED <<cache, heap, status>> /\ status = "running"
  BY <1>2, <1>3 DEF TakeLast
<1>5. \A j \in 1..p : (IF j = n THEN NoBuffer ELSE word[array[a].data][j]) = Element
  BY <1>2, <1>3 DEF Holds
<1>6. c = Small => \A j \in (p + 1)..Small : (IF j = n THEN NoBuffer ELSE word[array[a].data][j]) = NoBuffer
  BY <1>2, <1>3 DEF Holds
<1>7. n \in 1..array[a].capacity /\ p <= array[a].capacity
  BY <1>2, <1>3
<1>8. array[a].capacity = Small =>
        \A j \in (p + 1)..Small : (IF j = n THEN NoBuffer ELSE word[array[a].data][j]) = NoBuffer
  BY <1>2, <1>6
<1> QED BY <1>1, <1>3, <1>4, <1>5, <1>7, <1>8, WriteInv

(* With no arrays and nothing cached, all buffers are libc's.                *)
LEMMA EmptyBuffers ==
  ASSUME word' = [b \in Buffers |-> <<>>], cache' = EmptyCache, array' \in [Arrays -> Header], heap' = <<>>
  PROVE  BuffersInv'
<1> DEFINE m == [word |-> [b \in Buffers |-> <<>>], cache |-> EmptyCache]
<1>1. m \in Memories
  BY EmptySeq DEF Memories, EmptyCache
<1>2. CacheExact(m, {})
  <2>1. Chain({}, NoBuffer, Firsts(m.word), NoBuffer)
    BY DEF Chain
  <2>2. Cardinality({}) = 0
    BY FS_EmptySet
  <2> QED BY <2>1, <2>2, BackingConstants DEF CacheExact, EmptyCache
<1>3. \A h : Accounted(m.word, h, {}, {}, {})
  BY DEF Accounted
<1>4. Memory' = m /\ Exist' = {} /\ heap' \in Seq(Arrays) /\ Injective(heap)'
  BY EmptySeq DEF Memory, Exist, Injective
<1>5. Sound(m, array', {}, {}, {})
  BY <1>1, <1>2, <1>3 DEF Sound
<1>6. Sound(Memory', array', Exist', {}, {})
  BY <1>4, <1>5
<1> QED BY <1>4, <1>6 DEF BuffersInv

LEMMA GrownIs ==
  ASSUME NEW s \in Seq(Word), NEW n \in Nat, n > Len(s)
  PROVE  LET t == s \o [i \in 1..(n - Len(s)) |-> Undefined]
         IN  t \in Seq(Word) /\ Len(t) = n /\ \A i \in 1..Len(s) : t[i] = s[i]
<1>1. PICK k \in Nat : k = Len(s)
  BY LenProperties
<1>2. PICK d \in Nat : d = n - k
  BY <1>1
<1>3. PICK u \in Seq(Word) : u = [i \in 1..d |-> Undefined] /\ Len(u) = d
  <2>1. [i \in 1..d |-> Undefined] \in Seq(Word) /\ Len([i \in 1..d |-> Undefined]) = d
    BY DEF Word
  <2> QED BY <2>1, Zenon
<1>4. s \o u \in Seq(Word) /\ Len(s \o u) = k + d /\ \A i \in 1..(k + d) : (s \o u)[i] = IF i <= k THEN s[i] ELSE u[i - k]
  BY <1>1, <1>3, ConcatProperties
<1>5. k + d = n /\ \A i \in 1..k : i \in 1..(k + d) /\ i <= k
  BY <1>1, <1>2
<1>6. \A i \in 1..k : (s \o u)[i] = s[i]
  BY <1>4, <1>5
<1> QED BY <1>1, <1>2, <1>3, <1>4, <1>5, <1>6

LEMMA PushGrowInv ==
  ASSUME BuffersInv, NEW a, NEW dead, NEW factor \in {2, 4}, PushGrow(a, dead, factor)
  PROVE  BuffersInv'
<1>1. status = "running" /\ a \in Exist \ dead /\ dead \in SUBSET Exist /\ array[a].length = array[a].capacity
  BY DEF PushGrow
<1>2. CASE Failed
  <2>1. Memory' = Memory /\ Exist' = Exist /\ array' = array /\ heap' = heap /\ status' = "fatal"
    BY <1>2 DEF Failed, Memory, Exist
  <2>2. PICK F \in SUBSET Buffers : Sound(Memory, array, Exist, F, {})
    BY DEF BuffersInv
  <2>3. Sound(Memory', array', Exist', F, {})
    BY <2>1, <2>2
  <2> QED BY <2>1, <2>3 DEF BuffersInv
<1>3. CASE \E o \in realloc(Swept(dead), array[a].data, factor * array[a].capacity) :
              /\ word' = [o.memory.word EXCEPT ![o.data][array[a].length + 1] = Element]
              /\ cache' = o.memory.cache
              /\ array' = [Survivors(dead) EXCEPT ![a] =
                             [data |-> o.data, capacity |-> factor * array[a].capacity,
                              length |-> array[a].length + 1]]
              /\ heap' = Kept(dead)
              /\ UNCHANGED status
  <2>1. array \in [Arrays -> Header] /\ Exist \in SUBSET Arrays /\ a \in Arrays
    BY <1>1, InvFactsBuffers
  <2>2. PICK live \in SUBSET Arrays : live = Exist \ dead
    BY <2>1
  <2>23. PICK m : m = Swept(dead)
    OBVIOUS
  <2>3. PICK F \in SUBSET Buffers : m = Swept(dead) /\ Sound(m, array, live, F, {})
    <3>1. PICK F \in SUBSET Buffers : Sound(Swept(dead), array, live, F, {})
      BY <1>1, <2>2, SweepSound
    <3> QED BY <3>1, <2>23
  <2>4. PICK b \in Buffers, q \in Nat, z \in Nat : b = array[a].data /\ q = array[a].capacity /\ z = factor * q
          /\ array[a].length = q /\ q >= Small /\ z > q /\ Len(m.word[b]) = q /\ m.word[b] \in Seq(Word)
          /\ \A i \in 1..q : m.word[b][i] = Element
    <3>1. array[a] \in Header /\ Holds(m.word, array[a]) /\ m \in Memories
      BY <1>1, <2>1, <2>2, <2>3 DEF Sound
    <3>2. array[a].data \in Buffers /\ array[a].capacity \in Nat /\ array[a].capacity >= Small
          /\ Len(m.word[array[a].data]) = array[a].capacity /\ m.word[array[a].data] \in Seq(Word)
          /\ \A i \in 1..array[a].capacity : m.word[array[a].data][i] = Element
      BY <1>1, <3>1 DEF Holds, Header, Memories
    <3>3. factor * array[a].capacity \in Nat /\ factor * array[a].capacity > array[a].capacity
      BY <3>2, BackingConstants
    <3> QED BY <1>1, <3>2, <3>3
  <2>5. PICK t \in Seq(Word) : t = m.word[b] \o [i \in 1..(z - Len(m.word[b])) |-> Undefined]
          /\ Len(t) = z /\ \A i \in 1..q : t[i] = Element
    <3>1. z > Len(m.word[b])
      BY <2>4
    <3> DEFINE g == m.word[b] \o [i \in 1..(z - Len(m.word[b])) |-> Undefined]
    <3>2. g \in Seq(Word) /\ Len(g) = z /\ \A i \in 1..Len(m.word[b]) : g[i] = m.word[b][i]
      BY <2>4, <3>1, GrownIs
    <3> HIDE DEF g
    <3>3. \A i \in 1..q : g[i] = Element
      BY <2>4, <3>2
    <3> QED BY <3>2, <3>3, Zenon DEF g
  <2>24. Len(t) = z /\ \A i \in 1..q : t[i] = Element
    BY <2>5, Zenon
  <2>6. PICK o \in realloc(m, b, z) :
              /\ word' = [o.memory.word EXCEPT ![o.data][q + 1] = Element]
              /\ cache' = o.memory.cache
              /\ array' = [Survivors(dead) EXCEPT ![a] = [data |-> o.data, capacity |-> z, length |-> q + 1]]
              /\ heap' = Kept(dead) /\ status' = "running"
    BY <1>1, <1>3, <2>3, <2>4
  <2>7. PICK c \in Unallocated(m) \cup {b} :
          o = [memory |-> [m EXCEPT !.word[b] = <<>>, !.word[c] = t], data |-> c]
    <3>1. realloc(m, b, z) = {[memory |-> [m EXCEPT !.word[b] = <<>>, !.word[c] = t], data |-> c] :
                                c \in Unallocated(m) \cup {b}}
      BY <2>5, Zenon DEF realloc
    <3> QED BY <3>1, Zenon
  <2>8. PICK y \in Seq(Word) : y = [t EXCEPT ![q + 1] = Element] /\ Len(y) = z
          /\ \A j \in 1..z : y[j] = IF j = q + 1 THEN Element ELSE t[j]
    <3>1. q + 1 \in 1..Len(t) /\ Element \in Word
      <4>2. z > q
        BY <2>4, Zenon
      <4>1. q + 1 \in 1..z
        BY <4>2
      <4> QED BY <2>24, <4>1 DEF Word
    <3>2. [t EXCEPT ![q + 1] = Element] \in Seq(Word) /\ Len([t EXCEPT ![q + 1] = Element]) = Len(t)
          /\ \A j \in 1..Len(t) : [t EXCEPT ![q + 1] = Element][j] = IF j = q + 1 THEN Element ELSE t[j]
      BY <3>1, ExceptSeq
    <3> QED BY <2>24, <3>2, Zenon
  <2>9. m \in Memories /\ c \in Buffers /\ b \notin F /\ Sound(m, array, live \ {a}, F, {b})
    <3>1. a \in live /\ m \in Memories /\ c \in Buffers
      BY <1>1, <2>2, <2>3, <2>4, <2>7 DEF Sound, Unallocated
    <3>2. b = array[a].data
      BY <2>4
    <3> QED BY <2>3, <3>1, <3>2, LetGo
  <2> DEFINE v == [[m.word EXCEPT ![b] = <<>>] EXCEPT ![c] = t]
             w == [v EXCEPT ![c] = y]
             n == [word |-> w, cache |-> m.cache]
             r == [data |-> c, capacity |-> z, length |-> q + 1]
             k == [Survivors(dead) EXCEPT ![a] = r]
  <2>10. o.memory = [word |-> v, cache |-> m.cache] /\ o.data = c
    <3>1. PICK mw, mc : m = [word |-> mw, cache |-> mc]
      BY <2>9 DEF Memories
    <3> QED BY <2>7, <3>1
  <2>11. v[c] = t
    BY <2>9 DEF Memories
  <2>12. word' = w /\ cache' = m.cache /\ array' = k
    <3>1. word' = [v EXCEPT ![c][q + 1] = Element] /\ cache' = m.cache /\ array' = k
      BY <2>6, <2>10
    <3> HIDE DEF v
    <3> QED BY <3>1, <2>8, <2>11
  <2>13. w \in [Buffers -> Seq(Word)] /\ w[c] = y /\ (\A x \in Buffers \ {b, c} : w[x] = m.word[x])
         /\ (c # b => w[b] = <<>>)
    BY <2>4, <2>9, EmptySeq DEF Memories
  <2>14. y # <<>>
    <3>1. Len(<<>>) = 0
      OBVIOUS
    <3> QED BY <2>4, <2>8, <3>1
  <2>15. c \notin F /\ \A x \in live \ {a} : array[x].data # c
    <3>1. CASE c = b
      BY <3>1, <2>9 DEF Sound, Accounted
    <3>2. CASE c # b
      <4>1. m.word[c] = <<>>
        BY <2>7, <3>2 DEF Unallocated
      <4> QED BY <4>1, <2>9 DEF Sound, Accounted
    <3> QED BY <3>1, <3>2
  <2> HIDE DEF w, v
  <2>16. Sound(n, array, live \ {a}, F, {c})
    <3>1. \A x \in Buffers \ ({b} \cup {c}) : w[x] = m.word[x]
      BY <2>13
    <3>2. \A x \in {b} \ {c} : w[x] = <<>>
      BY <2>13
    <3>3. w[c] # <<>>
      BY <2>13, <2>14
    <3> QED BY <2>9, <2>13, <2>15, <3>1, <3>2, <3>3, InHand
  <2>17. r \in Header
    BY <2>4, <2>9 DEF Header
  <2>18. k \in [Arrays -> Header] /\ k[a] = r /\ \A x \in live \ {a} : k[x] = array[x]
    <3>1. Survivors(dead) \in [Arrays -> Header] /\ \A x \in live : Survivors(dead)[x] = array[x]
      BY <2>1, <2>2, SurvivorsAre
    <3> HIDE DEF r
    <3> QED BY <2>1, <2>17, <3>1
  <2>19. Holds(w, r)
    <3>1. \A i \in 1..(q + 1) : y[i] = Element
      <4>1. \A i \in 1..(q + 1) : i \in 1..z /\ (i = q + 1 \/ i \in 1..q)
        BY <2>4
      <4> QED BY <2>8, <2>24, <4>1
    <3>2. q + 1 <= z /\ z >= Small /\ z # Small
      BY <2>4, BackingConstants, SMTT(30)
    <3> QED BY <2>8, <2>9, <2>13, <3>1, <3>2 DEF Holds
  <2> HIDE DEF k
  <2>20. Sound(n, k, (live \ {a}) \cup {a}, F, {})
    <3>1. a \in Arrays \ (live \ {a}) /\ k[a].data = c /\ Holds(n.word, k[a])
      BY <2>1, <2>18, <2>19
    <3> HIDE DEF n, r
    <3> QED BY <2>16, <2>18, <3>1, Adopted
  <2>21. heap' \in Seq(Arrays) /\ Injective(heap') /\ Members(heap') = (live \ {a}) \cup {a}
    <3>1. Kept(dead) \in Seq(Arrays) /\ Injective(Kept(dead)) /\ Members(Kept(dead)) = live
      BY <1>1, <2>2, SweepSound
    <3>2. live = (live \ {a}) \cup {a}
      BY <1>1, <2>2
    <3> HIDE DEF Kept
    <3> QED BY <2>6, <3>1, <3>2
  <2>22. word' = n.word /\ cache' = n.cache /\ array' = k /\ status' = "running"
    BY <2>6, <2>12
  <2> HIDE DEF n
  <2> QED BY <2>20, <2>21, <2>22, NextInv
<1> QED BY <1>2, <1>3 DEF PushGrow

LEMMA CollectInv ==
  ASSUME BuffersInv, NEW dead, Collect(dead)
  PROVE  BuffersInv'
<1>1. dead \in SUBSET Exist /\ status = "running"
  BY DEF Collect
<1>2. PICK F \in SUBSET Buffers : Sound(Swept(dead), array, Exist \ dead, F, {})
  BY <1>1, SweepSound
<1>3. Kept(dead) \in Seq(Arrays) /\ Injective(Kept(dead)) /\ Members(Kept(dead)) = Exist \ dead
  BY <1>1, SweepSound
<1>4. Survivors(dead) \in [Arrays -> Header] /\ \A x \in Exist \ dead : Survivors(dead)[x] = array[x]
  BY InvFactsBuffers, SurvivorsAre
<1>5. Sound(Swept(dead), Survivors(dead), Exist \ dead, F, {})
  BY <1>2, <1>4, OtherHeaders
<1>6. word' = Swept(dead).word /\ cache' = Swept(dead).cache /\ array' = Survivors(dead) /\ heap' = Kept(dead)
      /\ status' = "running"
  BY <1>1 DEF Collect
<1>7. heap' \in Seq(Arrays) /\ Injective(heap') /\ Members(heap') = Exist \ dead
  BY <1>3, <1>6
<1> QED BY <1>5, <1>6, <1>7, NextInv

LEMMA FinishInv ==
  ASSUME BuffersInv, Finish
  PROVE  BuffersInv'
<1>5. PICK m : m = Swept(Exist)
  OBVIOUS
<1>1. PICK F \in SUBSET Buffers : m = Swept(Exist) /\ Sound(m, array, {}, F, {})
  <2>1. Exist \ Exist = {} /\ Exist \in SUBSET Exist
    OBVIOUS
  <2>2. PICK F \in SUBSET Buffers : Sound(Swept(Exist), array, Exist \ Exist, F, {})
    BY <2>1, SweepSound
  <2> QED BY <1>5, <2>1, <2>2
<1>2. Chained(m) = F
  BY <1>1, ChainedIs DEF Sound
<1>3. word' = [b \in Buffers |-> <<>>] /\ cache' = EmptyCache /\ array' = Survivors(Exist) /\ heap' = <<>>
      /\ status' = "finished"
  <2>1. word' = [b \in Buffers |-> IF b \in F THEN <<>> ELSE m.word[b]] /\ cache' = EmptyCache
        /\ array' = Survivors(Exist) /\ heap' = <<>> /\ status' = "finished"
    BY <1>1, <1>2 DEF Finish, backing_flush
  <2>2. \A b \in Buffers : b \notin F => m.word[b] = <<>>
    BY <1>1 DEF Sound, Accounted
  <2> QED BY <2>1, <2>2
<1>4. array' \in [Arrays -> Header]
  BY <1>3, InvFactsBuffers, SurvivorsAre
<1> QED BY <1>3, <1>4, EmptyBuffers

LEMMA BuffersStep ==
  ASSUME BuffersInv, [BuffersNext]_buffer_vars
  PROVE  BuffersInv'
<1>1. CASE \E dead \in SUBSET Arrays : Collect(dead)
  BY <1>1, CollectInv
<1>2. CASE \E dead \in SUBSET Arrays, a \in Arrays : New(a, dead)
  BY <1>2, NewInv
<1>3. CASE \E dead \in SUBSET Arrays, a \in Arrays : \E n \in 0..MaxLength : NewReserved(a, dead, n)
  BY <1>3, NewReservedInv
<1>4. CASE \E dead \in SUBSET Arrays, a \in Arrays : \E n \in 1..MaxLength : LiteralSplit(a, dead, n)
  BY <1>4, LiteralSplitInv
<1>5. CASE \E dead \in SUBSET Arrays, a \in Arrays :
             \E source \in Arrays, n \in 0..MaxLength : Copy(a, dead, source, n)
  BY <1>5, CopyInv
<1>6. CASE \E dead \in SUBSET Arrays, a \in Arrays : \E factor \in {2, 4} : PushGrow(a, dead, factor)
  BY <1>6, PushGrowInv
<1>7. CASE \E a \in Arrays : PushStore(a)
  BY <1>7, PushStoreInv
<1>8. CASE \E a \in Arrays : TakeLast(a)
  BY <1>8, TakeLastInv
<1>9. CASE Finish
  BY <1>9, FinishInv
<1>10. CASE UNCHANGED buffer_vars
  <2>1. Memory' = Memory /\ Exist' = Exist /\ UNCHANGED <<array, heap, status, word>>
    BY <1>10 DEF buffer_vars, Memory, Exist
  <2>2. PICK F \in SUBSET Buffers : Sound(Memory, array, Exist, F, {})
    BY DEF BuffersInv
  <2>3. Sound(Memory', array', Exist', F, {})
    BY <2>1, <2>2
  <2> QED BY <2>1, <2>3 DEF BuffersInv
<1> QED BY <1>1, <1>2, <1>3, <1>4, <1>5, <1>6, <1>7, <1>8, <1>9, <1>10, Zenon DEF BuffersNext, Ended

LEMMA BuffersStart ==
  ASSUME BuffersInit
  PROVE  BuffersInv
<1> DEFINE m == [word |-> [b \in Buffers |-> <<>>], cache |-> EmptyCache]
<1>1. m \in Memories /\ array \in [Arrays -> Header]
  BY EmptySeq DEF Memories, EmptyCache, BuffersInit, Absent, Header
<1>2. CacheExact(m, {})
  <2>1. Chain({}, NoBuffer, Firsts(m.word), NoBuffer)
    BY DEF Chain
  <2>2. Cardinality({}) = 0
    BY FS_EmptySet
  <2> QED BY <2>1, <2>2, BackingConstants DEF CacheExact, EmptyCache
<1>3. Accounted(m.word, array, {}, {}, {})
  BY DEF Accounted
<1>4. Memory = m /\ Exist = {} /\ heap \in Seq(Arrays) /\ Injective(heap) /\ status = "running"
  BY EmptySeq DEF Memory, Exist, Injective, BuffersInit
<1>5. Sound(Memory, array, Exist, {}, {})
  BY <1>1, <1>2, <1>3, <1>4 DEF Sound
<1> QED BY <1>4, <1>5 DEF BuffersInv

(* Every buffer a compiled program takes for its arrays is owned by one      *)
(* array or cached, an array shows only what was stored in it, and the final *)
(* flush gives everything back: for any number of arrays and buffers, any    *)
(* cache limit and any lengths.                                              *)
THEOREM BuffersAreExact == BuffersSpec => []BackingExact
<1>1. BuffersInit => BuffersInv
  BY BuffersStart
<1>2. BuffersInv /\ [BuffersNext]_buffer_vars => BuffersInv'
  BY BuffersStep
<1>3. BuffersInv => BackingExact
  BY BuffersInvExact
<1> QED BY <1>1, <1>2, <1>3, PTL DEF BuffersSpec

---------------------------------------------------------------------------
(* Hash tables.                                                              *)

(* Remainders.                                                               *)
LEMMA Remainder ==
  ASSUME NEW a \in Nat, NEW c \in Nat, c > 0
  PROVE  a % c \in 0..(c - 1) /\ a \div c \in Nat /\ a = c * (a \div c) + (a % c)
OBVIOUS

LEMMA SameRemainder ==
  ASSUME NEW c \in Nat, c > 0, NEW q \in Int, NEW r \in 0..(c - 1), NEW p \in Int, NEW s \in 0..(c - 1),
         c * q + r = c * p + s
  PROVE  r = s /\ q = p
OBVIOUS

(* The slot a probe of key visits after d others, of c slots.                *)
At(key, c, d) == (Code[key] + d) % c

LEMMA AtIs ==
  ASSUME NEW key, Code[key] \in Nat, NEW c \in Nat, c > 0, NEW d \in 0..(c - 1)
  PROVE  At(key, c, d) = IF (Code[key] % c) + d < c THEN (Code[key] % c) + d ELSE (Code[key] % c) + d - c
<1> DEFINE r == Code[key] % c
           q == Code[key] \div c
           s == (Code[key] + d) % c
           p == (Code[key] + d) \div c
<1>1. r \in 0..(c - 1) /\ q \in Nat /\ Code[key] = c * q + r
  BY Remainder
<1>2. s \in 0..(c - 1) /\ p \in Nat /\ Code[key] + d = c * p + s
  <2>1. PICK a \in Nat : a = Code[key] + d
    OBVIOUS
  <2> QED BY <2>1, Remainder
<1> HIDE DEF r, q, s, p
<1>3. CASE r + d < c
  <2>1. c * q + (r + d) = c * p + s /\ r + d \in 0..(c - 1)
    BY <1>1, <1>2, <1>3
  <2>2. r + d = s
    BY <2>1, <1>1, <1>2, SameRemainder
  <2> QED BY <2>2, <1>3 DEF At, s, r
<1>4. CASE ~ (r + d < c)
  <2>1. c * (q + 1) + (r + d - c) = c * p + s /\ r + d - c \in 0..(c - 1) /\ q + 1 \in Int
    <3>1. c * (q + 1) = c * q + c
      BY <1>1
    <3> QED BY <1>1, <1>2, <1>4, <3>1
  <2>2. r + d - c = s
    <3>1. PICK x \in 0..(c - 1) : x = r + d - c
      BY <2>1
    <3>2. PICK y \in Int : y = q + 1
      BY <2>1
    <3>3. c * y + x = c * p + s
      BY <2>1, <3>1, <3>2
    <3>4. x = s
      <4>1. p \in Int /\ s \in 0..(c - 1)
        BY <1>2
      <4> QED BY <4>1, <3>3, SameRemainder, Zenon
    <3> QED BY <3>1, <3>4
  <2> QED BY <2>2, <1>4 DEF At, s, r
<1> QED BY <1>3, <1>4

(* A probe visits every slot, each once.                                     *)
LEMMA ProbeVisits ==
  ASSUME NEW key, Code[key] \in Nat, NEW c \in Nat, c > 0
  PROVE  /\ \A d \in 0..(c - 1) : At(key, c, d) \in 0..(c - 1)
         /\ \A d, e \in 0..(c - 1) : At(key, c, d) = At(key, c, e) => d = e
         /\ \A s \in 0..(c - 1) : \E d \in 0..(c - 1) : At(key, c, d) = s
<1>1. PICK r \in 0..(c - 1) : r = Code[key] % c
  BY Remainder
<1>2. \A d \in 0..(c - 1) : At(key, c, d) = IF r + d < c THEN r + d ELSE r + d - c
  BY <1>1, AtIs
<1>3. \A s \in 0..(c - 1) : \E d \in 0..(c - 1) : At(key, c, d) = s
  <2> SUFFICES ASSUME NEW s \in 0..(c - 1) PROVE \E d \in 0..(c - 1) : At(key, c, d) = s
    OBVIOUS
  <2>1. CASE s >= r
    <3>1. s - r \in 0..(c - 1) /\ r + (s - r) = s
      BY <2>1
    <3> QED BY <3>1, <1>2
  <2>2. CASE s < r
    <3>1. s - r + c \in 0..(c - 1) /\ ~ (r + (s - r + c) < c) /\ r + (s - r + c) - c = s
      BY <2>2
    <3> QED BY <3>1, <1>2
  <2> QED BY <2>1, <2>2
<1> QED BY <1>2, <1>3

(* The key words of a program and the tables over them.                      *)
Words == {Encode(k) : k \in Keys}

LEMMA WordFacts ==
  /\ \A w \in Words : /\ w \in Nat /\ w # Vacant /\ w # Tombstone /\ Code[w] \in Nat
                      /\ Decode(w) \in Keys /\ Encode(Decode(w)) = w
  /\ \A k \in Keys : Encode(k) \in Words /\ Decode(Encode(k)) = k
<1>1. Keys \subseteq Int /\ \A k \in Keys : -MaxInteger <= k
  BY HashAssumption
<1> QED BY <1>1, HashAssumption DEF Words, Encode, Decode, Vacant, Tombstone

Shape(c) ==
  [capacity : {c}, count : Nat, tombs : Nat,
   keys : [0..(c - 1) -> Words \cup {Vacant, Tombstone}], values : [0..(c - 1) -> Values \cup {Cleared}]]

(* A probe passes d slots, and finds its key or a vacant slot at the next.   *)
Passes(t, key, d) == \A e \in 0..(d - 1) : t.keys[At(key, t.capacity, e)] \notin {key, Vacant}
Reaches(t, key, d) ==
  d \in 0..(t.capacity - 1) /\ Passes(t, key, d) /\ t.keys[At(key, t.capacity, d)] = key
Ends(t, key, d) ==
  d \in 0..(t.capacity - 1) /\ Passes(t, key, d) /\ t.keys[At(key, t.capacity, d)] = Vacant

LEMMA MinIs ==
  ASSUME NEW T \in SUBSET Nat, T # {}
  PROVE  Min(T) \in T /\ \A y \in T : Min(T) <= y
BY LeastNumber DEF Min

(* Where the loop of trbn_hash_slot stops.                                   *)
LEMMA FirstStop ==
  ASSUME NEW c \in Nat, NEW t \in Shape(c), NEW key \in Words, NEW d \in 0..(c - 1), Passes(t, key, d),
         t.keys[At(key, c, d)] \in {key, Vacant}
  PROVE  Min({i \in 0..(t.capacity - 1) : t.keys[At(key, c, i)] \in {key, Vacant}}) = d
<1> DEFINE T == {i \in 0..(c - 1) : t.keys[At(key, c, i)] \in {key, Vacant}}
<1>1. t.capacity = c
  BY DEF Shape
<1>2. T \in SUBSET Nat /\ d \in T
  OBVIOUS
<1>3. \A y \in T : d <= y
  BY <1>1 DEF Passes
<1>4. Min(T) \in T /\ \A y \in T : Min(T) <= y
  <2> HIDE DEF T
  <2> QED BY <1>2, MinIs
<1>5. Min(T) = d
  BY <1>2, <1>3, <1>4
<1> QED BY <1>1, <1>5

(* trbn_hash_slot without its loop.                                          *)
LEMMA SlotIs ==
  ASSUME NEW c \in Nat, NEW t \in Shape(c), NEW key \in Words, NEW d \in 0..(c - 1), Passes(t, key, d),
         t.keys[At(key, c, d)] \in {key, Vacant},
         NEW tombs, tombs = {i \in 0..(d - 1) : t.keys[At(key, c, i)] = Tombstone}
  PROVE  /\ t.keys[At(key, c, d)] = key => Slot(t, key) = At(key, c, d)
         /\ t.keys[At(key, c, d)] # key =>
              Slot(t, key) = -1 - At(key, c, IF tombs = {} THEN d ELSE Min(tombs))
<1>1. t.capacity = c /\ c # 0
  BY DEF Shape
<1> DEFINE last == Min({i \in 0..(t.capacity - 1) : t.keys[At(key, c, i)] \in {key, Vacant}})
<1>2. last = d
  BY FirstStop
<1>3. Slot(t, key) =
        IF t.keys[At(key, c, last)] = key THEN At(key, c, last)
        ELSE -1 - At(key, c, IF {i \in 0..(last - 1) : t.keys[At(key, c, i)] = Tombstone} = {} THEN last
                             ELSE Min({i \in 0..(last - 1) : t.keys[At(key, c, i)] = Tombstone}))
  BY <1>1, Zenon DEF Slot, At
<1> HIDE DEF last
<1> QED BY <1>2, <1>3

LEMMA SlotReached ==
  ASSUME NEW c \in Nat, NEW t \in Shape(c), NEW key \in Words, NEW d, Reaches(t, key, d)
  PROVE  Slot(t, key) = At(key, c, d) /\ Slot(t, key) \in 0..(c - 1) /\ t.keys[Slot(t, key)] = key
<1>1. t.capacity = c /\ d \in 0..(c - 1) /\ Passes(t, key, d) /\ t.keys[At(key, c, d)] = key
  BY DEF Shape, Reaches
<1>2. Slot(t, key) = At(key, c, d)
  <2>1. t.keys[At(key, c, d)] \in {key, Vacant}
    BY <1>1
  <2>2. PICK tombs : tombs = {i \in 0..(d - 1) : t.keys[At(key, c, i)] = Tombstone}
    OBVIOUS
  <2> QED BY <1>1, <2>1, <2>2, SlotIs, SMTT(30)
<1>3. At(key, c, d) \in 0..(c - 1)
  BY <1>1, WordFacts, ProbeVisits
<1> QED BY <1>1, <1>2, <1>3

LEMMA SlotEnded ==
  ASSUME NEW c \in Nat, NEW t \in Shape(c), NEW key \in Words, NEW d, Ends(t, key, d)
  PROVE  \E f \in 0..d : /\ Slot(t, key) = -1 - At(key, c, f) /\ At(key, c, f) \in 0..(c - 1)
                         /\ t.keys[At(key, c, f)] \in {Vacant, Tombstone} /\ Passes(t, key, f)
<1>1. t.capacity = c /\ d \in 0..(c - 1) /\ Passes(t, key, d) /\ t.keys[At(key, c, d)] = Vacant
  BY DEF Shape, Ends
<1> DEFINE T == {i \in 0..(d - 1) : t.keys[At(key, c, i)] = Tombstone}
<1>2. Slot(t, key) = -1 - At(key, c, IF T = {} THEN d ELSE Min(T))
  <2>1. Vacant # key
    BY WordFacts
  <2>2. t.keys[At(key, c, d)] \in {key, Vacant} /\ t.keys[At(key, c, d)] # key
    BY <1>1, <2>1
  <2>3. PICK S : S = {i \in 0..(d - 1) : t.keys[At(key, c, i)] = Tombstone}
    OBVIOUS
  <2>5. Slot(t, key) = -1 - At(key, c, IF S = {} THEN d ELSE Min(S))
    BY <1>1, <2>2, <2>3, SlotIs, SMTT(30)
  <2> QED BY <2>3, <2>5, Zenon
<1>3. PICK f : f = IF T = {} THEN d ELSE Min(T)
  OBVIOUS
<1>4. f \in 0..d /\ t.keys[At(key, c, f)] \in {Vacant, Tombstone}
  <2>1. CASE T = {}
    BY <1>1, <1>3, <2>1
  <2>2. CASE T # {}
    <3>1. T \in SUBSET Nat
      OBVIOUS
    <3>2. Min(T) \in T
      <4> HIDE DEF T
      <4> QED BY <2>2, <3>1, MinIs
    <3>3. f \in T
      BY <1>3, <2>2, <3>2
    <3> QED BY <1>1, <3>3
  <2> QED BY <2>1, <2>2
<1>5. Passes(t, key, f)
  BY <1>1, <1>4 DEF Passes
<1>6. At(key, c, f) \in 0..(c - 1)
  BY <1>1, <1>4, WordFacts, ProbeVisits
<1> QED BY <1>2, <1>3, <1>4, <1>5, <1>6

(* A vacant slot ends every probe.                                           *)
LEMMA ProbeStops ==
  ASSUME NEW c \in Nat, NEW t \in Shape(c), NEW key \in Words, NEW i \in 0..(c - 1), t.keys[i] = Vacant
  PROVE  \E d : Reaches(t, key, d) \/ Ends(t, key, d)
<1>1. t.capacity = c /\ Code[key] \in Nat /\ c > 0
  BY WordFacts DEF Shape
<1> DEFINE T == {e \in 0..(c - 1) : t.keys[At(key, c, e)] \in {key, Vacant}}
<1>2. T \in SUBSET Nat /\ T # {}
  BY <1>1, ProbeVisits
<1>3. PICK d \in T : \A y \in T : d <= y
  <2> HIDE DEF T
  <2> QED BY <1>2, LeastNumber
<1>4. Passes(t, key, d)
  BY <1>1, <1>3 DEF Passes
<1> QED BY <1>1, <1>3, <1>4 DEF Reaches, Ends

Located(t) == \A i \in Slots(t) : \E d : Reaches(t, t.keys[i], d) /\ At(t.keys[i], t.capacity, d) = i
Tombs(t) == {i \in DOMAIN t.keys : t.keys[i] = Tombstone}
KeyWords(t) == {t.keys[i] : i \in Slots(t)}

(* A table between two calls.                                                *)
Well(t) ==
  /\ t.capacity \in Nat /\ t \in Shape(t.capacity)
  /\ Located(t)
  /\ t.count = Cardinality(Slots(t)) /\ t.tombs = Cardinality(Tombs(t))
  /\ \A i \in DOMAIN t.keys : t.values[i] = Cleared <=> i \notin Slots(t)
  /\ 4 * (t.count + t.tombs) <= 3 * t.capacity

LEMMA WellFacts ==
  ASSUME NEW t, Well(t)
  PROVE  /\ t.capacity \in Nat /\ t.count \in Nat /\ t.tombs \in Nat
         /\ t.keys \in [0..(t.capacity - 1) -> Words \cup {Vacant, Tombstone}]
         /\ t.values \in [0..(t.capacity - 1) -> Values \cup {Cleared}]
         /\ Slots(t) = {i \in 0..(t.capacity - 1) : t.keys[i] \in Words}
         /\ Slots(t) \subseteq 0..(t.capacity - 1) /\ KeyWords(t) \subseteq Words
         /\ \A i \in Slots(t) : t.keys[i] \in Words /\ t.values[i] \in Values
<1>1. t.capacity \in Nat /\ t \in Shape(t.capacity)
  BY DEF Well
<1>2. /\ t.count \in Nat /\ t.tombs \in Nat
      /\ t.keys \in [0..(t.capacity - 1) -> Words \cup {Vacant, Tombstone}]
      /\ t.values \in [0..(t.capacity - 1) -> Values \cup {Cleared}]
  BY <1>1 DEF Shape
<1>3. Slots(t) = {i \in 0..(t.capacity - 1) : t.keys[i] \in Words}
  BY <1>2, WordFacts DEF Slots
<1>4. \A i \in Slots(t) : t.values[i] \in Values
  BY <1>2, <1>3 DEF Well
<1> QED BY <1>1, <1>2, <1>3, <1>4 DEF KeyWords

LEMMA SlotOf ==
  ASSUME NEW t, Well(t)
  PROVE  /\ \A i \in Slots(t) : Slot(t, t.keys[i]) = i
         /\ \A i, j \in Slots(t) : t.keys[i] = t.keys[j] => i = j
<1>1. ASSUME NEW i \in Slots(t) PROVE Slot(t, t.keys[i]) = i
  <2>1. PICK d : Reaches(t, t.keys[i], d) /\ At(t.keys[i], t.capacity, d) = i
    BY DEF Well, Located
  <2>2. t.capacity \in Nat /\ t \in Shape(t.capacity) /\ t.keys[i] \in Words
    BY WellFacts DEF Well
  <2> QED BY <2>1, <2>2, SlotReached, Zenon
<1> QED BY <1>1

(* Three quarters at most are occupied.                                      *)
LEMMA SomeVacant ==
  ASSUME NEW t, Well(t), t.capacity > 0
  PROVE  \E i \in 0..(t.capacity - 1) : t.keys[i] = Vacant
<1> DEFINE c == t.capacity
<1>1. c \in Nat /\ DOMAIN t.keys = 0..(c - 1) /\ Slots(t) \subseteq 0..(c - 1) /\ Tombs(t) \subseteq 0..(c - 1)
  BY WellFacts DEF Tombs
<1>2. IsFiniteSet(0..(c - 1)) /\ Cardinality(0..(c - 1)) = c
  BY <1>1, FS_Interval
<1>3. IsFiniteSet(Slots(t)) /\ IsFiniteSet(Tombs(t))
  BY <1>1, <1>2, FS_Subset
<1>4. /\ Cardinality(Slots(t) \cup Tombs(t)) \in Nat
      /\ Cardinality(Slots(t) \cup Tombs(t)) <= Cardinality(Slots(t)) + Cardinality(Tombs(t))
  <2>1. IsFiniteSet(Slots(t) \cup Tombs(t)) /\ IsFiniteSet(Slots(t) \cap Tombs(t))
    BY <1>3, FS_Union, FS_Subset
  <2>2. Cardinality(Slots(t) \cup Tombs(t)) =
          Cardinality(Slots(t)) + Cardinality(Tombs(t)) - Cardinality(Slots(t) \cap Tombs(t))
    BY <1>3, FS_Union
  <2> QED BY <2>1, <2>2, <1>3, FS_CardinalityType
<1>5. Cardinality(Slots(t)) + Cardinality(Tombs(t)) < c
  BY WellFacts DEF Well
<1>6. Slots(t) \cup Tombs(t) # 0..(c - 1)
  <2> SUFFICES ASSUME Slots(t) \cup Tombs(t) = 0..(c - 1) PROVE FALSE
    OBVIOUS
  <2>1. Cardinality(Slots(t)) \in Nat /\ Cardinality(Tombs(t)) \in Nat
    BY <1>3, FS_CardinalityType
  <2>2. Cardinality(Slots(t) \cup Tombs(t)) = c
    BY <1>2
  <2> QED BY <2>1, <2>2, <1>1, <1>4, <1>5
<1>7. PICK i \in 0..(c - 1) : i \notin Slots(t) /\ i \notin Tombs(t)
  BY <1>1, <1>6
<1> QED BY <1>1, <1>7 DEF Slots, Tombs

(* A probe finds the slot of its key, or that there is none.                 *)
Opens(t, key, position, f) ==
  /\ f \in 0..(t.capacity - 1) /\ position = -1 - At(key, t.capacity, f)
  /\ At(key, t.capacity, f) \in 0..(t.capacity - 1)
  /\ t.keys[At(key, t.capacity, f)] \in {Vacant, Tombstone} /\ Passes(t, key, f)

LEMMA SlotCases ==
  ASSUME NEW t, Well(t), NEW key \in Words
  PROVE  \/ Slot(t, key) \in Slots(t) /\ Slot(t, key) >= 0 /\ t.keys[Slot(t, key)] = key
         \/ /\ Slot(t, key) \in Int /\ Slot(t, key) < 0 /\ key \notin KeyWords(t)
            /\ t.capacity > 0 => \E f : Opens(t, key, Slot(t, key), f)
<1>1. t.capacity \in Nat /\ t \in Shape(t.capacity) /\ Slots(t) = {i \in 0..(t.capacity - 1) : t.keys[i] \in Words}
  BY WellFacts DEF Well
<1>2. CASE t.capacity = 0
  <2>1. Slot(t, key) = -1
    BY <1>2 DEF Slot
  <2>2. Slots(t) = {}
    BY <1>1, <1>2
  <2> QED BY <2>1, <2>2, <1>2 DEF KeyWords
<1>3. CASE t.capacity # 0
  <2>1. PICK d : Reaches(t, key, d) \/ Ends(t, key, d)
    <3>1. PICK i \in 0..(t.capacity - 1) : t.keys[i] = Vacant
      BY <1>1, <1>3, SomeVacant
    <3> QED BY <3>1, <1>1, ProbeStops
  <2>2. CASE Reaches(t, key, d)
    <3>1. Slot(t, key) \in 0..(t.capacity - 1) /\ t.keys[Slot(t, key)] = key
      BY <2>2, <1>1, SlotReached
    <3> QED BY <3>1, <1>1
  <2>3. CASE Ends(t, key, d)
    <3>1. PICK f \in 0..d : Opens(t, key, Slot(t, key), f)
      <4>1. d \in 0..(t.capacity - 1)
        BY <2>3 DEF Ends
      <4> QED BY <2>3, <1>1, <4>1, SlotEnded DEF Opens
    <3>2. Slot(t, key) \in Int /\ Slot(t, key) < 0
      BY <3>1, <1>1 DEF Opens
    <3>3. key \notin KeyWords(t)
      <4> SUFFICES ASSUME NEW i \in Slots(t), t.keys[i] = key PROVE FALSE
        BY DEF KeyWords
      <4>1. PICK e : Reaches(t, key, e)
        BY DEF Well, Located
      <4>2. d \in 0..(t.capacity - 1) /\ e \in 0..(t.capacity - 1) /\ key # Vacant
        BY <2>3, <4>1, WordFacts DEF Reaches, Ends
      <4>3. CASE e < d
        <5>1. e \in 0..(d - 1)
          BY <4>2, <4>3, <1>1
        <5> QED BY <5>1, <4>1, <2>3 DEF Reaches, Ends, Passes
      <4>4. CASE d < e
        <5>1. d \in 0..(e - 1)
          BY <4>2, <4>4, <1>1
        <5> QED BY <5>1, <4>1, <2>3 DEF Reaches, Ends, Passes
      <4>5. CASE d = e
        BY <4>1, <4>2, <4>5, <2>3 DEF Reaches, Ends
      <4> QED BY <4>2, <4>3, <4>4, <4>5, <1>1
    <3> QED BY <3>1, <3>2, <3>3
  <2> QED BY <2>1, <2>2, <2>3
<1> QED BY <1>2, <1>3

(* The map a table holds.                                                    *)
LEMMA ContentIs ==
  ASSUME NEW t, Well(t)
  PROVE  /\ DOMAIN Content(t) = {Decode(t.keys[i]) : i \in Slots(t)}
         /\ \A i \in Slots(t) : Content(t)[Decode(t.keys[i])] = t.values[i]
         /\ DOMAIN Content(t) \subseteq Keys
<1> DEFINE D == {Decode(t.keys[i]) : i \in Slots(t)}
           g == [k \in D |-> t.values[CHOOSE i \in Slots(t) : Decode(t.keys[i]) = k]]
<1>1. Content(t) = g
  BY Zenon DEF Content
<1>2. \A i \in Slots(t) : t.keys[i] \in Words
  BY WellFacts
<1>3. ASSUME NEW i \in Slots(t) PROVE g[Decode(t.keys[i])] = t.values[i]
  <2>1. Decode(t.keys[i]) \in D
    OBVIOUS
  <2>2. PICK j : j = CHOOSE x \in Slots(t) : Decode(t.keys[x]) = Decode(t.keys[i])
    OBVIOUS
  <2>3. j \in Slots(t) /\ Decode(t.keys[j]) = Decode(t.keys[i])
    BY <2>2
  <2>4. t.keys[j] = t.keys[i]
    <3>1. Encode(Decode(t.keys[j])) = t.keys[j] /\ Encode(Decode(t.keys[i])) = t.keys[i]
      BY <1>2, <2>3, WordFacts
    <3> QED BY <2>3, <3>1
  <2>5. j = i
    BY <2>3, <2>4, SlotOf
  <2> QED BY <2>1, <2>2, <2>5
<1>4. D \subseteq Keys
  BY <1>2, WordFacts
<1> QED BY <1>1, <1>3, <1>4, Zenon

LEMMA ContentFunction ==
  ASSUME NEW t
  PROVE  Content(t) = [k \in DOMAIN Content(t) |-> Content(t)[k]]
BY DEF Content

(* A map with the entries of a table is its content.                         *)
Enumerates(t, D, m) ==
  /\ m = [k \in D |-> m[k]]
  /\ D = {Decode(t.keys[i]) : i \in Slots(t)} /\ \A i \in Slots(t) : m[Decode(t.keys[i])] = t.values[i]

LEMMA ContentEquals ==
  ASSUME NEW t, Well(t), NEW D, NEW m, Enumerates(t, D, m)
  PROVE  Content(t) = m
<1>1. DOMAIN Content(t) = D /\ \A i \in Slots(t) : Content(t)[Decode(t.keys[i])] = t.values[i]
  BY ContentIs DEF Enumerates
<1>2. Content(t) = [k \in D |-> Content(t)[k]]
  <2>1. Content(t) = [k \in DOMAIN Content(t) |-> Content(t)[k]]
    BY ContentFunction
  <2> QED BY <1>1, <2>1
<1>3. \A k \in D : Content(t)[k] = m[k]
  BY <1>1 DEF Enumerates
<1>4. m = [k \in D |-> m[k]]
  BY DEF Enumerates
<1> QED BY <1>2, <1>3, <1>4, Zenon

(* Without entries.                                                          *)
LEMMA FreshWell ==
  ASSUME NEW c \in Nat
  PROVE  /\ Well(Fresh(c)) /\ Fresh(c).capacity = c /\ Fresh(c).count = 0 /\ Fresh(c).tombs = 0
         /\ Slots(Fresh(c)) = {} /\ Content(Fresh(c)) = Maps!Empty
<1> DEFINE r == Fresh(c)
<1>1. /\ r.capacity = c /\ r.count = 0 /\ r.tombs = 0 /\ r.keys = [i \in 0..(c - 1) |-> Vacant]
      /\ r.values = [i \in 0..(c - 1) |-> Cleared] /\ r \in Shape(c)
  BY DEF Fresh, Shape
<1>2. Slots(r) = {} /\ Tombs(r) = {}
  BY <1>1 DEF Slots, Tombs, Vacant, Tombstone
<1>3. Cardinality({}) = 0
  BY FS_EmptySet
<1>4. Located(r)
  BY <1>2 DEF Located
<1>5. Well(r)
  <2> HIDE DEF r
  <2>1. 4 * (r.count + r.tombs) <= 3 * r.capacity
    BY <1>1
  <2>2. \A i \in DOMAIN r.keys : r.values[i] = Cleared <=> i \notin Slots(r)
    BY <1>1, <1>2
  <2> QED BY <1>1, <1>2, <1>3, <1>4, <2>1, <2>2, Zenon DEF Well
<1>6. Content(r) = Maps!Empty
  <2>1. Maps!Empty = [k \in {} |-> Maps!Empty[k]]
    BY DEF Maps!Empty
  <2> HIDE DEF r
  <2>2. Enumerates(r, {}, Maps!Empty)
    BY <1>2, <2>1 DEF Enumerates
  <2> QED BY <1>5, <2>2, ContentEquals
<1> QED BY <1>1, <1>2, <1>5, <1>6

(* Table r holds what t holds and the new value of a key.                    *)
Wrote(r, t, key, v) == Content(r) = Maps!Override(Content(t), [x \in {Decode(key)} |-> v])

(* The value at a slot is written.                                           *)
LEMMA Overwritten ==
  ASSUME NEW t, Well(t), NEW i \in Slots(t), NEW v \in Values, NEW r, r = [t EXCEPT !.values[i] = v]
  PROVE  /\ Well(r) /\ r.capacity = t.capacity /\ r.count = t.count /\ r.tombs = t.tombs
         /\ Wrote(r, t, t.keys[i], v)
<1> DEFINE c == t.capacity
           k == Decode(t.keys[i])
           m == Maps!Override(Content(t), [x \in {k} |-> v])
<1>1. c \in Nat /\ t \in Shape(c) /\ i \in 0..(c - 1)
  BY WellFacts DEF Well
<1>2. /\ r.capacity = c /\ r.count = t.count /\ r.tombs = t.tombs /\ r.keys = t.keys
      /\ r.values = [t.values EXCEPT ![i] = v] /\ r \in Shape(c)
  BY <1>1 DEF Shape
<1>3. Slots(r) = Slots(t) /\ Tombs(r) = Tombs(t)
  BY <1>2 DEF Slots, Tombs
<1>4. \A j \in 0..(c - 1) : r.values[j] = IF j = i THEN v ELSE t.values[j]
  BY <1>1, <1>2 DEF Shape
<1>5. Located(r)
  <2>1. Located(t)
    BY DEF Well
  <2> QED BY <1>2, <1>3, <2>1 DEF Located, Reaches, Passes
<1>6. Well(r)
  <2>1. \A j \in DOMAIN r.keys : r.values[j] = Cleared <=> j \notin Slots(r)
    <3>1. DOMAIN r.keys = 0..(c - 1)
      BY <1>2 DEF Shape
    <3> QED BY <3>1, <1>2, <1>3, <1>4, HashAssumption DEF Well
  <2>2. t.count = Cardinality(Slots(t)) /\ t.tombs = Cardinality(Tombs(t))
        /\ 4 * (t.count + t.tombs) <= 3 * t.capacity
    BY DEF Well
  <2> QED BY <1>1, <1>2, <1>3, <1>5, <2>1, <2>2, Zenon DEF Well
<1>7. Content(r) = m
  <2>1. /\ DOMAIN Content(t) = {Decode(t.keys[j]) : j \in Slots(t)}
        /\ \A j \in Slots(t) : Content(t)[Decode(t.keys[j])] = t.values[j]
    BY ContentIs
  <2>2. m = [x \in DOMAIN Content(t) \cup {k} |-> IF x \in {k} THEN v ELSE Content(t)[x]]
    BY DEF Maps!Override
  <2>3. DOMAIN Content(t) \cup {k} = {Decode(r.keys[j]) : j \in Slots(r)}
    BY <1>2, <1>3, <2>1
  <2>4. ASSUME NEW j \in Slots(r) PROVE m[Decode(r.keys[j])] = r.values[j]
    <3>1. CASE j = i
      BY <1>1, <1>2, <1>4, <2>2, <3>1
    <3>2. CASE j # i
      <4>1. t.keys[j] # t.keys[i] /\ t.keys[j] \in Words /\ t.keys[i] \in Words /\ j \in 0..(c - 1)
        BY <1>3, <3>2, SlotOf, WellFacts
      <4>2. Decode(t.keys[j]) # k
        BY <4>1, WordFacts
      <4>3. Decode(t.keys[j]) \in DOMAIN Content(t)
        BY <1>3, <2>1
      <4> QED BY <1>2, <1>3, <1>4, <2>1, <2>2, <3>2, <4>1, <4>2, <4>3
    <3> QED BY <3>1, <3>2
  <2>5. m = [x \in DOMAIN Content(t) \cup {k} |-> m[x]]
    BY <2>2
  <2>6. Enumerates(r, DOMAIN Content(t) \cup {k}, m)
    <3> HIDE DEF m, k
    <3> QED BY <2>3, <2>4, <2>5, Zenon DEF Enumerates
  <2> QED BY <1>6, <2>6, ContentEquals
<1> QED BY <1>2, <1>6, <1>7 DEF Wrote

(* What an insertion does to the arrays.                                     *)
LEMMA InsertIs ==
  ASSUME NEW t, Well(t), NEW key \in Words, NEW v \in Values, NEW p, NEW f, Opens(t, key, p, f),
         NEW r, r = InsertKey(t, key, v, p), NEW i, i = At(key, t.capacity, f)
  PROVE  /\ r.capacity = t.capacity /\ r.count = t.count + 1
         /\ r.tombs = IF t.keys[i] = Vacant THEN t.tombs ELSE t.tombs - 1
         /\ r.keys = [t.keys EXCEPT ![i] = key] /\ r.values = [t.values EXCEPT ![i] = v]
         /\ i \in 0..(t.capacity - 1) /\ i \notin Slots(t) /\ (t.keys[i] # Vacant => i \in Tombs(t))
         /\ (r.tombs \in Nat => r \in Shape(t.capacity))
<1> DEFINE c == t.capacity
<1>1. c \in Nat /\ t \in Shape(c)
  BY DEF Well
<1>2. i \in 0..(c - 1) /\ -1 - p = i /\ t.keys[i] \in {Vacant, Tombstone}
  BY <1>1 DEF Opens
<1>3. /\ r.capacity = c /\ r.count = t.count + 1 /\ r.tombs = (IF t.keys[i] = Vacant THEN t.tombs ELSE t.tombs - 1)
      /\ r.keys = [t.keys EXCEPT ![i] = key] /\ r.values = [t.values EXCEPT ![i] = v]
  <2>1. r = [t EXCEPT !.keys[i] = key, !.values[i] = v, !.count = @ + 1,
                      !.tombs = IF t.keys[i] = Vacant THEN @ ELSE @ - 1]
    BY <1>2, Zenon DEF InsertKey
  <2> QED BY <1>1, <2>1 DEF Shape
<1>4. i \notin Slots(t) /\ (t.keys[i] # Vacant => i \in Tombs(t))
  BY <1>1, <1>2 DEF Slots, Tombs, Shape
<1>5. r.tombs \in Nat => r \in Shape(c)
  <2>1. r = [capacity |-> r.capacity, count |-> r.count, tombs |-> r.tombs, keys |-> r.keys, values |-> r.values]
    <3>1. PICK n, x, y, z, w : t = [capacity |-> n, count |-> x, tombs |-> y, keys |-> z, values |-> w]
      BY <1>1 DEF Shape
    <3>2. r = [t EXCEPT !.keys[i] = key, !.values[i] = v, !.count = @ + 1,
                        !.tombs = IF t.keys[i] = Vacant THEN @ ELSE @ - 1]
      BY <1>2, Zenon DEF InsertKey
    <3>3. r = [capacity |-> n, count |-> x + 1, tombs |-> IF z[i] = Vacant THEN y ELSE y - 1,
               keys |-> [z EXCEPT ![i] = key], values |-> [w EXCEPT ![i] = v]]
      BY <3>1, <3>2
    <3> QED BY <3>3
  <2>2. r.keys \in [0..(c - 1) -> Words \cup {Vacant, Tombstone}] /\ r.values \in [0..(c - 1) -> Values \cup {Cleared}]
        /\ r.count \in Nat
    BY <1>1, <1>2, <1>3 DEF Shape
  <2> QED BY <1>1, <1>3, <2>1, <2>2 DEF Shape
<1> QED BY <1>2, <1>3, <1>4, <1>5

(* A key with no slot is inserted where its probe ended.                     *)
LEMMA KeyInserted ==
  ASSUME NEW t, Well(t), NEW key \in Words, key \notin KeyWords(t), NEW v \in Values,
         NEW p, NEW f, Opens(t, key, p, f), ~ Crowded(t), NEW r, r = InsertKey(t, key, v, p)
  PROVE  /\ Well(r) /\ r.capacity = t.capacity /\ r.count = t.count + 1 /\ (t.tombs = 0 => r.tombs = 0)
         /\ Wrote(r, t, key, v)
<1> DEFINE c == t.capacity
           k == Decode(key)
           m == Maps!Override(Content(t), [x \in {k} |-> v])
<1>1. c \in Nat /\ t \in Shape(c) /\ c > 0
  BY DEF Well, Opens
<1>2. PICK i : i = At(key, c, f)
  OBVIOUS
<1>3. /\ r.capacity = c /\ r.count = t.count + 1 /\ r.tombs = (IF t.keys[i] = Vacant THEN t.tombs ELSE t.tombs - 1)
      /\ r.keys = [t.keys EXCEPT ![i] = key] /\ r.values = [t.values EXCEPT ![i] = v]
      /\ i \in 0..(c - 1) /\ i \notin Slots(t) /\ (t.keys[i] # Vacant => i \in Tombs(t))
      /\ (r.tombs \in Nat => r \in Shape(c))
  BY <1>2, InsertIs
<1>4. /\ DOMAIN r.keys = 0..(c - 1) /\ DOMAIN t.keys = 0..(c - 1)
      /\ \A j \in 0..(c - 1) : r.keys[j] = (IF j = i THEN key ELSE t.keys[j])
                               /\ r.values[j] = IF j = i THEN v ELSE t.values[j]
  BY <1>1, <1>3 DEF Shape
<1>5. Slots(r) = Slots(t) \cup {i} /\ Tombs(r) = Tombs(t) \ {i}
  <2>1. key # Vacant /\ key # Tombstone
    BY WordFacts
  <2>2. Slots(t) = {j \in 0..(c - 1) : t.keys[j] \notin {Vacant, Tombstone}}
        /\ Slots(r) = {j \in 0..(c - 1) : r.keys[j] \notin {Vacant, Tombstone}}
    BY <1>4 DEF Slots
  <2>3. Tombs(t) = {j \in 0..(c - 1) : t.keys[j] = Tombstone}
        /\ Tombs(r) = {j \in 0..(c - 1) : r.keys[j] = Tombstone}
    BY <1>4 DEF Tombs
  <2> QED BY <1>3, <1>4, <2>1, <2>2, <2>3
<1>6. IsFiniteSet(Slots(t)) /\ IsFiniteSet(Tombs(t))
  <2>1. Slots(t) \subseteq 0..(c - 1) /\ Tombs(t) \subseteq 0..(c - 1)
    BY <1>4 DEF Slots, Tombs
  <2>2. IsFiniteSet(0..(c - 1))
    BY <1>1, FS_Interval
  <2> QED BY <2>1, <2>2, FS_Subset
<1>7. t.count = Cardinality(Slots(t)) /\ t.tombs = Cardinality(Tombs(t)) /\ t.count \in Nat /\ t.tombs \in Nat
      /\ 4 * (t.count + t.tombs) <= 3 * c
  BY WellFacts DEF Well
<1>8. r.count = Cardinality(Slots(r))
  <2>1. Cardinality(Slots(t) \cup {i}) = Cardinality(Slots(t)) + 1
    BY <1>3, <1>6, FS_AddElement
  <2> QED BY <1>3, <1>5, <1>7, <2>1
<1>9. r.tombs = Cardinality(Tombs(r)) /\ r.tombs \in Nat
  <2>1. CASE t.keys[i] = Vacant
    <3>1. i \notin Tombs(t)
      BY <2>1 DEF Tombs, Vacant, Tombstone
    <3>2. Tombs(r) = Tombs(t)
      BY <1>5, <3>1
    <3> QED BY <1>3, <1>7, <2>1, <3>2
  <2>2. CASE t.keys[i] # Vacant
    <3>1. i \in Tombs(t)
      BY <1>3, <2>2
    <3>2. Cardinality(Tombs(t) \ {i}) = Cardinality(Tombs(t)) - 1
      BY <1>6, <3>1, FS_RemoveElement
    <3>3. Cardinality(Tombs(r)) \in Nat
      BY <1>5, <1>6, FS_RemoveElement, FS_CardinalityType
    <3> QED BY <1>3, <1>5, <1>7, <2>2, <3>2, <3>3
  <2> QED BY <2>1, <2>2
<1>10. Located(r)
  <2> SUFFICES ASSUME NEW j \in Slots(r) PROVE \E d : Reaches(r, r.keys[j], d) /\ At(r.keys[j], r.capacity, d) = j
    BY DEF Located
  <2>1. CASE j = i
    <3>1. f \in 0..(c - 1) /\ Passes(t, key, f)
      BY DEF Opens
    <3>2. \A e \in 0..(f - 1) : At(key, c, e) # i /\ At(key, c, e) \in 0..(c - 1)
      <4>1. \A e \in 0..(f - 1) : e \in 0..(c - 1) /\ e # f
        BY <1>1, <3>1
      <4>2. Code[key] \in Nat
        BY WordFacts
      <4> QED BY <1>1, <1>2, <3>1, <4>1, <4>2, ProbeVisits
    <3>3. Passes(r, key, f)
      BY <1>3, <1>4, <3>1, <3>2 DEF Passes
    <3> QED BY <1>2, <1>3, <1>4, <2>1, <3>1, <3>3 DEF Reaches
  <2>2. CASE j # i
    <3>1. j \in Slots(t) /\ j \in 0..(c - 1) /\ r.keys[j] = t.keys[j] /\ t.keys[j] \in Words
      BY <1>4, <1>5, <2>2, WellFacts
    <3>2. PICK d : Reaches(t, t.keys[j], d) /\ At(t.keys[j], c, d) = j
      BY <3>1 DEF Well, Located
    <3>3. key # t.keys[j] /\ key # Vacant
      BY <3>1, WordFacts DEF KeyWords
    <3>4. \A e \in 0..(d - 1) : At(t.keys[j], c, e) \in 0..(c - 1)
      <4>1. d \in 0..(c - 1) /\ Code[t.keys[j]] \in Nat
        BY <3>1, <3>2, WordFacts DEF Reaches
      <4> QED BY <1>1, <4>1, ProbeVisits
    <3>5. Passes(r, t.keys[j], d)
      BY <1>3, <1>4, <3>2, <3>3, <3>4 DEF Passes, Reaches
    <3> QED BY <1>3, <3>1, <3>2, <3>5 DEF Reaches
  <2> QED BY <2>1, <2>2
<1>11. Well(r)
  <2>1. \A j \in DOMAIN r.keys : r.values[j] = Cleared <=> j \notin Slots(r)
    BY <1>4, <1>5, HashAssumption DEF Well
  <2>2. 4 * (r.count + r.tombs) <= 3 * r.capacity
    BY <1>1, <1>3, <1>7 DEF Crowded
  <2> QED BY <1>1, <1>3, <1>8, <1>9, <1>10, <2>1, <2>2, Zenon DEF Well
<1>12. Content(r) = m
  <2>1. /\ DOMAIN Content(t) = {Decode(t.keys[j]) : j \in Slots(t)}
        /\ \A j \in Slots(t) : Content(t)[Decode(t.keys[j])] = t.values[j]
    BY ContentIs
  <2>2. m = [x \in DOMAIN Content(t) \cup {k} |-> IF x \in {k} THEN v ELSE Content(t)[x]]
    BY DEF Maps!Override
  <2>3. \A j \in Slots(t) : j # i /\ j \in 0..(c - 1) /\ r.keys[j] = t.keys[j] /\ r.values[j] = t.values[j]
    BY <1>3, <1>4, WellFacts
  <2>4. DOMAIN Content(t) \cup {k} = {Decode(r.keys[j]) : j \in Slots(r)}
    BY <1>3, <1>4, <1>5, <2>1, <2>3
  <2>5. ASSUME NEW j \in Slots(r) PROVE m[Decode(r.keys[j])] = r.values[j]
    <3>1. CASE j = i
      BY <1>3, <1>4, <2>2, <3>1
    <3>2. CASE j # i
      <4>1. j \in Slots(t) /\ t.keys[j] # key /\ t.keys[j] \in Words
        BY <1>5, <3>2, WellFacts DEF KeyWords
      <4>2. Decode(t.keys[j]) # k
        BY <4>1, WordFacts
      <4>3. Decode(t.keys[j]) \in DOMAIN Content(t)
        BY <2>1, <4>1
      <4> QED BY <2>1, <2>2, <2>3, <4>1, <4>2, <4>3
    <3> QED BY <3>1, <3>2
  <2>6. m = [x \in DOMAIN Content(t) \cup {k} |-> m[x]]
    BY <2>2
  <2>7. Enumerates(r, DOMAIN Content(t) \cup {k}, m)
    <3> HIDE DEF m, k
    <3> QED BY <2>4, <2>5, <2>6, Zenon DEF Enumerates
  <2> QED BY <1>11, <2>7, ContentEquals
<1> QED BY <1>3, <1>7, <1>9, <1>11, <1>12 DEF Wrote

(* A put into a table with room.                                             *)
LEMMA PutRoom ==
  ASSUME NEW t, Well(t), ~ Crowded(t), NEW key \in Words, NEW v \in Values,
         NEW r, r = PutInRoom(t, key, v)
  PROVE  /\ Put(t, key, v) = r /\ Well(r) /\ r.capacity = t.capacity
         /\ r.count = IF key \in KeyWords(t) THEN t.count ELSE t.count + 1
         /\ t.tombs = 0 => r.tombs = 0
         /\ Wrote(r, t, key, v)
<1>1. Put(t, key, v) = r
  BY DEF Put, PutInRoom
<1>2. t.capacity \in Nat /\ t.capacity > 0
  <2>1. t.capacity \in Nat /\ t.count \in Nat /\ t.tombs \in Nat
    BY WellFacts
  <2> QED BY <2>1 DEF Crowded
<1>3. PICK p : p = Slot(t, key)
  OBVIOUS
<1>4. CASE p \in Slots(t) /\ p >= 0 /\ t.keys[p] = key
  <2>1. r = [t EXCEPT !.values[p] = v]
    BY <1>3, <1>4 DEF PutInRoom
  <2>2. key \in KeyWords(t)
    BY <1>4 DEF KeyWords
  <2>3. Well(r) /\ r.capacity = t.capacity /\ r.count = t.count /\ r.tombs = t.tombs /\ Wrote(r, t, t.keys[p], v)
    BY <1>4, <2>1, Overwritten
  <2> QED BY <1>1, <1>4, <2>2, <2>3
<1>5. CASE p \in Int /\ p < 0 /\ key \notin KeyWords(t)
  <2>1. r = InsertKey(t, key, v, p)
    BY <1>3, <1>5 DEF PutInRoom
  <2>2. PICK f : Opens(t, key, p, f)
    BY <1>2, <1>3, <1>5, SlotCases DEF KeyWords
  <2>3. /\ Well(r) /\ r.capacity = t.capacity /\ r.count = t.count + 1 /\ (t.tombs = 0 => r.tombs = 0)
        /\ Wrote(r, t, key, v)
    BY <1>5, <2>1, <2>2, KeyInserted
  <2> QED BY <1>1, <1>5, <2>3
<1> QED BY <1>3, <1>4, <1>5, SlotCases, Zenon

(* Copying, slot by slot.                                                    *)
Upto(s, n) == {i \in Slots(s) : i < n}
Prefix(s, n) == [k \in {Decode(s.keys[i]) : i \in Upto(s, n)} |-> Content(s)[k]]

Copies(r, s, c, n) ==
  Well(r) /\ r.capacity = c /\ r.tombs = 0 /\ r.count = Cardinality(Upto(s, n)) /\ Content(r) = Prefix(s, n)

LEMMA UptoFacts ==
  ASSUME NEW s, Well(s), NEW n \in Nat
  PROVE  /\ Upto(s, 0) = {} /\ Upto(s, s.capacity) = Slots(s)
         /\ n \notin Slots(s) => Upto(s, n + 1) = Upto(s, n)
         /\ n \in Slots(s) => Upto(s, n + 1) = Upto(s, n) \cup {n} /\ n \notin Upto(s, n)
         /\ IsFiniteSet(Upto(s, n)) /\ Cardinality(Upto(s, n)) \in Nat /\ Cardinality(Upto(s, n)) <= s.count
<1>1. Slots(s) \subseteq 0..(s.capacity - 1) /\ s.capacity \in Nat /\ s.count = Cardinality(Slots(s))
  BY WellFacts DEF Well
<1>2. IsFiniteSet(Slots(s))
  <2>1. IsFiniteSet(0..(s.capacity - 1))
    BY <1>1, FS_Interval
  <2> QED BY <1>1, <2>1, FS_Subset
<1>3. IsFiniteSet(Upto(s, n)) /\ Cardinality(Upto(s, n)) \in Nat /\ Cardinality(Upto(s, n)) <= s.count
  <2>1. Upto(s, n) \subseteq Slots(s)
    BY DEF Upto
  <2> QED BY <1>1, <1>2, <2>1, FS_Subset, FS_CardinalityType
<1>4. Upto(s, 0) = {} /\ Upto(s, s.capacity) = Slots(s)
  BY <1>1 DEF Upto
<1>5. n \notin Slots(s) => Upto(s, n + 1) = Upto(s, n)
  BY <1>1 DEF Upto
<1>6. n \in Slots(s) => Upto(s, n + 1) = Upto(s, n) \cup {n} /\ n \notin Upto(s, n)
  BY <1>1 DEF Upto
<1> QED BY <1>3, <1>4, <1>5, <1>6

(* The entry at slot n is put on top of those before it.                     *)
LEMMA PrefixGrows ==
  ASSUME NEW s, Well(s), NEW n \in Nat
  PROVE  /\ n \notin Slots(s) => Prefix(s, n + 1) = Prefix(s, n)
         /\ n \in Slots(s) => Prefix(s, n + 1) = Maps!Override(Prefix(s, n), [x \in {Decode(s.keys[n])} |-> s.values[n]])
         /\ Prefix(s, 0) = Maps!Empty /\ Prefix(s, s.capacity) = Content(s)
<1>1. n \notin Slots(s) => Prefix(s, n + 1) = Prefix(s, n)
  BY UptoFacts DEF Prefix
<1>2. ASSUME n \in Slots(s)
      PROVE  Prefix(s, n + 1) = Maps!Override(Prefix(s, n), [x \in {Decode(s.keys[n])} |-> s.values[n]])
  <2> DEFINE k == Decode(s.keys[n])
             D == {Decode(s.keys[i]) : i \in Upto(s, n)}
  <2>1. {Decode(s.keys[i]) : i \in Upto(s, n + 1)} = D \cup {k}
    BY <1>2, UptoFacts
  <2>2. Content(s)[k] = s.values[n]
    BY <1>2, ContentIs
  <2> HIDE DEF D, k
  <2>3. Prefix(s, n) = [x \in D |-> Content(s)[x]]
    BY DEF Prefix, D
  <2>4. Prefix(s, n + 1) = [x \in D \cup {k} |-> Content(s)[x]]
    BY <2>1 DEF Prefix
  <2>5. Maps!Override(Prefix(s, n), [x \in {k} |-> s.values[n]]) =
          [x \in D \cup {k} |-> IF x \in {k} THEN s.values[n] ELSE Content(s)[x]]
    BY <2>3 DEF Maps!Override
  <2> QED BY <2>2, <2>4, <2>5 DEF k
<1>3. Prefix(s, 0) = Maps!Empty
  <2>1. {Decode(s.keys[i]) : i \in Upto(s, 0)} = {}
    BY UptoFacts
  <2> QED BY <2>1 DEF Prefix, Maps!Empty
<1>4. Prefix(s, s.capacity) = Content(s)
  <2>1. {Decode(s.keys[i]) : i \in Upto(s, s.capacity)} = DOMAIN Content(s)
    BY UptoFacts, ContentIs
  <2>2. Content(s) = [k \in DOMAIN Content(s) |-> Content(s)[k]]
    BY ContentFunction
  <2> QED BY <2>1, <2>2 DEF Prefix
<1> QED BY <1>1, <1>2, <1>3, <1>4

LEMMA CopyStep ==
  ASSUME NEW s, Well(s), NEW c \in Nat, 4 * s.count <= 3 * c, NEW n \in Nat, NEW r, Copies(r, s, c, n)
  PROVE  /\ n \in Slots(s) => ~ Crowded(r)
         /\ Copies(IF n \notin Slots(s) THEN r ELSE PutInRoom(r, s.keys[n], s.values[n]), s, c, n + 1)
<1>1. CASE n \notin Slots(s)
  <2>1. Upto(s, n + 1) = Upto(s, n) /\ Prefix(s, n + 1) = Prefix(s, n)
    BY <1>1, UptoFacts, PrefixGrows
  <2> QED BY <1>1, <2>1 DEF Copies
<1>2. CASE n \in Slots(s)
  <2>1. PICK key \in Words, v \in Values : key = s.keys[n] /\ v = s.values[n]
    BY <1>2, WellFacts
  <2>2. Well(r) /\ r.capacity = c /\ r.tombs = 0 /\ r.count = Cardinality(Upto(s, n)) /\ Content(r) = Prefix(s, n)
    BY DEF Copies
  <2>3. Cardinality(Upto(s, n + 1)) = r.count + 1 /\ Cardinality(Upto(s, n + 1)) <= s.count
        /\ r.count \in Nat /\ s.count \in Nat
    <3>1. Upto(s, n + 1) = Upto(s, n) \cup {n} /\ n \notin Upto(s, n) /\ IsFiniteSet(Upto(s, n))
      BY <1>2, UptoFacts
    <3>2. Cardinality(Upto(s, n) \cup {n}) = Cardinality(Upto(s, n)) + 1
      BY <3>1, FS_AddElement
    <3>3. n + 1 \in Nat
      OBVIOUS
    <3>4. Cardinality(Upto(s, n + 1)) <= s.count
      BY <3>3, UptoFacts
    <3> QED BY <2>2, <3>1, <3>2, <3>4, WellFacts
  <2>4. ~ Crowded(r)
    BY <2>2, <2>3 DEF Crowded
  <2>5. key \notin KeyWords(r)
    <3> SUFFICES ASSUME NEW j \in Slots(r), r.keys[j] = key PROVE FALSE
      BY DEF KeyWords
    <3>1. Decode(key) \in DOMAIN Prefix(s, n)
      BY <2>2, ContentIs
    <3>2. PICK i \in Upto(s, n) : Decode(key) = Decode(s.keys[i])
      BY <3>1 DEF Prefix
    <3>3. i \in Slots(s) /\ i # n /\ s.keys[i] \in Words
      BY <3>2, WellFacts DEF Upto
    <3>4. s.keys[i] = s.keys[n]
      BY <2>1, <3>2, <3>3, WordFacts
    <3> QED BY <1>2, <3>3, <3>4, SlotOf
  <2>6. PICK o : o = PutInRoom(r, key, v)
    OBVIOUS
  <2>7. Well(o) /\ o.capacity = c /\ o.count = r.count + 1 /\ o.tombs = 0 /\ Wrote(o, r, key, v)
    BY <2>2, <2>4, <2>5, <2>6, PutRoom
  <2>8. Content(o) = Prefix(s, n + 1)
    <3>1. Prefix(s, n + 1) = Maps!Override(Prefix(s, n), [x \in {Decode(s.keys[n])} |-> s.values[n]])
      BY <1>2, PrefixGrows
    <3> QED BY <2>1, <2>2, <2>7, <3>1 DEF Wrote
  <2>9. Copies(o, s, c, n + 1)
    BY <2>3, <2>7, <2>8, Zenon DEF Copies
  <2> QED BY <1>2, <2>1, <2>4, <2>6, <2>9
<1> QED BY <1>1, <1>2

CopyIs(g, s, c, m) ==
  g = [n \in 0..m |-> IF n = 0 THEN Fresh(c)
                      ELSE IF NoEntry(s, n - 1) THEN g[n - 1]
                      ELSE PutInRoom(g[n - 1], s.keys[n - 1], s.values[n - 1])]

LEMMA CopyExists ==
  ASSUME NEW s, NEW c, NEW m \in Nat
  PROVE  \E g : CopyIs(g, s, c, m)
<1> DEFINE S == {k \in Nat : \E g : CopyIs(g, s, c, k)}
<1>1. 0 \in S
  <2>1. CopyIs([n \in 0..0 |-> Fresh(c)], s, c, 0)
    BY DEF CopyIs
  <2> QED BY <2>1
<1>2. ASSUME NEW k \in S PROVE k + 1 \in S
  <2>1. PICK g : CopyIs(g, s, c, k)
    OBVIOUS
  <2> DEFINE last == IF NoEntry(s, k) THEN g[k] ELSE PutInRoom(g[k], s.keys[k], s.values[k])
             f == [n \in 0..(k + 1) |-> IF n = k + 1 THEN last ELSE g[n]]
  <2>2. \A n \in 0..k : g[n] = IF n = 0 THEN Fresh(c) ELSE IF NoEntry(s, n - 1) THEN g[n - 1]
                               ELSE PutInRoom(g[n - 1], s.keys[n - 1], s.values[n - 1])
    BY <2>1 DEF CopyIs
  <2>3. \A n \in 0..(k + 1) : f[n] = IF n = 0 THEN Fresh(c) ELSE IF NoEntry(s, n - 1) THEN f[n - 1]
                                     ELSE PutInRoom(f[n - 1], s.keys[n - 1], s.values[n - 1])
    BY <2>2
  <2>4. CopyIs(f, s, c, k + 1)
    BY <2>3 DEF CopyIs
  <2> QED BY <2>4
<1>3. S \in SUBSET Nat
  OBVIOUS
<1>4. S = Nat
  <2> HIDE DEF S
  <2> QED BY <1>1, <1>2, <1>3, Numbers
<1> QED BY <1>4

LEMMA CopiedDef ==
  ASSUME NEW s, NEW c, s.capacity \in Nat
  PROVE  \E g : CopyIs(g, s, c, s.capacity) /\ Copied(s, c) = g[s.capacity]
<1> DEFINE g == CHOOSE g : g = [n \in 0..s.capacity |-> IF n = 0 THEN Fresh(c)
                             ELSE IF NoEntry(s, n - 1) THEN g[n - 1]
                             ELSE PutInRoom(g[n - 1], s.keys[n - 1], s.values[n - 1])]
<1>1. Copied(s, c) = g[s.capacity]
  BY DEF Copied
<1>2. \E f : f = [n \in 0..s.capacity |-> IF n = 0 THEN Fresh(c)
                    ELSE IF NoEntry(s, n - 1) THEN f[n - 1]
                    ELSE PutInRoom(f[n - 1], s.keys[n - 1], s.values[n - 1])]
  <2>1. PICK f : CopyIs(f, s, c, s.capacity)
    BY CopyExists
  <2> QED BY <2>1 DEF CopyIs
<1>3. CopyIs(g, s, c, s.capacity)
  BY <1>2 DEF CopyIs
<1> QED BY <1>1, <1>3

(* A copy with room for every entry has the same entries and no tombstones.  *)
LEMMA CopiedIs ==
  ASSUME NEW s, Well(s), NEW c \in Nat, 4 * s.count <= 3 * c, NEW r, r = Copied(s, c)
  PROVE  Well(r) /\ r.capacity = c /\ r.tombs = 0 /\ r.count = s.count /\ Content(r) = Content(s)
<1>1. s.capacity \in Nat /\ s.count \in Nat
  BY WellFacts
<1>2. PICK g : CopyIs(g, s, c, s.capacity) /\ r = g[s.capacity]
  BY <1>1, CopiedDef
<1>3. \A n \in 0..s.capacity : g[n] = IF n = 0 THEN Fresh(c) ELSE IF NoEntry(s, n - 1) THEN g[n - 1]
                               ELSE PutInRoom(g[n - 1], s.keys[n - 1], s.values[n - 1])
  BY <1>2 DEF CopyIs
<1> DEFINE S == {n \in Nat : n <= s.capacity => Copies(g[n], s, c, n)}
<1>4. 0 \in S
  <2>1. g[0] = Fresh(c)
    BY <1>1, <1>3
  <2>2. Upto(s, 0) = {} /\ Prefix(s, 0) = Maps!Empty /\ Cardinality({}) = 0
    BY UptoFacts, PrefixGrows, FS_EmptySet
  <2>3. Copies(g[0], s, c, 0)
    BY <2>1, <2>2, FreshWell DEF Copies
  <2> QED BY <2>3
<1>5. ASSUME NEW n \in S PROVE n + 1 \in S
  <2> SUFFICES ASSUME n + 1 <= s.capacity PROVE Copies(g[n + 1], s, c, n + 1)
    OBVIOUS
  <2>1. n \in Nat /\ Copies(g[n], s, c, n)
    BY <1>1
  <2>2. n \in Slots(s) <=> ~ NoEntry(s, n)
    BY <1>1, <2>1, WellFacts DEF Slots, NoEntry
  <2>3. g[n + 1] = IF n \notin Slots(s) THEN g[n] ELSE PutInRoom(g[n], s.keys[n], s.values[n])
    <3>1. n + 1 \in 0..s.capacity /\ n + 1 # 0 /\ (n + 1) - 1 = n
      BY <1>1, <2>1
    <3> QED BY <3>1, <1>3, <2>2
  <2> QED BY <2>1, <2>3, CopyStep
<1>6. S = Nat
  <2>1. S \in SUBSET Nat
    OBVIOUS
  <2> HIDE DEF S
  <2> QED BY <1>4, <1>5, <2>1, Numbers
<1>7. Copies(r, s, c, s.capacity)
  BY <1>1, <1>2, <1>6
<1>8. Upto(s, s.capacity) = Slots(s) /\ Prefix(s, s.capacity) = Content(s)
  BY <1>1, UptoFacts, PrefixGrows
<1> QED BY <1>7, <1>8 DEF Copies, Well

LEMMA RehashedIs ==
  ASSUME NEW s, Well(s), NEW c \in Nat, 4 * s.count <= 3 * c, NEW r, r = Rehashed(s, c)
  PROVE  Well(r) /\ r.capacity = c /\ r.tombs = 0 /\ r.count = s.count /\ Content(r) = Content(s)
<1>1. PICK o : o = Copied(s, c)
  OBVIOUS
<1>2. Well(o) /\ o.capacity = c /\ o.tombs = 0 /\ o.count = s.count /\ Content(o) = Content(s)
  BY <1>1, CopiedIs
<1>3. r = [o EXCEPT !.count = s.count, !.tombs = 0]
  BY <1>1 DEF Rehashed
<1>4. PICK n, x, y, z, w : o = [capacity |-> n, count |-> x, tombs |-> y, keys |-> z, values |-> w]
  BY <1>2 DEF Well, Shape
<1>5. r = o
  BY <1>2, <1>3, <1>4
<1> QED BY <1>2, <1>5

LEMMA OverwriteOrInsert ==
  ASSUME NEW t, Well(t), NEW key \in Words, NEW v \in Values, NEW r, r = Put(t, key, v)
  PROVE  Well(r) /\ Wrote(r, t, key, v)
<1>1. PICK p : p = Slot(t, key)
  OBVIOUS
<1>2. t.capacity \in Nat /\ t.count \in Nat /\ t.tombs \in Nat /\ 4 * (t.count + t.tombs) <= 3 * t.capacity
  BY WellFacts DEF Well
<1>3. CASE ~ Crowded(t)
  <2>1. Put(t, key, v) = PutInRoom(t, key, v)
    BY <1>3 DEF Put, PutInRoom
  <2> QED BY <1>3, <2>1, PutRoom
<1>4. CASE Crowded(t) /\ p \in Slots(t) /\ p >= 0 /\ t.keys[p] = key
  <2>1. r = [t EXCEPT !.values[p] = v]
    BY <1>1, <1>4 DEF Put
  <2>2. Well(r) /\ Wrote(r, t, t.keys[p], v)
    BY <1>4, <2>1, Overwritten
  <2> QED BY <1>4, <2>2
<1>5. CASE Crowded(t) /\ p \in Int /\ p < 0 /\ key \notin KeyWords(t)
  <2>1. PICK c : c = NewCapacity(t)
    OBVIOUS
  <2>2. c \in Nat /\ 4 * (t.count + 1) <= 3 * c
    BY <1>2, <2>1, HashAssumption DEF NewCapacity
  <2>3. PICK o : o = Rehashed(t, c)
    OBVIOUS
  <2>4. Well(o) /\ o.capacity = c /\ o.tombs = 0 /\ o.count = t.count /\ Content(o) = Content(t)
    BY <1>2, <2>2, <2>3, RehashedIs
  <2>5. ~ Crowded(o)
    BY <1>2, <2>2, <2>4 DEF Crowded
  <2>6. key \notin KeyWords(o)
    <3> SUFFICES ASSUME NEW j \in Slots(o), o.keys[j] = key PROVE FALSE
      BY DEF KeyWords
    <3>1. Decode(key) \in DOMAIN Content(t)
      BY <2>4, ContentIs
    <3>2. PICK i \in Slots(t) : Decode(key) = Decode(t.keys[i])
      <4>1. DOMAIN Content(t) = {Decode(t.keys[i]) : i \in Slots(t)}
        BY ContentIs
      <4> QED BY <3>1, <4>1
    <3>3. t.keys[i] = key
      BY <3>2, WordFacts, WellFacts
    <3> QED BY <1>5, <3>3 DEF KeyWords
  <2>7. Slot(o, key) \in Int /\ Slot(o, key) < 0
    BY <2>4, <2>6, SlotCases DEF KeyWords
  <2>8. r = PutInRoom(o, key, v)
    <3>1. ~ (p >= 0) /\ ~ (Slot(o, key) >= 0)
      BY <1>5, <2>7
    <3> QED BY <1>1, <1>5, <2>1, <2>3, <3>1 DEF Put, PutInRoom
  <2>9. Well(r) /\ Wrote(r, o, key, v)
    BY <2>4, <2>5, <2>8, PutRoom
  <2> QED BY <2>4, <2>9 DEF Wrote
<1> QED BY <1>1, <1>3, <1>4, <1>5, SlotCases, Zenon

(* Overriding is associative.                                                *)
LEMMA OverrideTwice ==
  ASSUME NEW f, NEW g, NEW h
  PROVE  Maps!Override(Maps!Override(f, g), h) = Maps!Override(f, Maps!Override(g, h))
<1> DEFINE D == DOMAIN f \cup DOMAIN g \cup DOMAIN h
           m == [k \in D |-> IF k \in DOMAIN h THEN h[k] ELSE IF k \in DOMAIN g THEN g[k] ELSE f[k]]
<1>1. Maps!Override(Maps!Override(f, g), h) = m
  <2>1. PICK o : o = Maps!Override(f, g)
    OBVIOUS
  <2>2. DOMAIN o = DOMAIN f \cup DOMAIN g
        /\ \A k \in DOMAIN f \cup DOMAIN g : o[k] = IF k \in DOMAIN g THEN g[k] ELSE f[k]
    BY <2>1 DEF Maps!Override
  <2> QED BY <2>1, <2>2 DEF Maps!Override
<1>2. Maps!Override(f, Maps!Override(g, h)) = m
  <2>1. PICK o : o = Maps!Override(g, h)
    OBVIOUS
  <2>2. DOMAIN o = DOMAIN g \cup DOMAIN h
        /\ \A k \in DOMAIN g \cup DOMAIN h : o[k] = IF k \in DOMAIN h THEN h[k] ELSE g[k]
    BY <2>1 DEF Maps!Override
  <2> QED BY <2>1, <2>2 DEF Maps!Override
<1> QED BY <1>1, <1>2

MergeIs(g, t, s, m) ==
  g = [n \in 0..m |-> IF n = 0 THEN t
                      ELSE IF NoEntry(s, n - 1) THEN g[n - 1]
                      ELSE Put(g[n - 1], s.keys[n - 1], s.values[n - 1])]

LEMMA MergeExists ==
  ASSUME NEW t, NEW s, NEW m \in Nat
  PROVE  \E g : MergeIs(g, t, s, m)
<1> DEFINE S == {k \in Nat : \E g : MergeIs(g, t, s, k)}
<1>1. 0 \in S
  <2>1. MergeIs([n \in 0..0 |-> t], t, s, 0)
    BY DEF MergeIs
  <2> QED BY <2>1
<1>2. ASSUME NEW k \in S PROVE k + 1 \in S
  <2>1. PICK g : MergeIs(g, t, s, k)
    OBVIOUS
  <2> DEFINE last == IF NoEntry(s, k) THEN g[k] ELSE Put(g[k], s.keys[k], s.values[k])
             f == [n \in 0..(k + 1) |-> IF n = k + 1 THEN last ELSE g[n]]
  <2>2. \A n \in 0..k : g[n] = IF n = 0 THEN t ELSE IF NoEntry(s, n - 1) THEN g[n - 1]
                               ELSE Put(g[n - 1], s.keys[n - 1], s.values[n - 1])
    BY <2>1 DEF MergeIs
  <2>3. \A n \in 0..(k + 1) : f[n] = IF n = 0 THEN t ELSE IF NoEntry(s, n - 1) THEN f[n - 1]
                                     ELSE Put(f[n - 1], s.keys[n - 1], s.values[n - 1])
    BY <2>2
  <2>4. MergeIs(f, t, s, k + 1)
    BY <2>3 DEF MergeIs
  <2> QED BY <2>4
<1>3. S \in SUBSET Nat
  OBVIOUS
<1>4. S = Nat
  <2> HIDE DEF S
  <2> QED BY <1>1, <1>2, <1>3, Numbers
<1> QED BY <1>4

LEMMA MergedDef ==
  ASSUME NEW t, NEW s, s.capacity \in Nat
  PROVE  \E g : MergeIs(g, t, s, s.capacity) /\ Merged(t, s) = g[s.capacity]
<1> DEFINE g == CHOOSE g : g = [n \in 0..s.capacity |-> IF n = 0 THEN t
                             ELSE IF NoEntry(s, n - 1) THEN g[n - 1]
                             ELSE Put(g[n - 1], s.keys[n - 1], s.values[n - 1])]
<1>1. Merged(t, s) = g[s.capacity]
  BY DEF Merged
<1>2. \E f : f = [n \in 0..s.capacity |-> IF n = 0 THEN t
                    ELSE IF NoEntry(s, n - 1) THEN f[n - 1]
                    ELSE Put(f[n - 1], s.keys[n - 1], s.values[n - 1])]
  <2>1. PICK f : MergeIs(f, t, s, s.capacity)
    BY MergeExists
  <2> QED BY <2>1 DEF MergeIs
<1>3. MergeIs(g, t, s, s.capacity)
  BY <1>2 DEF MergeIs
<1> QED BY <1>1, <1>3

(* update puts the entries of s on top of those of t.                        *)
LEMMA MergedIs ==
  ASSUME NEW t, Well(t), NEW s, Well(s), NEW r, r = Merged(t, s)
  PROVE  Well(r) /\ Content(r) = Maps!Override(Content(t), Content(s))
<1>1. s.capacity \in Nat
  BY WellFacts
<1>2. PICK g : MergeIs(g, t, s, s.capacity) /\ r = g[s.capacity]
  BY <1>1, MergedDef
<1>3. \A n \in 0..s.capacity : g[n] = IF n = 0 THEN t ELSE IF NoEntry(s, n - 1) THEN g[n - 1]
                               ELSE Put(g[n - 1], s.keys[n - 1], s.values[n - 1])
  BY <1>2 DEF MergeIs
<1> DEFINE Joins(n) == Well(g[n]) /\ Content(g[n]) = Maps!Override(Content(t), Prefix(s, n))
           S == {n \in Nat : n <= s.capacity => Joins(n)}
<1>4. 0 \in S
  <2>1. g[0] = t
    BY <1>1, <1>3
  <2>2. Prefix(s, 0) = Maps!Empty
    BY PrefixGrows
  <2>3. Maps!Override(Content(t), Maps!Empty) = Content(t)
    <3>1. DOMAIN Maps!Empty = {}
      BY DEF Maps!Empty
    <3>2. Content(t) = [k \in DOMAIN Content(t) |-> Content(t)[k]]
      BY ContentFunction
    <3> QED BY <3>1, <3>2 DEF Maps!Override
  <2> QED BY <2>1, <2>2, <2>3
<1>5. ASSUME NEW n \in S PROVE n + 1 \in S
  <2> SUFFICES ASSUME n + 1 <= s.capacity PROVE Joins(n + 1)
    OBVIOUS
  <2>1. n \in Nat /\ n \in 0..(s.capacity - 1) /\ Joins(n)
    BY <1>1
  <2>2. PICK o : o = g[n]
    OBVIOUS
  <2>3. Well(o) /\ Content(o) = Maps!Override(Content(t), Prefix(s, n))
    BY <2>1, <2>2
  <2>4. n \in Slots(s) <=> ~ NoEntry(s, n)
    BY <1>1, <2>1, WellFacts DEF Slots, NoEntry
  <2>5. PICK q : q = g[n + 1]
    OBVIOUS
  <2>6. q = IF NoEntry(s, n) THEN o ELSE Put(o, s.keys[n], s.values[n])
    <3>1. n + 1 \in 0..s.capacity /\ n + 1 # 0 /\ (n + 1) - 1 = n
      BY <1>1, <2>1
    <3> QED BY <3>1, <1>3, <2>2, <2>5
  <2>7. CASE n \notin Slots(s)
    BY <2>1, <2>3, <2>4, <2>5, <2>6, <2>7, PrefixGrows
  <2>8. CASE n \in Slots(s)
    <3>1. PICK key \in Words, v \in Values : key = s.keys[n] /\ v = s.values[n]
      BY <2>8, WellFacts
    <3>2. Well(q) /\ Wrote(q, o, key, v)
      BY <2>3, <2>4, <2>6, <2>8, <3>1, OverwriteOrInsert
    <3>3. PICK e : e = [x \in {Decode(key)} |-> v]
      OBVIOUS
    <3>4. Prefix(s, n + 1) = Maps!Override(Prefix(s, n), e)
      BY <2>1, <2>8, <3>1, <3>3, PrefixGrows
    <3>5. Content(q) = Maps!Override(Maps!Override(Content(t), Prefix(s, n)), e)
      BY <2>3, <3>2, <3>3 DEF Wrote
    <3> QED BY <2>5, <3>2, <3>4, <3>5, OverrideTwice
  <2> QED BY <2>7, <2>8
<1>6. S = Nat
  <2>1. S \in SUBSET Nat
    OBVIOUS
  <2> HIDE DEF S
  <2> QED BY <1>4, <1>5, <2>1, Numbers
<1>7. Joins(s.capacity)
  BY <1>1, <1>6
<1> QED BY <1>1, <1>2, <1>7, PrefixGrows

(* The key of a slot is deleted: its tombstone keeps other probes going.     *)
LEMMA Buried ==
  ASSUME NEW t, Well(t), NEW i \in Slots(t), NEW r,
         r = [t EXCEPT !.keys[i] = Tombstone, !.values[i] = Cleared, !.count = @ - 1, !.tombs = @ + 1]
  PROVE  /\ Well(r) /\ r.capacity = t.capacity /\ r.count = t.count - 1
         /\ Content(r) = Maps!Without(Content(t), Decode(t.keys[i]))
<1> DEFINE c == t.capacity
           k == Decode(t.keys[i])
           m == Maps!Without(Content(t), k)
<1>1. c \in Nat /\ t \in Shape(c) /\ i \in 0..(c - 1) /\ t.keys[i] \in Words
  BY WellFacts DEF Well
<1>2. t.count = Cardinality(Slots(t)) /\ t.tombs = Cardinality(Tombs(t)) /\ t.count \in Nat /\ t.tombs \in Nat
      /\ 4 * (t.count + t.tombs) <= 3 * c
  BY WellFacts DEF Well
<1>3. IsFiniteSet(Slots(t)) /\ IsFiniteSet(Tombs(t))
  <2>1. Slots(t) \subseteq 0..(c - 1) /\ Tombs(t) \subseteq 0..(c - 1)
    BY <1>1 DEF Slots, Tombs, Shape
  <2>2. IsFiniteSet(0..(c - 1))
    BY <1>1, FS_Interval
  <2> QED BY <2>1, <2>2, FS_Subset
<1>4. Cardinality(Slots(t) \ {i}) = t.count - 1 /\ Cardinality(Slots(t) \ {i}) \in Nat
  <2>1. IsFiniteSet(Slots(t) \ {i}) /\ Cardinality(Slots(t) \ {i}) = Cardinality(Slots(t)) - 1
    BY <1>3, FS_RemoveElement
  <2>2. Cardinality(Slots(t) \ {i}) \in Nat
    BY <2>1, FS_CardinalityType
  <2> QED BY <1>2, <2>1, <2>2
<1>5. i \notin Tombs(t)
  BY <1>1, WordFacts DEF Tombs
<1>6. Cardinality(Tombs(t) \cup {i}) = t.tombs + 1
  BY <1>2, <1>3, <1>5, FS_AddElement
<1>7. /\ r.capacity = c /\ r.count = t.count - 1 /\ r.tombs = t.tombs + 1
      /\ r.keys = [t.keys EXCEPT ![i] = Tombstone] /\ r.values = [t.values EXCEPT ![i] = Cleared]
  BY <1>1 DEF Shape
<1>8. r \in Shape(c)
  <2>1. PICK n, x, y, z, w : t = [capacity |-> n, count |-> x, tombs |-> y, keys |-> z, values |-> w]
    BY <1>1 DEF Shape
  <2>2. r = [capacity |-> n, count |-> x - 1, tombs |-> y + 1, keys |-> [z EXCEPT ![i] = Tombstone],
             values |-> [w EXCEPT ![i] = Cleared]]
    BY <2>1
  <2>3. r.keys \in [0..(c - 1) -> Words \cup {Vacant, Tombstone}]
        /\ r.values \in [0..(c - 1) -> Values \cup {Cleared}]
    BY <1>1, <1>7 DEF Shape
  <2>4. r.count \in Nat /\ r.tombs \in Nat /\ r.capacity \in {c}
    BY <1>2, <1>4, <1>7
  <2>5. r = [capacity |-> r.capacity, count |-> r.count, tombs |-> r.tombs, keys |-> r.keys, values |-> r.values]
    BY <2>2
  <2> HIDE DEF c
  <2> QED BY <2>3, <2>4, <2>5, Zenon DEF Shape
<1>9. /\ DOMAIN r.keys = 0..(c - 1) /\ DOMAIN t.keys = 0..(c - 1)
      /\ \A j \in 0..(c - 1) : r.keys[j] = (IF j = i THEN Tombstone ELSE t.keys[j])
                               /\ r.values[j] = IF j = i THEN Cleared ELSE t.values[j]
  BY <1>1, <1>7 DEF Shape
<1>10. Slots(r) = Slots(t) \ {i} /\ Tombs(r) = Tombs(t) \cup {i}
  <2>1. Slots(t) = {j \in 0..(c - 1) : t.keys[j] \notin {Vacant, Tombstone}}
        /\ Slots(r) = {j \in 0..(c - 1) : r.keys[j] \notin {Vacant, Tombstone}}
    BY <1>9 DEF Slots
  <2>2. Tombs(t) = {j \in 0..(c - 1) : t.keys[j] = Tombstone}
        /\ Tombs(r) = {j \in 0..(c - 1) : r.keys[j] = Tombstone}
    BY <1>9 DEF Tombs
  <2> QED BY <1>1, <1>9, <2>1, <2>2
<1>11. Located(r)
  <2> SUFFICES ASSUME NEW j \in Slots(r) PROVE \E d : Reaches(r, r.keys[j], d) /\ At(r.keys[j], r.capacity, d) = j
    BY DEF Located
  <2>1. j \in Slots(t) /\ j \in 0..(c - 1) /\ j # i /\ r.keys[j] = t.keys[j] /\ t.keys[j] \in Words
    BY <1>9, <1>10, WellFacts
  <2>2. PICK d : Reaches(t, t.keys[j], d) /\ At(t.keys[j], c, d) = j
    BY <2>1 DEF Well, Located
  <2>3. \A e \in 0..(d - 1) : At(t.keys[j], c, e) \in 0..(c - 1)
    <3>1. d \in 0..(c - 1) /\ Code[t.keys[j]] \in Nat
      BY <2>1, <2>2, WordFacts DEF Reaches
    <3> QED BY <1>1, <3>1, ProbeVisits
  <2>4. t.keys[j] # Tombstone /\ Vacant # Tombstone
    BY <2>1, WordFacts DEF Vacant, Tombstone
  <2>5. Passes(r, t.keys[j], d)
    BY <1>7, <1>9, <2>2, <2>3, <2>4 DEF Passes, Reaches
  <2> QED BY <1>7, <2>1, <2>2, <2>5 DEF Reaches
<1>12. Well(r)
  <2>1. \A j \in DOMAIN r.keys : r.values[j] = Cleared <=> j \notin Slots(r)
    BY <1>9, <1>10 DEF Well
  <2>2. 4 * (r.count + r.tombs) <= 3 * r.capacity
    BY <1>1, <1>2, <1>7
  <2>3. r.count = Cardinality(Slots(r)) /\ r.tombs = Cardinality(Tombs(r))
    BY <1>4, <1>6, <1>7, <1>10
  <2> QED BY <1>1, <1>7, <1>8, <1>11, <2>1, <2>2, <2>3, Zenon DEF Well
<1>13. Content(r) = m
  <2>1. /\ DOMAIN Content(t) = {Decode(t.keys[j]) : j \in Slots(t)}
        /\ \A j \in Slots(t) : Content(t)[Decode(t.keys[j])] = t.values[j]
    BY ContentIs
  <2>2. m = [x \in DOMAIN Content(t) \ {k} |-> Content(t)[x]]
    BY DEF Maps!Without
  <2>3. ASSUME NEW j \in Slots(r)
        PROVE  /\ j \in Slots(t) /\ r.keys[j] = t.keys[j] /\ r.values[j] = t.values[j]
               /\ Decode(t.keys[j]) # k
    <3>1. j \in Slots(t) /\ j # i /\ j \in 0..(c - 1) /\ t.keys[j] \in Words
      BY <1>10, WellFacts
    <3>2. t.keys[j] # t.keys[i]
      BY <3>1, SlotOf
    <3>3. Decode(t.keys[j]) # k
      BY <1>1, <3>1, <3>2, WordFacts
    <3> QED BY <1>9, <3>1, <3>3
  <2>4. DOMAIN Content(t) \ {k} = {Decode(r.keys[j]) : j \in Slots(r)}
    <3>1. ASSUME NEW x \in DOMAIN Content(t) \ {k} PROVE \E j \in Slots(r) : x = Decode(r.keys[j])
      <4>1. PICK j \in Slots(t) : x = Decode(t.keys[j])
        BY <2>1
      <4>2. j \in Slots(r)
        BY <1>10, <4>1
      <4> QED BY <2>3, <4>1, <4>2
    <3>2. ASSUME NEW j \in Slots(r) PROVE Decode(r.keys[j]) \in DOMAIN Content(t) \ {k}
      BY <2>1, <2>3
    <3> HIDE DEF k
    <3> QED BY <3>1, <3>2
  <2>5. \A j \in Slots(r) : m[Decode(r.keys[j])] = r.values[j]
    BY <2>1, <2>2, <2>3
  <2>6. m = [x \in DOMAIN Content(t) \ {k} |-> m[x]]
    BY <2>2
  <2>7. Enumerates(r, DOMAIN Content(t) \ {k}, m)
    <3> HIDE DEF m, k
    <3> QED BY <2>4, <2>5, <2>6, Zenon DEF Enumerates
  <2> QED BY <1>12, <2>7, ContentEquals
<1> QED BY <1>7, <1>12, <1>13

LEMMA NoEntries ==
  ASSUME NEW t, Well(t), t.count = 0
  PROVE  Content(t) = Maps!Empty
<1>1. Slots(t) \subseteq 0..(t.capacity - 1) /\ t.capacity \in Nat /\ Cardinality(Slots(t)) = 0
  BY WellFacts DEF Well
<1>2. Slots(t) = {}
  <2>1. IsFiniteSet(0..(t.capacity - 1))
    BY <1>1, FS_Interval
  <2>2. IsFiniteSet(Slots(t))
    BY <1>1, <2>1, FS_Subset
  <2> QED BY <1>1, <2>2, FS_EmptySet
<1>3. DOMAIN Content(t) = {}
  BY <1>2, ContentIs
<1>4. Content(t) = [k \in DOMAIN Content(t) |-> Content(t)[k]]
  BY ContentFunction
<1> QED BY <1>3, <1>4 DEF Maps!Empty

(* A table that shrinks has room for its entries.                            *)
LEMMA HalfHasRoom ==
  ASSUME NEW c \in Nat, NEW n \in Nat, n < c \div Sparse
  PROVE  4 * n <= 3 * (c \div 2)
<1>1. Sparse \in Nat /\ Sparse >= 3
  BY HashAssumption
<1>2. PICK q \in Nat : q = c \div Sparse /\ Sparse * q <= c
  <2>1. c % Sparse \in 0..(Sparse - 1) /\ c \div Sparse \in Nat /\ c = Sparse * (c \div Sparse) + (c % Sparse)
    BY <1>1, Remainder
  <2> QED BY <1>1, <2>1
<1>3. 3 * q <= Sparse * q
  BY <1>1, <1>2
<1>4. 3 * q <= c
  <2>1. PICK x \in Nat : x = Sparse * q
    BY <1>1, <1>2
  <2> QED BY <1>2, <1>3, <2>1
<1>5. c \div 2 \in Nat /\ 2 * (c \div 2) >= c - 1
  OBVIOUS
<1> QED BY <1>2, <1>4, <1>5

LEMMA DeletedIs ==
  ASSUME NEW t, Well(t), NEW i \in Slots(t), NEW r, r = Deleted(t, i)
  PROVE  Well(r) /\ Content(r) = Maps!Without(Content(t), Decode(t.keys[i]))
<1>1. PICK o : o = [t EXCEPT !.keys[i] = Tombstone, !.values[i] = Cleared, !.count = @ - 1, !.tombs = @ + 1]
  OBVIOUS
<1>2. Well(o) /\ Content(o) = Maps!Without(Content(t), Decode(t.keys[i]))
  BY <1>1, Buried, Zenon
<1>3. r = IF o.count = 0 THEN Fresh(0)
          ELSE IF o.capacity > Smallest /\ o.count < o.capacity \div Sparse THEN Rehashed(o, o.capacity \div 2)
          ELSE o
  BY <1>1 DEF Deleted
<1>4. CASE o.count = 0
  <2>1. Content(o) = Maps!Empty
    BY <1>2, <1>4, NoEntries
  <2>2. r = Fresh(0)
    BY <1>3, <1>4
  <2> QED BY <1>2, <2>1, <2>2, FreshWell
<1>5. CASE o.count # 0 /\ o.capacity > Smallest /\ o.count < o.capacity \div Sparse
  <2>1. PICK c : c = o.capacity \div 2
    OBVIOUS
  <2>2. o.capacity \in Nat /\ o.count \in Nat
    BY <1>2, WellFacts
  <2>3. c \in Nat /\ 4 * o.count <= 3 * c
    BY <1>5, <2>1, <2>2, HalfHasRoom
  <2>4. r = Rehashed(o, c)
    BY <1>3, <1>5, <2>1
  <2>5. Well(r) /\ Content(r) = Content(o)
    BY <1>2, <2>3, <2>4, RehashedIs
  <2> QED BY <1>2, <2>5
<1>6. CASE o.count # 0 /\ ~ (o.capacity > Smallest /\ o.count < o.capacity \div Sparse)
  BY <1>2, <1>3, <1>6
<1> QED BY <1>4, <1>5, <1>6

(* The capacities that are tried for a literal grow past any count.          *)
DoubledIs(g, n) == g = [i \in 0..n |-> IF i = 0 THEN Smallest ELSE 2 * g[i - 1]]

LEMMA DoubledExists ==
  ASSUME NEW n \in Nat
  PROVE  \E g : DoubledIs(g, n)
<1> DEFINE S == {k \in Nat : \E g : DoubledIs(g, k)}
<1>1. 0 \in S
  <2>1. DoubledIs([i \in 0..0 |-> Smallest], 0)
    BY DEF DoubledIs
  <2> QED BY <2>1
<1>2. ASSUME NEW k \in S PROVE k + 1 \in S
  <2>1. PICK g : DoubledIs(g, k)
    OBVIOUS
  <2> DEFINE f == [i \in 0..(k + 1) |-> IF i = k + 1 THEN 2 * g[k] ELSE g[i]]
  <2>2. \A i \in 0..k : g[i] = IF i = 0 THEN Smallest ELSE 2 * g[i - 1]
    BY <2>1 DEF DoubledIs
  <2>3. \A i \in 0..(k + 1) : f[i] = IF i = 0 THEN Smallest ELSE 2 * f[i - 1]
    BY <2>2
  <2>4. DoubledIs(f, k + 1)
    BY <2>3 DEF DoubledIs
  <2> QED BY <2>4
<1>3. S \in SUBSET Nat
  OBVIOUS
<1>4. S = Nat
  <2> HIDE DEF S
  <2> QED BY <1>1, <1>2, <1>3, Numbers
<1> QED BY <1>4

LEMMA CapacityIs ==
  ASSUME NEW n \in Nat
  PROVE  CapacityFor(n) \in Nat /\ n <= (CapacityFor(n) \div 4) * 3
<1>1. CASE n = 0
  BY <1>1 DEF CapacityFor
<1>2. CASE n # 0
  <2> DEFINE g == CHOOSE g : g = [i \in 0..n |-> IF i = 0 THEN Smallest ELSE 2 * g[i - 1]]
  <2>1. CapacityFor(n) = Min({c \in {g[i] : i \in 0..n} : n <= (c \div 4) * 3})
    BY <1>2 DEF CapacityFor
  <2>2. \E f : f = [i \in 0..n |-> IF i = 0 THEN Smallest ELSE 2 * f[i - 1]]
    <3>1. PICK f : DoubledIs(f, n)
      BY DoubledExists
    <3> QED BY <3>1 DEF DoubledIs
  <2>3. \A i \in 0..n : g[i] = IF i = 0 THEN Smallest ELSE 2 * g[i - 1]
    <3>1. DoubledIs(g, n)
      BY <2>2 DEF DoubledIs
    <3> HIDE DEF g
    <3> QED BY <3>1 DEF DoubledIs
  <2> HIDE DEF g
  <2> DEFINE S == {k \in Nat : k <= n => g[k] \in Nat /\ g[k] >= 2 * (k + 1)}
  <2>4. 0 \in S
    BY <2>3, HashAssumption
  <2>5. ASSUME NEW k \in S PROVE k + 1 \in S
    <3> SUFFICES ASSUME k + 1 <= n PROVE g[k + 1] \in Nat /\ g[k + 1] >= 2 * (k + 1 + 1)
      OBVIOUS
    <3>1. PICK x \in Nat : x = g[k] /\ x >= 2 * (k + 1)
      OBVIOUS
    <3>2. g[k + 1] = 2 * x
      <4>1. k + 1 \in 0..n /\ k + 1 # 0 /\ (k + 1) - 1 = k
        OBVIOUS
      <4> QED BY <2>3, <3>1, <4>1
    <3> QED BY <3>1, <3>2
  <2>6. S = Nat
    <3>1. S \in SUBSET Nat
      OBVIOUS
    <3> HIDE DEF S
    <3> QED BY <2>4, <2>5, <3>1, Numbers
  <2>7. \A k \in 0..n : g[k] \in Nat /\ g[k] >= 2 * (k + 1)
    BY <2>6
  <2> HIDE DEF S
  <2> DEFINE T == {c \in {g[i] : i \in 0..n} : n <= (c \div 4) * 3}
  <2>8. T \in SUBSET Nat
    BY <2>7
  <2>9. g[n] \in T
    <3>1. PICK x \in Nat : x = g[n] /\ x >= 2 * (n + 1)
      BY <2>7
    <3>2. n <= (x \div 4) * 3
      BY <1>2, <3>1
    <3> QED BY <3>1, <3>2
  <2>10. \A c \in T : n <= (c \div 4) * 3
    OBVIOUS
  <2> HIDE DEF T
  <2>11. Min(T) \in T
    BY <2>8, <2>9, MinIs
  <2> QED BY <2>1, <2>8, <2>10, <2>11 DEF T
<1> QED BY <1>1, <1>2

(* The tables of a program, and the slots it may use again.                  *)
HeldSound(h) ==
  h.table \in Tables /\ h.key \in Keys /\ h.slot >= 0 /\ h.slot = Slot(tables[h.table], Encode(h.key))

TablesInv ==
  /\ tables \in [Tables -> UNION {Shape(c) : c \in Nat}]
  /\ \A t \in Tables : Well(tables[t])
  /\ \A h \in held : HeldSound(h)

LEMMA TablesInvExact == TablesInv => SlotsExact
<1> SUFFICES ASSUME TablesInv PROVE SlotsExact
  OBVIOUS
<1>1. ASSUME NEW t \in Tables PROVE TableExact(tables[t])
  <2>1. Well(tables[t])
    BY DEF TablesInv
  <2> QED BY <2>1, SlotOf DEF TableExact, Well, Tombs
<1>2. HeldExact
  BY DEF HeldExact, TablesInv, HeldSound
<1> QED BY <1>1, <1>2 DEF SlotsExact

(* One variable gets another table.                                          *)
LEMMA Rewritten ==
  ASSUME TablesInv, NEW t \in Tables, NEW r, Well(r), tables' = [tables EXCEPT ![t] = r], held' = {}
  PROVE  TablesInv' /\ \A s \in Tables : tables'[s] = IF s = t THEN r ELSE tables[s]
<1>1. tables \in [Tables -> UNION {Shape(c) : c \in Nat}] /\ \A s \in Tables : Well(tables[s])
  BY DEF TablesInv
<1>2. r \in UNION {Shape(c) : c \in Nat}
  BY DEF Well
<1> HIDE DEF Shape
<1>3. tables' \in [Tables -> UNION {Shape(c) : c \in Nat}]
      /\ \A s \in Tables : tables'[s] = IF s = t THEN r ELSE tables[s]
  BY <1>1, <1>2
<1>4. \A s \in Tables : Well(tables'[s])
  BY <1>1, <1>3
<1> QED BY <1>3, <1>4 DEF TablesInv

(* A step of one table is a step of its map.                                 *)
LEMMA MapStep ==
  ASSUME NEW t \in Tables, NEW r, \A s \in Tables : tables'[s] = IF s = t THEN r ELSE tables[s],
         Content(r) \in Maps!Bound \cup Maps!Written(t) \cup Maps!Removed(t) \cup Maps!Joined(t)
  PROVE  Maps!Next
<1> DEFINE m == [s \in Tables |-> Content(tables[s])]
           n == [s \in Tables |-> Content(tables'[s])]
<1>1. n[t] = Content(r)
  OBVIOUS
<1>2. n = [m EXCEPT ![t] = n[t]]
  OBVIOUS
<1>3. n = [m EXCEPT ![t] = n[t]]
      /\ n[t] \in Maps!Bound \cup Maps!Written(t) \cup Maps!Removed(t) \cup Maps!Joined(t)
  BY <1>1, <1>2
<1> QED BY <1>3 DEF Maps!Next

LEMMA ProbedIs ==
  ASSUME TablesInv, NEW access, NEW t \in Tables, NEW k \in Keys
  PROVE  /\ Probed(access, t, k) = Slot(tables[t], Encode(k))
         /\ Reused(access, t, k) # {} => Slot(tables[t], Encode(k)) >= 0
<1>1. ASSUME NEW h \in Reused(access, t, k) PROVE h.slot = Slot(tables[t], Encode(k)) /\ h.slot >= 0
  BY DEF Reused, TablesInv, HeldSound
<1>2. CASE Reused(access, t, k) = {}
  BY <1>2 DEF Probed
<1>3. CASE Reused(access, t, k) # {}
  <2>1. PICK h : h = CHOOSE g \in Reused(access, t, k) : TRUE
    OBVIOUS
  <2>2. h \in Reused(access, t, k)
    BY <1>3, <2>1
  <2>3. Probed(access, t, k) = h.slot
    BY <1>3, <2>1 DEF Probed
  <2> QED BY <1>1, <2>2, <2>3
<1> QED BY <1>2, <1>3

(* An access that finds its key holds the slot.                              *)
LEMMA HoldKeeps ==
  ASSUME TablesInv, NEW access, NEW t \in Tables, NEW k \in Keys, NEW p,
         p = Slot(tables[t], Encode(k)), p >= 0, held' = Hold(access, t, k, p), UNCHANGED tables
  PROVE  TablesInv'
<1>1. \A h \in held' : h.table = t /\ h.key = k /\ h.slot = p
  BY DEF Hold
<1>2. \A h \in held' : HeldSound(h)'
  BY <1>1 DEF HeldSound
<1> QED BY <1>2 DEF TablesInv

LEMMA SetStep ==
  ASSUME TablesInv, NEW t \in Tables, NEW k \in Keys, NEW v \in Values, Set(t, k, v)
  PROVE  TablesInv' /\ Maps!Next
<1>1. Well(tables[t]) /\ Encode(k) \in Words /\ Decode(Encode(k)) = k
  BY WordFacts DEF TablesInv
<1>2. PICK r : r = IF Reused("get", t, k) = {} THEN Put(tables[t], Encode(k), v)
                   ELSE [tables[t] EXCEPT !.values[Probed("get", t, k)] = v]
  OBVIOUS
<1>3. tables' = [tables EXCEPT ![t] = r] /\ held' = {}
  BY <1>2 DEF Set, TablesInv
<1>4. Well(r) /\ Wrote(r, tables[t], Encode(k), v)
  <2>1. CASE Reused("get", t, k) = {}
    BY <1>1, <1>2, <2>1, OverwriteOrInsert
  <2>2. CASE Reused("get", t, k) # {}
    <3>1. PICK p : p = Slot(tables[t], Encode(k)) /\ p = Probed("get", t, k) /\ p >= 0
      BY <2>2, ProbedIs
    <3>2. PICK o : o = tables[t] /\ Well(o)
      BY <1>1
    <3>3. PICK key \in Words : key = Encode(k)
      BY <1>1
    <3>4. p \in Slots(o) /\ o.keys[p] = key
      <4>1. p = Slot(o, key) /\ p >= 0
        BY <3>1, <3>2, <3>3
      <4> QED BY <3>2, <4>1, SlotCases
    <3>5. r = [o EXCEPT !.values[p] = v]
      BY <1>2, <2>2, <3>1, <3>2
    <3>6. Well(r) /\ Wrote(r, o, o.keys[p], v)
      BY <3>2, <3>4, <3>5, Overwritten
    <3> QED BY <3>2, <3>3, <3>4, <3>6
  <2> QED BY <2>1, <2>2
<1>5. Content(r) \in Maps!Written(t)
  <2>1. Content(r) = Maps!Override(Content(tables[t]), [x \in {k} |-> v])
    BY <1>1, <1>4 DEF Wrote
  <2> DEFINE Over(j, w) == Maps!Override(Content(tables[t]), [x \in {j} |-> w])
  <2>2. Maps!Written(t) = {Over(j, w) : j \in Keys, w \in Values}
    BY DEF Maps!Written
  <2>3. Content(r) = Over(k, v)
    BY <2>1
  <2> HIDE DEF Over
  <2> QED BY <2>2, <2>3
<1>6. TablesInv' /\ \A s \in Tables : tables'[s] = IF s = t THEN r ELSE tables[s]
  BY <1>3, <1>4, Rewritten
<1> QED BY <1>5, <1>6, MapStep

LEMMA DeleteStep ==
  ASSUME TablesInv, NEW t \in Tables, NEW k \in Keys, Delete(t, k)
  PROVE  TablesInv' /\ Maps!Next
<1>1. Well(tables[t]) /\ Encode(k) \in Words /\ Decode(Encode(k)) = k
  BY WordFacts DEF TablesInv
<1>2. PICK o : o = tables[t]
  OBVIOUS
<1>3. PICK p : p = Slot(o, Encode(k))
  OBVIOUS
<1>4. p >= 0
  BY <1>2, <1>3 DEF Delete
<1>5. p \in Slots(o) /\ o.keys[p] = Encode(k)
  BY <1>1, <1>2, <1>3, <1>4, SlotCases
<1>6. PICK r : r = Deleted(o, p)
  OBVIOUS
<1>7. tables' = [tables EXCEPT ![t] = r] /\ held' = {}
  BY <1>2, <1>3, <1>6 DEF Delete, TablesInv
<1>8. Well(r) /\ Content(r) = Maps!Without(Content(o), k)
  BY <1>1, <1>2, <1>5, <1>6, DeletedIs
<1>9. Content(r) \in Maps!Removed(t)
  <2>1. k \in DOMAIN Content(o)
    <3>1. DOMAIN Content(o) = {Decode(o.keys[i]) : i \in Slots(o)}
      <4>1. Well(o)
        BY <1>1, <1>2
      <4> QED BY <4>1, ContentIs, Zenon
    <3> QED BY <1>1, <1>5, <3>1
  <2> QED BY <1>2, <1>8, <2>1 DEF Maps!Removed
<1>10. TablesInv' /\ \A s \in Tables : tables'[s] = IF s = t THEN r ELSE tables[s]
  BY <1>7, <1>8, Rewritten
<1> QED BY <1>9, <1>10, MapStep

LEMMA UpdateStep ==
  ASSUME TablesInv, NEW t \in Tables, NEW s \in Tables, Update(t, s)
  PROVE  TablesInv' /\ Maps!Next
<1>1. Well(tables[t]) /\ Well(tables[s])
  BY DEF TablesInv
<1>2. PICK r : r = Merged(tables[t], tables[s])
  OBVIOUS
<1>3. tables' = [tables EXCEPT ![t] = r] /\ held' = {}
  BY <1>2 DEF Update, TablesInv
<1>4. Well(r) /\ Content(r) = Maps!Override(Content(tables[t]), Content(tables[s]))
  BY <1>1, <1>2, MergedIs
<1>5. Content(r) \in Maps!Joined(t)
  BY <1>4 DEF Maps!Joined
<1>6. TablesInv' /\ \A x \in Tables : tables'[x] = IF x = t THEN r ELSE tables[x]
  BY <1>3, <1>4, Rewritten
<1> QED BY <1>5, <1>6, MapStep

LEMMA DupStep ==
  ASSUME TablesInv, NEW t \in Tables, NEW s \in Tables, Dup(t, s)
  PROVE  TablesInv' /\ Maps!Next
<1>1. PICK o : o = tables[s]
  OBVIOUS
<1>2. Well(o) /\ o.capacity \in Nat /\ 4 * o.count <= 3 * o.capacity
  <2>1. Well(o)
    BY <1>1 DEF TablesInv
  <2>2. o.capacity \in Nat /\ o.count \in Nat /\ o.tombs \in Nat /\ 4 * (o.count + o.tombs) <= 3 * o.capacity
    BY <2>1, WellFacts DEF Well
  <2> QED BY <2>1, <2>2
<1>3. PICK r : r = Copied(o, o.capacity)
  OBVIOUS
<1>4. tables' = [tables EXCEPT ![t] = r] /\ held' = {}
  BY <1>1, <1>3 DEF Dup
<1>5. Well(r) /\ Content(r) = Content(o)
  BY <1>2, <1>3, CopiedIs
<1>6. Content(r) \in Maps!Bound
  BY <1>1, <1>5 DEF Maps!Bound
<1>7. TablesInv' /\ \A x \in Tables : tables'[x] = IF x = t THEN r ELSE tables[x]
  BY <1>4, <1>5, Rewritten
<1> QED BY <1>6, <1>7, MapStep

LEMMA NewTableStep ==
  ASSUME TablesInv, NEW t \in Tables, NEW n \in 0..MaxEntries, NewTable(t, n)
  PROVE  TablesInv' /\ Maps!Next
<1>1. n \in Nat
  BY HashAssumption
<1>2. PICK c \in Nat : c = CapacityFor(n)
  BY <1>1, CapacityIs
<1>3. PICK r : r = Fresh(c)
  OBVIOUS
<1>4. tables' = [tables EXCEPT ![t] = r] /\ held' = {}
  BY <1>2, <1>3 DEF NewTable
<1>5. Well(r) /\ Content(r) = Maps!Empty
  BY <1>3, FreshWell
<1>6. Content(r) \in Maps!Bound
  BY <1>5 DEF Maps!Bound
<1>7. TablesInv' /\ \A x \in Tables : tables'[x] = IF x = t THEN r ELSE tables[x]
  BY <1>4, <1>5, Rewritten
<1> QED BY <1>6, <1>7, MapStep

TablesMap == [t \in Tables |-> Content(tables[t])]

LEMMA TablesStep == TablesInv /\ [TablesNext]_table_vars => TablesInv' /\ (Maps!Next \/ UNCHANGED TablesMap)
<1> SUFFICES ASSUME TablesInv, [TablesNext]_table_vars PROVE TablesInv' /\ (Maps!Next \/ UNCHANGED TablesMap)
  OBVIOUS
<1>1. ASSUME NEW t \in Tables, NEW k \in Keys, HasKey(t, k) PROVE TablesInv' /\ UNCHANGED TablesMap
  <2>1. TablesInv'
    BY <1>1, HoldKeeps DEF HasKey
  <2> QED BY <1>1, <2>1 DEF HasKey, TablesMap
<1>2. ASSUME NEW t \in Tables, NEW k \in Keys, Get(t, k) PROVE TablesInv' /\ UNCHANGED TablesMap
  <2>1. TablesInv'
    BY <1>2, ProbedIs, HoldKeeps DEF Get
  <2> QED BY <1>2, <2>1 DEF Get, TablesMap
<1>3. ASSUME Other PROVE TablesInv' /\ UNCHANGED TablesMap
  BY <1>3 DEF Other, TablesMap, TablesInv
<1>4. ASSUME UNCHANGED table_vars PROVE TablesInv' /\ UNCHANGED TablesMap
  BY <1>4 DEF table_vars, TablesMap, TablesInv, HeldSound
<1> QED BY <1>1, <1>2, <1>3, <1>4, SetStep, DeleteStep, UpdateStep, DupStep, NewTableStep DEF TablesNext

LEMMA TablesStart == TablesInit => TablesInv /\ Maps!Init
<1> SUFFICES ASSUME TablesInit PROVE TablesInv /\ Maps!Init
  OBVIOUS
<1>1. tables = [t \in Tables |-> Fresh(0)] /\ held = {}
  BY DEF TablesInit
<1>2. Well(Fresh(0)) /\ Content(Fresh(0)) = Maps!Empty /\ Fresh(0).capacity = 0
  BY FreshWell
<1>3. Fresh(0) \in UNION {Shape(c) : c \in Nat}
  BY <1>2 DEF Well
<1>4. TablesInv
  BY <1>1, <1>2, <1>3 DEF TablesInv
<1>5. Maps!Init
  BY <1>1, <1>2 DEF Maps!Init
<1> QED BY <1>4, <1>5

(* A probe always finds its key, counts are exact and a quarter of the slots *)
(* is vacant, whatever the hash codes, and no slot that an instruction of    *)
(* emit/hashes.trb may use again belongs to another key.                     *)
THEOREM SlotsAreExact == TablesSpec => []SlotsExact
<1>1. TablesInit => TablesInv
  BY TablesStart
<1>2. TablesInv /\ [TablesNext]_table_vars => TablesInv'
  BY TablesStep
<1> QED BY <1>1, <1>2, TablesInvExact, PTL DEF TablesSpec

(* The tables of hash_runtime.trb implement the finite maps of KeyedMaps.    *)
THEOREM MapsImplemented == TablesSpec => ImplementsMaps
<1>1. TablesInit => TablesInv /\ Maps!Init
  BY TablesStart
<1>2. TablesInv /\ [TablesNext]_table_vars => TablesInv' /\ (Maps!Next \/ UNCHANGED TablesMap)
  BY TablesStep
<1>3. TablesInv /\ [TablesNext]_table_vars => [Maps!Next]_TablesMap
  BY <1>2
<1>4. TablesInv /\ [TablesNext]_table_vars => TablesInv'
  BY <1>2
<1> QED BY <1>1, <1>3, <1>4, PTL DEF TablesSpec, ImplementsMaps, Maps!Spec, TablesMap
=============================================================================
