----------------------- MODULE NetworkTransportProofs -----------------------
(***************************************************************************)
(* Proofs about NetworkTransport, for any number of connections and any    *)
(* limits.  Everything a callback may rely on when it finds a connection   *)
(* in some state is in Sound, the local part of the inductive invariant:   *)
(* the record alone must tell which request is open and who owes a step.   *)
(***************************************************************************)
EXTENDS NetworkTransport, SequenceTheorems, FiniteSetTheorems, TLAPS

(* An interim answer is due or being sent: the body of the request follows.  *)
Interim(k) == ~k.closeAfter /\ k.headers /\ k.started /\ k.parser \in {"nobody", "body"}

(* The request is incomplete and what was saved of its input is replayed: a  *)
(* connection that net_parse may be called for.                              *)
Parsing(k) ==
  /\ k.state = "receiving" /\ k.status = "ok" /\ ~k.closeAfter
  /\ k.packet = "none" /\ k.pending = <<>> /\ k.parser \in {"idle", "nobody", "body"}
  /\ k.owed \in {0, 1} /\ (k.headers <=> k.owed = 1)
  /\ (k.parser = "idle" <=> ~k.headers) /\ (k.headers => k.started)

(* What a connection record in each of its states says of its request.       *)
Sound(k) ==
  /\ k.owed \in {0, 1} /\ Len(k.pending) <= PendingLimit
  /\ k.reading => k.state = "receiving"
  /\ k.packet # "none" => k.state \in {"writing", "closing"}
  /\ k.state = "none" => k = Fresh
  /\ k.state = "receiving" => Parsing(k) /\ k.parser # "nobody"
  /\ k.state \in {"ready", "handler"} => k.owed = 1 /\ (k.status = "interim" => Interim(k))
  /\ k.state = "writing" =>
       /\ k.packet # "none"
       /\ \/ k.closeAfter
          \/ k.status = "interim" /\ k.owed = 1 /\ Interim(k)
          \/ k.status = "ok" /\ k.owed = 0

NetworkInv ==
  ConnectionsExact /\ NoIdleAfterShutdown /\ \A c \in Conns : Sound(conn[c])

---------------------------------------------------------------------------
(* The operators on connection records.                                      *)

LEMMA NoInput == <<>> \in Seq(Tokens) /\ Len(<<>>) = 0
OBVIOUS

(* A connection that is being closed keeps what it owes and is not read.     *)
LEMMA ClosedIsSound ==
  ASSUME NEW k \in Connection, Sound(k), k.state # "none"
  PROVE  /\ Closed(k) \in Connection /\ Sound(Closed(k))
         /\ Closed(k).state = "closing"
<1>1. CASE k.state = "closing"
  BY <1>1 DEF Closed
<1>2. CASE k.state # "closing"
  <2> DEFINE q == [k EXCEPT !.state = "closing", !.reading = FALSE]
  <2>1. q \in Connection /\ Closed(k) = q /\ q.state = "closing"
    BY <1>2 DEF Connection, Closed
  <2>2. q.reading = FALSE /\ q.packet = k.packet /\ q.owed = k.owed /\ q.pending = k.pending
    BY DEF Connection
  <2>3. Sound(q)
    <3> HIDE DEF q
    <3> QED BY <2>1, <2>2 DEF Sound
  <2> QED BY <2>1, <2>3
<1> QED BY <1>1, <1>2

(* A set of numbers that is not empty has a least one: the first token that  *)
(* stops the parser, the first ready connection of the list.                 *)
LEMMA LeastExists ==
  ASSUME NEW S \in SUBSET Nat, S # {}
  PROVE  \E i \in S : \A j \in S : i <= j
<1> DEFINE R == OpToRel(<, Nat)
<1>1. IsWellFoundedOn(R, Nat)
  BY NatLessThanWellFounded
<1>2. R = {ss \in Nat \X Nat : ss[1] < ss[2]}
  BY DEF OpToRel
<1> HIDE DEF R
<1>3. PICK i \in S : \A j \in S : ~ (<<j, i>> \in R)
  BY <1>1, WFMin
<1>4. \A j \in S : i <= j
  <2> SUFFICES ASSUME NEW j \in S, j < i PROVE FALSE
    OBVIOUS
  <2>1. <<j, i>> \in Nat \X Nat
    OBVIOUS
  <2>2. <<j, i>> \in R
    BY <1>2, <2>1
  <2> QED BY <1>3, <2>2
<1> QED BY <1>4

(* llhttp pauses on a request that is complete so far, with rest unread.  A  *)
(* replay starts from an empty buffer, so the rest always fits.              *)
LEMMA PausedIsSound ==
  ASSUME NEW k \in Connection, k.state = "ready", k.pending = <<>>, k.packet = "none",
         k.owed = 1, k.status = "interim" => Interim(k),
         NEW rest \in Seq(Tokens), Len(rest) <= PendingLimit
  PROVE  /\ Paused(k, rest) \in Connection /\ Sound(Paused(k, rest))
         /\ Paused(k, rest).state = "ready"
<1>1. Paused(k, rest) = [k EXCEPT !.pending = rest, !.reading = FALSE]
  <2>1. Len(k.pending) + Len(rest) = Len(rest) /\ k.pending \o rest = rest
    OBVIOUS
  <2> QED BY <2>1, NetworkAssumption DEF Paused
<1> QED BY <1>1 DEF Connection, Sound, Interim

(* A failed parse leaves one request to answer, before which nothing of it   *)
(* was counted unless its headers were complete.                             *)
LEMMA FailedIsSound ==
  ASSUME NEW k \in Connection, k.packet = "none", Len(k.pending) <= PendingLimit,
         k.owed \in {0, 1}, k.headers <=> k.owed = 1, k.status # "interim"
  PROVE  /\ Failed(k) \in Connection /\ Sound(Failed(k))
         /\ Failed(k).state = "ready"
<1> DEFINE f == Failed(k)
<1>1. PICK st \in {"early", "late"} :
        f = [k EXCEPT !.status = st, !.owed = 1, !.state = "ready", !.closeAfter = TRUE,
                      !.reading = FALSE]
  <2>1. CASE k.headers
    BY <2>1 DEF Failed, Connection
  <2>2. CASE ~k.headers
    <3>1. k.owed + 1 = 1
      BY <2>2
    <3> QED BY <2>2, <3>1 DEF Failed
  <2> QED BY <2>1, <2>2
<1> HIDE DEF f
<1>2. f \in Connection
  <2>1. st \in {"ok", "interim", "late", "early"} /\ 1 \in Int
    OBVIOUS
  <2> QED BY <1>1, <2>1 DEF Connection
<1>3. /\ f.state = "ready" /\ f.packet = "none" /\ f.pending = k.pending
      /\ f.owed = 1 /\ f.reading = FALSE /\ f.status = st
  BY <1>1 DEF Connection
<1>4. Sound(f)
  BY <1>2, <1>3 DEF Sound
<1> QED BY <1>2, <1>3, <1>4 DEF f

(* net_parse on a chunk of input: the request stays incomplete, or it waits  *)
(* for a handler and the socket is not read.                                 *)
LEMMA ParsedIsSound ==
  ASSUME NEW k \in Connection, Parsing(k), NEW input \in Seq(Tokens),
         Len(input) <= PendingLimit, NEW keep \in BOOLEAN
  PROVE  /\ Parsed(k, input, keep) \in Connection /\ Sound(Parsed(k, input, keep))
         /\ Parsed(k, input, keep).state \in {"receiving", "ready"}
         /\ Parsed(k, input, keep).state = "receiving" /\ k.started
              => Parsed(k, input, keep).started
<1> DEFINE stops == {i \in DOMAIN input : input[i] # "part"}
           first == CHOOSE i \in stops : \A j \in stops : i <= j
           rest  == SubSeq(input, first + 1, Len(input))
           m     == MessageComplete(k, keep)
<1>1. /\ m \in Connection /\ m.state = "ready" /\ m.pending = <<>> /\ m.packet = "none"
      /\ k.headers => m.owed = 1
      /\ m.status # "interim"
  BY DEF MessageComplete, Connection, Parsing
<1>2. CASE k.parser = "nobody"
  <2>1. Parsed(k, input, keep) = Paused(m, input)
    BY <1>2 DEF Parsed
  <2>2. m.owed = 1
    BY <1>1, <1>2 DEF Parsing
  <2> QED BY <1>1, <2>1, <2>2, PausedIsSound
<1>3. CASE k.parser # "nobody" /\ stops = {}
  <2>1. Parsed(k, input, keep) = [k EXCEPT !.started = @ \/ input # <<>>]
    BY <1>3 DEF Parsed
  <2>2. \A b \in BOOLEAN :
          LET q == [k EXCEPT !.started = b]
          IN  /\ q \in Connection /\ q.state = "receiving" /\ q.pending = <<>>
              /\ q.packet = "none" /\ q.owed \in {0, 1} /\ q.started = b
              /\ q.parser # "nobody"
    BY <1>3 DEF Connection, Parsing
  <2>3. \A b \in BOOLEAN :
          LET q == [k EXCEPT !.started = b]
          IN  (k.started => b) => Parsing(q)
    BY DEF Connection, Parsing
  <2>4. PICK b \in BOOLEAN : Parsed(k, input, keep) = [k EXCEPT !.started = b] /\ (k.started => b)
    BY <2>1 DEF Connection
  <2> DEFINE q == [k EXCEPT !.started = b]
  <2>5. q \in Connection /\ q.started = b /\ Parsing(q) /\ q.parser # "nobody"
    BY <2>2, <2>3, <2>4
  <2> HIDE DEF q
  <2>6. Sound(q)
    <3>1. Len(q.pending) <= PendingLimit
      BY <2>5, NoInput, NetworkAssumption DEF Parsing
    <3> QED BY <2>5, <3>1 DEF Sound, Parsing
  <2> QED BY <2>4, <2>5, <2>6 DEF q, Parsing
<1>4. CASE k.parser # "nobody" /\ stops # {}
  <2>1. first \in DOMAIN input /\ first \in 1..Len(input)
    <3>1. \E i \in stops : \A j \in stops : i <= j
      <4>1. stops \subseteq Nat
        OBVIOUS
      <4> HIDE DEF stops
      <4> QED BY <1>4, <4>1, LeastExists
    <3>2. first \in stops
      <4> HIDE DEF stops
      <4> QED BY <3>1
    <3> QED BY <3>2
  <2>2. rest \in Seq(Tokens) /\ Len(rest) <= PendingLimit
    <3> HIDE DEF first
    <3>1. \A i \in first + 1..Len(input) : input[i] \in Tokens
      BY <2>1
    <3>2. rest \in Seq(Tokens) /\ Len(rest) = IF first + 1 <= Len(input) THEN Len(input) - (first + 1) + 1 ELSE 0
      BY <2>1, <3>1, SubSeqProperties
    <3> QED BY <2>1, <3>2, NetworkAssumption
  <2> HIDE DEF stops, first, rest
  <2>3. \A body \in {"nobody", "body"} : k.parser = "idle" =>
          LET h == HeadersComplete(k, body)
          IN  /\ h \in Connection /\ h.state = "ready" /\ h.pending = <<>>
              /\ h.packet = "none" /\ h.owed = 1 /\ Interim(h)
    <3> SUFFICES ASSUME NEW body \in {"nobody", "body"}, k.parser = "idle"
                 PROVE  LET h == HeadersComplete(k, body)
                        IN  /\ h \in Connection /\ h.state = "ready" /\ h.pending = <<>>
                            /\ h.packet = "none" /\ h.owed = 1 /\ Interim(h)
      OBVIOUS
    <3>1. k.owed = 0 /\ ~k.closeAfter
      BY DEF Parsing
    <3>2. HeadersComplete(k, body) =
            [k EXCEPT !.state = "ready", !.status = "interim", !.headers = TRUE,
                      !.started = TRUE, !.parser = body, !.owed = 1]
      BY <3>1 DEF HeadersComplete
    <3> DEFINE h == HeadersComplete(k, body)
    <3>3. h \in Connection
      <4>1. body \in {"idle", "nobody", "body", "done"} /\ 1 \in Int
        OBVIOUS
      <4> HIDE DEF h
      <4> QED BY <3>2, <4>1 DEF Connection, h
    <3>4. /\ h.state = "ready" /\ h.packet = "none" /\ h.owed = 1 /\ h.pending = <<>>
          /\ h.parser = body
      BY <3>2 DEF Connection, Parsing
    <3>5. h.closeAfter = k.closeAfter /\ h.headers /\ h.started
      BY <3>2 DEF Connection
    <3> HIDE DEF h
    <3>6. Interim(h)
      BY <3>1, <3>4, <3>5 DEF Interim
    <3> QED BY <3>3, <3>4, <3>6 DEF h
  <2>4. CASE k.parser = "idle" /\ input[first] \in {"get", "post"}
    <3>1. \E body \in {"nobody", "body"} :
            Parsed(k, input, keep) = Paused(HeadersComplete(k, body), rest)
      BY <1>4, <2>4 DEF Parsed, stops, first, rest
    <3> QED BY <2>2, <2>3, <2>4, <3>1, PausedIsSound
  <2>5. CASE k.parser = "body" /\ input[first] = "end"
    <3>1. Parsed(k, input, keep) = Paused(m, rest)
      BY <1>4, <2>5 DEF Parsed, stops, first, rest
    <3>2. m.owed = 1
      BY <1>1, <2>5 DEF Parsing
    <3> QED BY <1>1, <2>2, <3>1, <3>2, PausedIsSound
  <2>6. CASE k.parser = "body" /\ input[first] = "large"
    <3>1. Parsed(k, input, keep) = Failed([k EXCEPT !.status = "late"])
      BY <1>4, <2>6 DEF Parsed, stops, first, rest
    <3>2. LET l == [k EXCEPT !.status = "late"]
          IN  /\ l \in Connection /\ l.packet = "none" /\ Len(l.pending) <= PendingLimit
              /\ l.owed \in {0, 1} /\ (l.headers <=> l.owed = 1) /\ l.status # "interim"
      BY NetworkAssumption DEF Connection, Parsing
    <3> QED BY <3>1, <3>2, FailedIsSound
  <2>7. CASE ~ \/ k.parser = "idle" /\ input[first] \in {"get", "post"}
               \/ k.parser = "body" /\ input[first] \in {"end", "large"}
    <3>1. Parsed(k, input, keep) = Failed(k)
      BY <1>4, <2>7 DEF Parsed, stops, first, rest
    <3> QED BY <3>1, FailedIsSound, NetworkAssumption DEF Parsing, Connection
  <2> QED BY <2>4, <2>5, <2>6, <2>7
<1> QED BY <1>2, <1>3, <1>4

(* What Resumed and a finished response leave of a connection that shutdown  *)
(* does not close: it is read, waits for a handler, or could not be read.    *)
Continued(k, r) ==
  /\ r \in Connection /\ Sound(r) /\ r.state \in {"receiving", "ready", "closing"}
  /\ r.state = "receiving" /\ k.started => r.started

(* Saved input is parsed as if it had just arrived.                          *)
LEMMA ContinueReadIsSound ==
  ASSUME NEW k \in Connection, Parsing([k EXCEPT !.pending = <<>>]),
         Len(k.pending) <= PendingLimit, NEW keep \in BOOLEAN, NEW readable \in BOOLEAN
  PROVE  Continued(k, ContinueRead(k, keep, readable))
<1> DEFINE q == [k EXCEPT !.pending = <<>>]
           p == Parsed(q, k.pending, keep)
<1>1. q \in Connection /\ k.pending \in Seq(Tokens) /\ q.started = k.started
  BY NoInput DEF Connection
<1>2. /\ p \in Connection /\ Sound(p) /\ p.state \in {"receiving", "ready"}
      /\ p.state = "receiving" /\ k.started => p.started
  BY <1>1, ParsedIsSound
<1>3. ContinueRead(k, keep, readable) =
        IF p.state # "receiving" THEN p
        ELSE IF readable THEN [p EXCEPT !.reading = TRUE] ELSE Closed(p)
  BY DEF ContinueRead
<1> HIDE DEF p
<1>4. p.state = "receiving" =>
        LET r == [p EXCEPT !.reading = TRUE]
        IN  r \in Connection /\ Sound(r) /\ r.state = "receiving" /\ r.started = p.started
  BY <1>2 DEF Connection, Sound, Parsing, Fresh
<1>5. Closed(p) \in Connection /\ Sound(Closed(p)) /\ Closed(p).state = "closing"
  BY <1>2, ClosedIsSound
<1> QED BY <1>2, <1>3, <1>4, <1>5 DEF Continued

(* The next request of a connection starts from its saved input.             *)
LEMMA ResumedIsSound ==
  ASSUME NEW k \in Connection, Interim(k), k.owed = 1, k.packet = "none",
         Len(k.pending) <= PendingLimit, NEW keep \in BOOLEAN, NEW readable \in BOOLEAN
  PROVE  Continued(k, Resumed(k, keep, readable))
<1> DEFINE r == [k EXCEPT !.state = "receiving", !.status = "ok"]
<1>1. /\ r \in Connection /\ Parsing([r EXCEPT !.pending = <<>>])
      /\ Len(r.pending) <= PendingLimit /\ r.started = k.started
  BY DEF Connection, Interim, Parsing
<1>2. Continued(r, ContinueRead(r, keep, readable))
  BY <1>1, ContinueReadIsSound
<1> QED BY <1>1, <1>2 DEF Resumed, Continued

(* net_written on a connection whose packet was sent.                        *)
LEMMA WrittenIsSound ==
  ASSUME NEW k \in Connection, Sound(k), k.packet # "none", shutdown \in BOOLEAN,
         NEW failed \in BOOLEAN, NEW keep \in BOOLEAN, NEW readable \in BOOLEAN
  PROVE  LET w == Written(k, failed, keep, readable)
         IN  /\ w \in Connection /\ Sound(w) /\ w.state \in {"receiving", "ready", "closing"}
             /\ k.state = "closing" => w.state = "closing"
             /\ shutdown => ~Idle(w)
<1> DEFINE r == Released(k)
           w == Written(k, failed, keep, readable)
<1>1. /\ r \in Connection /\ r.packet = "none" /\ r.owed \in {0, 1}
      /\ Len(r.pending) <= PendingLimit /\ k.state \in {"writing", "closing"}
      /\ r.state = k.state /\ r.reading = FALSE
      /\ k.state = "writing" =>
            \/ r.closeAfter
            \/ r.status = "interim" /\ r.owed = 1 /\ Interim(r)
            \/ r.status = "ok" /\ r.owed = 0
  BY DEF Released, Connection, Sound, Interim
<1> HIDE DEF r
<1>2. CASE k.state = "closing"
  <2>1. w = r
    BY <1>2 DEF Written, r
  <2> QED BY <1>1, <1>2, <2>1 DEF Sound, Idle
<1>3. CASE k.state = "writing"
  <2>1. w = AfterWrite(r, failed \/ shutdown, keep, readable)
    BY <1>3 DEF Written, r
  <2>2. CASE r.closeAfter \/ (r.status # "interim" /\ (failed \/ shutdown \/ ~r.keep))
    <3>1. w = [r EXCEPT !.state = "closing", !.reading = FALSE]
      BY <1>1, <1>3, <2>1, <2>2 DEF AfterWrite, Closed
    <3> QED BY <1>1, <1>3, <3>1 DEF Sound, Connection, Idle
  <2>3. CASE ~r.closeAfter /\ r.status = "interim"
    <3>1. w = Resumed(r, keep, readable)
      BY <2>1, <2>3 DEF AfterWrite
    <3>2. Continued(r, w)
      BY <1>1, <1>3, <2>3, <3>1, ResumedIsSound
    <3> QED BY <1>1, <1>3, <2>3, <3>2 DEF Continued, Idle, Interim
  <2>4. CASE ~r.closeAfter /\ r.status # "interim" /\ ~(failed \/ shutdown \/ ~r.keep)
    <3> DEFINE n == NextRequest(r)
    <3>1. w = ContinueRead(n, keep, readable)
      BY <2>1, <2>4 DEF AfterWrite
    <3>2. n \in Connection /\ n.pending = r.pending
      BY <1>1 DEF NextRequest, Connection
    <3>3. r.owed = 0 /\ r.packet = "none" /\ ~r.closeAfter
      BY <1>1, <1>3, <2>4
    <3>4. Parsing([n EXCEPT !.pending = <<>>])
      BY <1>1, <3>3 DEF NextRequest, Connection, Parsing
    <3>5. Continued(n, w)
      BY <1>1, <3>1, <3>2, <3>4, ContinueReadIsSound
    <3> QED BY <1>3, <2>4, <3>5 DEF Continued
  <2> QED BY <2>2, <2>3, <2>4
<1> QED BY <1>1, <1>2, <1>3

(* trbn_network_write by the handler.                                        *)
LEMMA WriteIsSound ==
  ASSUME NEW k \in Connection, Sound(k), k.state = "handler",
         NEW answer \in Responses(k.status), NEW keep \in BOOLEAN, NEW readable \in BOOLEAN,
         NEW sendable \in BOOLEAN
  PROVE  LET w == Write(k, answer[1], answer[2], keep, readable, sendable)
         IN  /\ w \in Connection /\ Sound(w)
             /\ w.state \in {"receiving", "ready", "writing", "closing"} /\ ~Idle(w)
<1> DEFINE w == Write(k, answer[1], answer[2], keep, readable, sendable)
<1>1. /\ k.owed = 1 /\ k.packet = "none" /\ k.reading = FALSE /\ Len(k.pending) <= PendingLimit
      /\ k.status = "interim" => Interim(k)
  BY DEF Sound, Connection
<1>2. \/ answer[1] = "final" /\ (answer[2] = TRUE \/ k.status = "ok") /\ answer[2] \in BOOLEAN
      \/ answer[1] = "interim" /\ answer[2] = FALSE /\ k.status = "interim"
      \/ answer[1] = "empty" /\ k.status = "interim"
  <2>1. CASE k.status = "interim"
    <3>1. answer \in {<<"final", TRUE>>, <<"interim", FALSE>>, <<"empty", FALSE>>}
      BY <2>1 DEF Responses
    <3>2. CASE answer = <<"final", TRUE>>
      <4>1. answer[1] = "final"
        BY <3>2
      <4>2. answer[2] = TRUE
        BY <3>2
      <4> QED BY <4>1, <4>2
    <3>3. CASE answer = <<"interim", FALSE>>
      <4>1. answer[1] = "interim"
        BY <3>3
      <4>2. answer[2] = FALSE
        BY <3>3
      <4> QED BY <2>1, <4>1, <4>2
    <3>4. CASE answer = <<"empty", FALSE>>
      <4>1. answer[1] = "empty"
        BY <3>4
      <4> QED BY <2>1, <4>1
    <3> QED BY <3>1, <3>2, <3>3, <3>4
  <2>2. CASE k.status = "ok"
    <3>1. answer \in {"final"} \X BOOLEAN
      BY <2>2 DEF Responses
    <3> QED BY <2>2, <3>1
  <2>3. CASE k.status \notin {"interim", "ok"}
    <3>1. answer \in {<<"final", TRUE>>}
      BY <2>3 DEF Responses
    <3>2. answer = <<"final", TRUE>>
      BY <3>1
    <3>3. answer[1] = "final"
      BY <3>2
    <3>4. answer[2] = TRUE
      BY <3>2
    <3> QED BY <3>3, <3>4
  <2> QED BY <2>1, <2>2, <2>3
<1>3. CASE answer[1] = "empty"
  <2>1. w = Resumed(k, keep, readable)
    BY <1>3 DEF Write
  <2>2. Continued(k, w) /\ k.started
    BY <1>1, <1>2, <1>3, <2>1, ResumedIsSound DEF Interim
  <2> QED BY <2>2 DEF Continued, Idle
<1>4. CASE answer[1] # "empty" /\ ~sendable
  <2>1. w = Closed(k)
    BY <1>4 DEF Write
  <2> QED BY <2>1, ClosedIsSound DEF Idle
<1>5. CASE answer[1] # "empty" /\ sendable
  <2>1. w = [k EXCEPT !.closeAfter = @ \/ answer[2], !.state = "writing", !.packet = answer[1],
                      !.owed = IF answer[1] = "final" THEN @ - 1 ELSE @]
    BY <1>5 DEF Write
  <2>2. PICK ca \in BOOLEAN :
          w = [k EXCEPT !.closeAfter = ca, !.state = "writing", !.packet = answer[1],
                        !.owed = IF answer[1] = "final" THEN 0 ELSE 1]
            /\ (answer[2] = TRUE => ca) /\ (k.closeAfter = FALSE /\ answer[2] = FALSE => ~ca)
    <3>1. answer[2] \in BOOLEAN /\ k.closeAfter \in BOOLEAN /\ k.owed - 1 = 0
      <4>1. k.owed - 1 = 0
        BY <1>1
      <4> QED BY <1>2, <1>5, <4>1 DEF Connection
    <3>2. (k.closeAfter \/ answer[2]) \in BOOLEAN
      OBVIOUS
    <3>3. \A ca \in BOOLEAN : ca = (k.closeAfter \/ answer[2]) =>
             /\ (answer[2] = TRUE => ca)
             /\ (k.closeAfter = FALSE /\ answer[2] = FALSE => ~ca)
      BY <3>1
    <3>4. w = [k EXCEPT !.closeAfter = k.closeAfter \/ answer[2], !.state = "writing",
                        !.packet = answer[1], !.owed = IF answer[1] = "final" THEN 0 ELSE 1]
      BY <1>1, <2>1, <3>1
    <3> HIDE DEF w
    <3> QED BY <3>2, <3>3, <3>4
  <2> HIDE DEF w
  <2>3. /\ w \in Connection /\ w.state = "writing" /\ w.packet \in {"interim", "final"}
        /\ w.owed = IF answer[1] = "final" THEN 0 ELSE 1
    <3>1. /\ answer[1] \in {"none", "interim", "final"} /\ answer[1] # "none"
          /\ (IF answer[1] = "final" THEN 0 ELSE 1) \in Int
      BY <1>2, <1>5
    <3> QED BY <2>2, <3>1 DEF Connection
  <2>4. /\ w.reading = FALSE /\ w.pending = k.pending /\ w.status = k.status
        /\ w.closeAfter = ca /\ w.headers = k.headers /\ w.started = k.started
        /\ w.parser = k.parser
    BY <1>1, <2>2 DEF Connection
  <2>5. \/ w.closeAfter
        \/ w.status = "interim" /\ w.owed = 1 /\ Interim(w)
        \/ w.status = "ok" /\ w.owed = 0
    <3>1. CASE answer[1] = "interim"
      <4>1. k.closeAfter = FALSE
        BY <1>1, <1>2, <3>1 DEF Interim, Connection
      <4> QED BY <1>1, <1>2, <2>2, <2>3, <2>4, <3>1, <4>1 DEF Interim
    <3>2. CASE answer[1] = "final"
      BY <1>2, <2>2, <2>3, <2>4, <3>2
    <3> QED BY <1>2, <1>5, <3>1, <3>2
  <2>6. Sound(w)
    BY <1>1, <2>3, <2>4, <2>5 DEF Sound
  <2> QED BY <2>3, <2>6 DEF Idle, w
<1> QED BY <1>3, <1>4, <1>5

---------------------------------------------------------------------------
(* The list of connections.                                                  *)

(* A new connection is linked at the front.                                  *)
LEMMA Linked ==
  ASSUME NEW s \in Seq(Conns), IsInjective(s), NEW c \in Conns, c \notin Range(s)
  PROVE  /\ <<c>> \o s \in Seq(Conns) /\ IsInjective(<<c>> \o s)
         /\ Range(<<c>> \o s) = Range(s) \cup {c} /\ Len(<<c>> \o s) = Len(s) + 1
<1> DEFINE t == <<c>> \o s
<1>1. t \in Seq(Conns) /\ Len(t) = Len(s) + 1 /\ DOMAIN t = 1..Len(s) + 1
  OBVIOUS
<1>2. \A i \in DOMAIN t : t[i] = IF i = 1 THEN c ELSE s[i - 1]
  OBVIOUS
<1>3. \A i \in DOMAIN t : i # 1 => i - 1 \in DOMAIN s
  BY <1>1
<1> HIDE DEF t
<1>4. IsInjective(t)
  BY <1>1, <1>2, <1>3 DEF IsInjective, Range
<1>5. Range(t) \subseteq Range(s) \cup {c}
  BY <1>1, <1>2, <1>3 DEF Range
<1>6. c \in Range(t)
  <2>1. 1 \in DOMAIN t
    BY <1>1
  <2> QED BY <1>2, <2>1 DEF Range
<1>7. ASSUME NEW x \in Range(s) PROVE x \in Range(t)
  <2>1. PICK i \in DOMAIN s : s[i] = x
    BY DEF Range
  <2>2. i + 1 \in DOMAIN t /\ i + 1 # 1 /\ (i + 1) - 1 = i
    BY <1>1
  <2>3. t[i + 1] = x
    BY <1>2, <2>1, <2>2
  <2> QED BY <2>2, <2>3 DEF Range
<1> QED BY <1>1, <1>4, <1>5, <1>6, <1>7 DEF t

(* A freed connection is the one record that leaves the list.                *)
LEMMA Unlinked ==
  ASSUME NEW s \in Seq(Conns), IsInjective(s), NEW c \in Range(s)
  PROVE  LET t == RemoveAt(s, CHOOSE i \in DOMAIN s : s[i] = c)
         IN  t \in Seq(Conns) /\ IsInjective(t) /\ Range(t) = Range(s) \ {c}
<1> DEFINE p == CHOOSE i \in DOMAIN s : s[i] = c
           a == SubSeq(s, 1, p - 1)
           b == SubSeq(s, p + 1, Len(s))
           t == a \o b
<1>1. p \in 1..Len(s) /\ s[p] = c
  BY DEF Range
<1> HIDE DEF p
<1>2. /\ a \in Seq(Conns) /\ Len(a) = p - 1
      /\ \A i \in 1..p - 1 : a[i] = s[i]
  <2>1. \A i \in 1..p - 1 : s[i] \in Conns
    BY <1>1
  <2>2. /\ a \in Seq(Conns) /\ Len(a) = IF 1 <= p - 1 THEN (p - 1) - 1 + 1 ELSE 0
        /\ \A i \in 1..(p - 1) - 1 + 1 : a[i] = s[1 + i - 1]
    BY <1>1, <2>1, SubSeqProperties
  <2> QED BY <1>1, <2>2
<1>3. /\ b \in Seq(Conns) /\ Len(b) = Len(s) - p
      /\ \A i \in 1..Len(s) - p : b[i] = s[p + i]
  <2>1. \A i \in p + 1..Len(s) : s[i] \in Conns
    BY <1>1
  <2>2. /\ b \in Seq(Conns) /\ Len(b) = IF p + 1 <= Len(s) THEN Len(s) - (p + 1) + 1 ELSE 0
        /\ \A i \in 1..Len(s) - (p + 1) + 1 : b[i] = s[(p + 1) + i - 1]
    BY <1>1, <2>1, SubSeqProperties
  <2> QED BY <1>1, <2>2
<1> HIDE DEF a, b
<1>4. t \in Seq(Conns) /\ Len(t) = Len(s) - 1 /\ DOMAIN t = 1..Len(s) - 1
  <2>1. t \in Seq(Conns) /\ Len(t) = Len(a) + Len(b)
    BY <1>2, <1>3, ConcatProperties
  <2>2. Len(t) = Len(s) - 1
    BY <1>1, <1>2, <1>3, <2>1
  <2> HIDE DEF t
  <2> QED BY <2>1, <2>2
<1>5. \A i \in DOMAIN t : t[i] = IF i < p THEN s[i] ELSE s[i + 1]
  <2> SUFFICES ASSUME NEW i \in 1..Len(s) - 1
               PROVE  t[i] = IF i < p THEN s[i] ELSE s[i + 1]
    BY <1>4
  <2>1. t[i] = IF i <= Len(a) THEN a[i] ELSE b[i - Len(a)]
    BY <1>1, <1>2, <1>3, ConcatProperties
  <2>2. CASE i < p
    BY <1>1, <1>2, <2>1, <2>2
  <2>3. CASE ~(i < p)
    <3>1. i - Len(a) \in 1..Len(s) - p /\ p + (i - Len(a)) = i + 1 /\ ~(i <= Len(a))
      BY <1>1, <1>2, <2>3
    <3> QED BY <1>3, <2>1, <2>3, <3>1
  <2> QED BY <2>2, <2>3
<1> HIDE DEF t
<1>6. \A i \in DOMAIN t :
        /\ i \in Int /\ i \in DOMAIN s /\ i + 1 \in DOMAIN s
  BY <1>1, <1>4
<1>7. IsInjective(t)
  <2> SUFFICES ASSUME NEW i \in DOMAIN t, NEW j \in DOMAIN t, t[i] = t[j] PROVE i = j
    BY DEF IsInjective
  <2>1. (IF i < p THEN i ELSE i + 1) = (IF j < p THEN j ELSE j + 1)
    BY <1>5, <1>6 DEF IsInjective
  <2> QED BY <1>1, <1>6, <2>1
<1>8. Range(t) \subseteq Range(s) \ {c}
  <2> SUFFICES ASSUME NEW i \in DOMAIN t PROVE t[i] \in Range(s) \ {c}
    BY DEF Range
  <2>1. p # IF i < p THEN i ELSE i + 1
    BY <1>1, <1>6
  <2> QED BY <1>1, <1>5, <1>6, <2>1 DEF IsInjective, Range
<1>9. ASSUME NEW x \in Range(s) \ {c} PROVE x \in Range(t)
  <2>1. PICK i \in DOMAIN s : s[i] = x
    BY DEF Range
  <2>2. i # p /\ i \in 1..Len(s)
    BY <1>1, <2>1
  <2>3. CASE i < p
    <3>1. i \in DOMAIN t
      BY <1>1, <1>4, <2>2, <2>3
    <3> QED BY <1>5, <2>1, <2>3, <3>1 DEF Range
  <2>4. CASE i > p
    <3>1. i - 1 \in DOMAIN t /\ ~(i - 1 < p) /\ (i - 1) + 1 = i
      BY <1>1, <1>4, <2>2, <2>4
    <3> QED BY <1>5, <2>1, <3>1 DEF Range
  <2> QED BY <1>1, <2>2, <2>3, <2>4
<1>10. RemoveAt(s, p) = t
  BY DEF RemoveAt, t, a, b
<1> QED BY <1>4, <1>7, <1>8, <1>9, <1>10 DEF p

(* The list is as long as the set of its connections is large.               *)
LEMMA ListCardinality ==
  ASSUME NEW s \in Seq(Conns)
  PROVE  IsFiniteSet(Range(s)) /\ Cardinality(Range(s)) <= Len(s)
<1>1. s \in Surjection(1..Len(s), Range(s))
  BY DEF Surjection, Range
<1>2. IsFiniteSet(1..Len(s)) /\ Cardinality(1..Len(s)) = Len(s)
  <2>1. Len(s) \in Nat /\ 1 \in Int
    OBVIOUS
  <2>2. /\ IsFiniteSet(1..Len(s))
        /\ Cardinality(1..Len(s)) = IF 1 > Len(s) THEN 0 ELSE Len(s) - 1 + 1
    BY <2>1, FS_Interval
  <2> QED BY <2>1, <2>2
<1> QED BY <1>1, <1>2, FS_Surjection

---------------------------------------------------------------------------
(* The steps.                                                                *)

LEMMA Initially == Init => NetworkInv
<1> SUFFICES ASSUME Init PROVE NetworkInv
  OBVIOUS
<1>1. Fresh \in Connection /\ Fresh.state = "none" /\ Sound(Fresh)
  BY NetworkAssumption, NoInput DEF Fresh, Connection, Sound, Parsing, Interim
<1>2. \A c \in Conns : conn[c] = Fresh
  BY DEF Init
<1>3. TypeOK
  <2>1. conn \in [Conns -> Connection] /\ {c \in Conns : conn[c].state # "none"} = {}
    BY <1>1, <1>2 DEF Init
  <2>2. list = <<>> /\ list \in Seq(Conns) /\ DOMAIN list = {}
    BY DEF Init
  <2>3. IsInjective(list) /\ Range(list) = {}
    BY <2>2 DEF IsInjective, Range
  <2> QED BY <2>1, <2>2, <2>3 DEF Init, TypeOK
<1>4. Open = {}
  BY <1>1, <1>2 DEF Open
<1>5. ConnectionLimit
  BY <1>4, FS_EmptySet, NetworkAssumption DEF ConnectionLimit
<1>6. OneHandler /\ NoIdleAfterShutdown
  BY <1>1, <1>2 DEF Init, OneHandler, NoIdleAfterShutdown, Idle
<1> QED BY <1>1, <1>2, <1>3, <1>5, <1>6 DEF NetworkInv, ConnectionsExact

(* A step that frees and accepts no connection and reopens none.             *)
LEMMA RecordsChange ==
  ASSUME NetworkInv, conn' \in [Conns -> Connection], list' = list,
         \A c \in Conns :
           /\ Sound(conn'[c])
           /\ conn[c].state = "none" <=> conn'[c].state = "none"
           /\ conn[c].state = "closing" => conn'[c].state = "closing",
         shutdown' \in BOOLEAN, timer' \in {"off", "armed", "fired"},
         pc' \in {"scan", "poll", "handler", "stopped"},
         OneHandler', NoIdleAfterShutdown'
  PROVE  NetworkInv'
<1>1. TypeOK'
  BY DEF NetworkInv, ConnectionsExact, TypeOK
<1>2. Open' \subseteq Open /\ IsFiniteSet(Open)
  BY NetworkAssumption, FS_Subset DEF Open
<1>3. Cardinality(Open') <= Cardinality(Open) /\ Cardinality(Open') \in Nat /\ Cardinality(Open) \in Nat
  BY <1>2, FS_Subset, FS_CardinalityType
<1>4. ConnectionLimit'
  BY <1>3, NetworkAssumption DEF NetworkInv, ConnectionsExact, ConnectionLimit
<1> QED BY <1>1, <1>4 DEF NetworkInv, ConnectionsExact

(* The same for a callback or a handler that moves one connection.           *)
LEMMA RecordChange ==
  ASSUME NetworkInv, NEW c \in Conns, NEW k \in Connection, Update(c, k),
         Sound(k), conn[c].state # "none", k.state # "none",
         conn[c].state = "closing" => k.state = "closing",
         UNCHANGED <<list, shutdown, timer>>, pc' \in {"scan", "poll", "handler", "stopped"},
         OneHandler', shutdown => ~Idle(k)
  PROVE  NetworkInv'
<1>1. conn \in [Conns -> Connection] /\ shutdown \in BOOLEAN /\ timer \in {"off", "armed", "fired"}
  BY DEF NetworkInv, ConnectionsExact, TypeOK
<1>2. \A d \in Conns : conn'[d] = IF d = c THEN k ELSE conn[d]
  BY <1>1 DEF Update
<1>3. conn' \in [Conns -> Connection]
  BY <1>1 DEF Update
<1>4. \A d \in Conns :
        /\ Sound(conn'[d])
        /\ conn[d].state = "none" <=> conn'[d].state = "none"
        /\ conn[d].state = "closing" => conn'[d].state = "closing"
  BY <1>2 DEF NetworkInv
<1>5. NoIdleAfterShutdown'
  BY <1>2 DEF NetworkInv, NoIdleAfterShutdown, Idle
<1> QED BY <1>1, <1>3, <1>4, <1>5, RecordsChange

(* While callbacks run no connection is with a handler, and none gets there. *)
LEMMA NoHandler ==
  ASSUME OneHandler, Polling, UNCHANGED pc, NEW c \in Conns, NEW k, Update(c, k),
         conn \in [Conns -> Connection], k.state # "handler"
  PROVE  OneHandler'
BY DEF OneHandler, Polling, Update

(* A connection is accepted.                                                 *)
LEMMA AcceptKeeps ==
  ASSUME NetworkInv, NEW c \in Conns, Accept(c)
  PROVE  NetworkInv'
<1> DEFINE o == [Fresh EXCEPT !.state = "receiving"]
<1>1. /\ conn \in [Conns -> Connection] /\ list \in Seq(Conns) /\ IsInjective(list)
      /\ Range(list) = {d \in Conns : conn[d].state # "none"} /\ OneHandler
      /\ \A d \in Conns : Sound(conn[d])
  BY DEF NetworkInv, ConnectionsExact, TypeOK
<1>2. PICK k : /\ Update(c, k)
               /\ \/ k = Closed(o)
                  \/ k = [Fresh EXCEPT !.state = "receiving", !.reading = TRUE] /\ Len(list) + 1 <= MaxConnections
  BY NetworkAssumption, <1>1 DEF Accept
<1>3. k \in Connection /\ Sound(k) /\ k.state \in {"receiving", "closing"}
  <2> DEFINE p == [Fresh EXCEPT !.state = "receiving", !.reading = TRUE]
  <2>1. Fresh \in Connection /\ Fresh.pending = <<>>
    BY NoInput DEF Fresh, Connection
  <2>2. o \in Connection /\ p \in Connection
    BY <2>1 DEF Connection
  <2>3. \A q \in {o, p} : q.state = "receiving" /\ q.pending = <<>> /\ Parsing(q) /\ q.parser = "idle"
    <3>1. /\ o.state = "receiving" /\ o.pending = <<>> /\ o.parser = "idle" /\ o.status = "ok"
          /\ ~o.closeAfter /\ o.packet = "none" /\ o.owed = 0 /\ ~o.headers
      BY DEF Fresh
    <3>2. /\ p.state = "receiving" /\ p.pending = <<>> /\ p.parser = "idle" /\ p.status = "ok"
          /\ ~p.closeAfter /\ p.packet = "none" /\ p.owed = 0 /\ ~p.headers
      BY DEF Fresh
    <3> HIDE DEF o, p
    <3> QED BY <3>1, <3>2 DEF Parsing
  <2>4. Len(Fresh.pending) <= PendingLimit
    BY <2>1, NoInput, NetworkAssumption
  <2> HIDE DEF o, p
  <2>5. Sound(o) /\ Sound(p)
    BY <2>1, <2>3, <2>4 DEF Sound, Parsing
  <2>6. Closed(o) \in Connection /\ Sound(Closed(o)) /\ Closed(o).state = "closing"
    BY <2>2, <2>3, <2>5, ClosedIsSound
  <2> QED BY <1>2, <2>2, <2>3, <2>5, <2>6 DEF p
<1>4. /\ \A d \in Conns : conn'[d] = IF d = c THEN k ELSE conn[d]
      /\ conn' \in [Conns -> Connection]
  BY <1>1, <1>2, <1>3 DEF Update
<1>5. conn[c].state = "none"
  BY DEF Accept, Fresh
<1>6. /\ list' \in Seq(Conns) /\ IsInjective(list') /\ Range(list') = Range(list) \cup {c}
      /\ Len(list') = Len(list) + 1
  <2>1. c \notin Range(list)
    BY <1>1, <1>5
  <2> QED BY <1>1, <2>1, Linked DEF Accept
<1>7. TypeOK'
  <2>1. Range(list') = {d \in Conns : conn'[d].state # "none"}
    BY <1>1, <1>3, <1>4, <1>6
  <2> QED BY <1>4, <1>6, <2>1 DEF NetworkInv, ConnectionsExact, TypeOK, Accept
<1>8. OneHandler'
  BY <1>1, <1>2, <1>3, NoHandler DEF Accept
<1>9. ConnectionLimit'
  <2>1. CASE k = Closed(o)
    <3>1. k.state = "closing"
      BY <1>3, <2>1 DEF Closed, Fresh
    <3>2. Open' \subseteq Open /\ IsFiniteSet(Open)
      BY <1>4, <3>1, NetworkAssumption, FS_Subset DEF Open
    <3>3. Cardinality(Open') <= Cardinality(Open) /\ Cardinality(Open') \in Nat /\ Cardinality(Open) \in Nat
      BY <3>2, FS_Subset, FS_CardinalityType
    <3> QED BY <3>3, NetworkAssumption DEF NetworkInv, ConnectionsExact, ConnectionLimit
  <2>2. CASE Len(list) + 1 <= MaxConnections
    <3>1. Open' \subseteq Range(list')
      BY <1>7 DEF Open, TypeOK
    <3>2. IsFiniteSet(Range(list')) /\ Cardinality(Range(list')) <= Len(list')
      BY <1>6, ListCardinality
    <3>3. Cardinality(Open') <= Cardinality(Range(list')) /\ Cardinality(Open') \in Nat
            /\ Cardinality(Range(list')) \in Nat
      BY <3>1, <3>2, FS_Subset, FS_CardinalityType
    <3> QED BY <1>1, <1>6, <2>2, <3>2, <3>3, NetworkAssumption DEF ConnectionLimit
  <2> QED BY <1>2, <2>1, <2>2
<1>10. NoIdleAfterShutdown'
  BY DEF Accept, NoIdleAfterShutdown
<1> QED BY <1>1, <1>3, <1>4, <1>7, <1>8, <1>9, <1>10 DEF NetworkInv, ConnectionsExact

(* Input arrives, or the client goes away.                                   *)
LEMMA ReadKeeps ==
  ASSUME NetworkInv, NEW c \in Conns, Read(c) \/ ReadError(c)
  PROVE  NetworkInv'
<1> DEFINE k == conn[c]
<1>1. /\ conn \in [Conns -> Connection] /\ k \in Connection /\ Sound(k) /\ OneHandler
      /\ pc = "poll" /\ UNCHANGED <<list, shutdown, timer, pc>> /\ k.reading
  BY DEF NetworkInv, ConnectionsExact, TypeOK, Read, ReadError, Polling
<1>2. k.state = "receiving" /\ Parsing(k)
  BY <1>1 DEF Sound
<1>3. CASE Read(c)
  <2>0. PICK n \in 1..ReadSize : \E input \in [1..n -> Sent[c]], keep \in BOOLEAN :
          Update(c, Parsed(k, input, keep))
    BY <1>3 DEF Read
  <2>1. PICK input \in [1..n -> Sent[c]], keep \in BOOLEAN : Update(c, Parsed(k, input, keep))
    BY <2>0
  <2>2. input \in Seq(Tokens) /\ Len(input) <= PendingLimit
    <3>1. Sent[c] \subseteq Tokens
      BY NetworkAssumption
    <3> QED BY <3>1, NetworkAssumption
  <2> DEFINE q == Parsed(k, input, keep)
  <2>3. /\ q \in Connection /\ Sound(q) /\ q.state \in {"receiving", "ready"}
        /\ q.state = "receiving" /\ k.started => q.started
    BY <1>1, <1>2, <2>2, ParsedIsSound
  <2>4. shutdown => ~Idle(q)
    BY <1>2, <2>3 DEF NetworkInv, NoIdleAfterShutdown, Idle
  <2> HIDE DEF q
  <2>5. OneHandler'
    BY <1>1, <2>1, <2>3, NoHandler DEF Polling, q
  <2> QED BY <1>1, <1>2, <2>1, <2>3, <2>4, <2>5, RecordChange DEF q
<1>4. CASE ReadError(c)
  <2>1. Update(c, Closed(k))
    BY <1>4 DEF ReadError
  <2>2. Closed(k) \in Connection /\ Sound(Closed(k)) /\ Closed(k).state = "closing"
    BY <1>1, <1>2, ClosedIsSound
  <2>3. OneHandler'
    BY <1>1, <2>1, <2>2, NoHandler DEF Polling
  <2> QED BY <1>1, <1>2, <2>1, <2>2, <2>3, RecordChange DEF Idle
<1> QED BY <1>3, <1>4

(* A response is written, or its write fails.                                *)
LEMMA WriteDoneKeeps ==
  ASSUME NetworkInv, NEW c \in Conns, WriteDone(c)
  PROVE  NetworkInv'
<1> DEFINE k == conn[c]
<1>1. /\ conn \in [Conns -> Connection] /\ k \in Connection /\ Sound(k) /\ OneHandler
      /\ pc = "poll" /\ UNCHANGED <<list, shutdown, timer, pc>> /\ shutdown \in BOOLEAN
      /\ k.packet # "none"
  BY DEF NetworkInv, ConnectionsExact, TypeOK, WriteDone, Polling
<1>2. PICK failed \in BOOLEAN, keep \in BOOLEAN, readable \in BOOLEAN :
        Update(c, Written(k, failed, keep, readable))
  BY DEF WriteDone
<1> DEFINE w == Written(k, failed, keep, readable)
<1>3. /\ w \in Connection /\ Sound(w) /\ w.state \in {"receiving", "ready", "closing"}
      /\ k.state = "closing" => w.state = "closing"
      /\ shutdown => ~Idle(w)
  BY <1>1, WrittenIsSound
<1>4. k.state # "none"
  BY <1>1 DEF Sound
<1> HIDE DEF w
<1>5. OneHandler'
  BY <1>1, <1>2, <1>3, NoHandler DEF Polling, w
<1> QED BY <1>1, <1>2, <1>3, <1>4, <1>5, RecordChange DEF w

(* A closed handle leaves the list.                                          *)
LEMMA CloseDoneKeeps ==
  ASSUME NetworkInv, NEW c \in Conns, CloseDone(c)
  PROVE  NetworkInv'
<1>1. /\ conn \in [Conns -> Connection] /\ list \in Seq(Conns) /\ IsInjective(list)
      /\ Range(list) = {d \in Conns : conn[d].state # "none"} /\ OneHandler
      /\ \A d \in Conns : Sound(conn[d])
  BY DEF NetworkInv, ConnectionsExact, TypeOK
<1>2. Fresh \in Connection /\ Fresh.state = "none" /\ Sound(Fresh)
  BY NetworkAssumption, NoInput DEF Fresh, Connection, Sound, Parsing, Interim
<1>3. /\ \A d \in Conns : conn'[d] = IF d = c THEN Fresh ELSE conn[d]
      /\ conn' \in [Conns -> Connection] /\ Update(c, Fresh)
  BY <1>1, <1>2 DEF Update, CloseDone
<1>4. /\ list' \in Seq(Conns) /\ IsInjective(list') /\ Range(list') = Range(list) \ {c}
  <2>1. c \in Range(list)
    BY <1>1 DEF CloseDone
  <2> QED BY <1>1, <2>1, Unlinked DEF CloseDone
<1>5. TypeOK'
  <2>1. Range(list') = {d \in Conns : conn'[d].state # "none"}
    BY <1>1, <1>2, <1>3, <1>4
  <2> QED BY <1>3, <1>4, <2>1 DEF NetworkInv, ConnectionsExact, TypeOK, CloseDone
<1>6. OneHandler'
  BY <1>1, <1>2, <1>3, NoHandler DEF CloseDone
<1>7. ConnectionLimit'
  <2>1. Open' \subseteq Open /\ IsFiniteSet(Open)
    BY <1>2, <1>3, NetworkAssumption, FS_Subset DEF Open
  <2>2. Cardinality(Open') <= Cardinality(Open) /\ Cardinality(Open') \in Nat /\ Cardinality(Open) \in Nat
    BY <2>1, FS_Subset, FS_CardinalityType
  <2> QED BY <2>2, NetworkAssumption DEF NetworkInv, ConnectionsExact, ConnectionLimit
<1>8. NoIdleAfterShutdown'
  BY <1>2, <1>3 DEF CloseDone, NetworkInv, NoIdleAfterShutdown, Idle
<1> QED BY <1>1, <1>2, <1>3, <1>5, <1>6, <1>7, <1>8 DEF NetworkInv, ConnectionsExact

(* A signal begins the shutdown, the deadline ends it.                       *)
LEMMA SignalKeeps ==
  ASSUME NetworkInv, Signal \/ Deadline
  PROVE  NetworkInv'
<1>1. /\ conn \in [Conns -> Connection] /\ OneHandler /\ \A c \in Conns : Sound(conn[c])
      /\ Range(list) = {d \in Conns : conn[d].state # "none"}
      /\ pc = "poll" /\ UNCHANGED <<list, pc>> /\ shutdown \in BOOLEAN
  BY DEF NetworkInv, ConnectionsExact, TypeOK, Signal, Deadline, Polling
<1>2. \A c \in Conns : conn[c].state # "none" =>
        /\ Closed(conn[c]) \in Connection /\ Sound(Closed(conn[c]))
        /\ Closed(conn[c]).state = "closing"
  BY <1>1, ClosedIsSound
<1>3. \A c \in Conns :
        conn'[c] = conn[c] \/ (conn[c].state # "none" /\ conn'[c] = Closed(conn[c]))
  <2>1. CASE Signal
    BY <2>1 DEF Signal, Idle
  <2>2. CASE Deadline
    BY <1>1, <2>2 DEF Deadline
  <2> QED BY <2>1, <2>2
<1>a. conn' \in [Conns -> Connection]
  <2>1. conn' = [c \in Conns |-> conn'[c]]
    BY DEF Signal, Deadline
  <2>2. \A c \in Conns : conn'[c] \in Connection
    BY <1>1, <1>2, <1>3
  <2> QED BY <2>1, <2>2
<1>b. shutdown' \in BOOLEAN /\ timer' \in {"off", "armed", "fired"}
  BY <1>1 DEF Signal, Deadline
<1>4. \A c \in Conns :
        /\ Sound(conn'[c])
        /\ conn[c].state = "none" <=> conn'[c].state = "none"
        /\ conn[c].state = "closing" => conn'[c].state = "closing"
        /\ conn'[c].state # "handler"
  BY <1>1, <1>2, <1>3 DEF OneHandler
<1>5. OneHandler'
  BY <1>1, <1>4 DEF OneHandler
<1>6. NoIdleAfterShutdown'
  <2>1. CASE Signal
    BY <1>1, <1>2, <2>1 DEF Signal, Idle, NoIdleAfterShutdown
  <2>2. CASE Deadline
    BY <1>1, <1>2, <1>3, <2>2 DEF Deadline, Idle, NoIdleAfterShutdown, NetworkInv
  <2> QED BY <2>1, <2>2
<1> QED BY <1>1, <1>a, <1>b, <1>4, <1>5, <1>6, RecordsChange

(* The scan gives out a connection that waits for a handler.                 *)
LEMMA TakenIsReady ==
  ASSUME NetworkInv, Take
  PROVE  \E c \in Conns :
           /\ conn[c].state = "ready"
           /\ Update(c, [conn[c] EXCEPT !.state = "handler"])
<1> DEFINE S == {i \in DOMAIN list : list[i] \in Waiting}
           i == CHOOSE i \in DOMAIN list :
                  list[i] \in Waiting /\ \A j \in 1..(i - 1) : list[j] \notin Waiting
<1>1. list \in Seq(Conns)
  BY DEF NetworkInv, ConnectionsExact, TypeOK
<1>2. S \subseteq Nat
  BY <1>1
<1>3. S # {}
  BY <1>1 DEF Take, Waiting, Range
<1>4. PICK m \in S : \A j \in S : m <= j
  BY <1>2, <1>3, LeastExists
<1>5. /\ m \in DOMAIN list /\ list[m] \in Waiting
      /\ \A j \in 1..(m - 1) : list[j] \notin Waiting
  BY <1>1, <1>4
<1>6. i \in DOMAIN list /\ list[i] \in Waiting
  BY <1>5
<1>7. Update(list[i], [conn[list[i]] EXCEPT !.state = "handler"])
  BY DEF Take
<1> HIDE DEF i
<1> QED BY <1>1, <1>6, <1>7 DEF Waiting

(* The scan takes the first ready request.                                   *)
LEMMA TakeKeeps ==
  ASSUME NetworkInv, Take
  PROVE  NetworkInv'
<1>1. /\ conn \in [Conns -> Connection] /\ list \in Seq(Conns) /\ OneHandler
      /\ \A d \in Conns : Sound(conn[d])
  BY DEF NetworkInv, ConnectionsExact, TypeOK
<1>2. PICK c \in Conns :
        /\ conn[c].state = "ready"
        /\ Update(c, [conn[c] EXCEPT !.state = "handler"])
  BY TakenIsReady
<1> DEFINE k == [conn[c] EXCEPT !.state = "handler"]
<1>3. Update(c, k) /\ pc = "scan" /\ pc' = "handler" /\ UNCHANGED <<list, shutdown, timer>>
  BY <1>2 DEF Take
<1>4. /\ k \in Connection /\ k.state = "handler" /\ k.packet = conn[c].packet
      /\ k.owed = conn[c].owed /\ k.pending = conn[c].pending /\ k.reading = conn[c].reading
  BY <1>1, <1>2 DEF Connection
<1>5. /\ k.status = conn[c].status /\ k.closeAfter = conn[c].closeAfter
      /\ k.headers = conn[c].headers /\ k.started = conn[c].started /\ k.parser = conn[c].parser
  BY <1>1, <1>2 DEF Connection
<1> HIDE DEF k
<1>6. Sound(k)
  BY <1>1, <1>2, <1>4, <1>5 DEF Sound, Interim
<1>7. OneHandler'
  BY <1>1, <1>2, <1>3, <1>4 DEF OneHandler, Update
<1> QED BY <1>2, <1>3, <1>4, <1>6, <1>7, RecordChange DEF Idle

(* The handler answers.                                                      *)
LEMMA RespondKeeps ==
  ASSUME NetworkInv, NEW c \in Conns, Respond(c)
  PROVE  NetworkInv'
<1> DEFINE k == conn[c]
<1>1. /\ conn \in [Conns -> Connection] /\ k \in Connection /\ Sound(k) /\ OneHandler
      /\ k.state = "handler" /\ pc' = "scan" /\ UNCHANGED <<list, shutdown, timer>>
  BY DEF NetworkInv, ConnectionsExact, TypeOK, Respond
<1>2. PICK answer \in Responses(k.status), keep \in BOOLEAN, readable \in BOOLEAN, sendable \in BOOLEAN :
        Update(c, Write(k, answer[1], answer[2], keep, readable, sendable))
  BY DEF Respond
<1> DEFINE w == Write(k, answer[1], answer[2], keep, readable, sendable)
<1>3. /\ w \in Connection /\ Sound(w)
      /\ w.state \in {"receiving", "ready", "writing", "closing"} /\ ~Idle(w)
  BY <1>1, WriteIsSound
<1> HIDE DEF w
<1>4. OneHandler'
  BY <1>1, <1>2, <1>3 DEF OneHandler, Update, w
<1> QED BY <1>1, <1>2, <1>3, <1>4, RecordChange DEF w

(* The managed thread enters the event loop, leaves it, or stops.            *)
LEMMA PollKeeps ==
  ASSUME NetworkInv, Poll \/ EndPoll \/ Stop \/ UNCHANGED vars
  PROVE  NetworkInv'
<1>1. UNCHANGED <<conn, list, shutdown, timer>>
  BY DEF Poll, EndPoll, Stop, vars
<1>2. OneHandler'
  BY <1>1 DEF Poll, EndPoll, Stop, vars, Polling, NetworkInv, ConnectionsExact, OneHandler
<1>3. TypeOK'
  BY <1>1 DEF Poll, EndPoll, Stop, vars, NetworkInv, ConnectionsExact, TypeOK
<1>4. ConnectionLimit' /\ NoIdleAfterShutdown' /\ \A c \in Conns : Sound(conn[c])'
  BY <1>1 DEF NetworkInv, ConnectionsExact, ConnectionLimit, Open, NoIdleAfterShutdown, Idle
<1> QED BY <1>1, <1>2, <1>3, <1>4 DEF NetworkInv, ConnectionsExact

(* Every step of the transport preserves the invariant.                      *)
LEMMA StepKeeps == NetworkInv /\ [Next]_vars => NetworkInv'
<1> SUFFICES ASSUME NetworkInv, [Next]_vars PROVE NetworkInv'
  OBVIOUS
<1>1. CASE \E c \in Conns : Accept(c)
  BY <1>1, AcceptKeeps
<1>2. CASE \E c \in Conns : Read(c) \/ ReadError(c)
  BY <1>2, ReadKeeps
<1>3. CASE \E c \in Conns : WriteDone(c)
  BY <1>3, WriteDoneKeeps
<1>4. CASE \E c \in Conns : CloseDone(c)
  BY <1>4, CloseDoneKeeps
<1>5. CASE Signal \/ Deadline
  BY <1>5, SignalKeeps
<1>6. CASE Take
  BY <1>6, TakeKeeps
<1>7. CASE \E c \in Conns : Respond(c)
  BY <1>7, RespondKeeps
<1>8. CASE Poll \/ EndPoll \/ Stop \/ UNCHANGED vars
  BY <1>8, PollKeeps
<1> QED BY <1>1, <1>2, <1>3, <1>4, <1>5, <1>6, <1>7, <1>8 DEF Next, Serve, Stopped

(* The inductive invariant holds in every state of the server.               *)
THEOREM NetworkInvariant == Spec => []NetworkInv
BY Initially, StepKeeps, PTL DEF Spec

(* At most MaxConnections connections are served, the list of net_accept and *)
(* net_free_connection holds exactly those in use, and next_request gives    *)
(* out one of them at a time.                                                *)
THEOREM ConnectionsAreExact == Spec => []ConnectionsExact
<1>1. NetworkInv => ConnectionsExact
  BY DEF NetworkInv
<1> QED BY <1>1, NetworkInvariant, PTL

(* Nothing is read from a socket while input of the connection is saved, and *)
(* net_parse_input never saves more than the limit.                          *)
THEOREM InputIsInOrder == Spec => []InputInOrder
<1>1. NetworkInv => InputInOrder
  BY DEF NetworkInv, InputInOrder, Sound, Parsing
<1> QED BY <1>1, NetworkInvariant, PTL

(* No request is answered twice, and none begins while another is open.      *)
THEOREM OneResponseForEach == Spec => []OneResponseEach
<1>1. NetworkInv => OneResponseEach
  BY DEF NetworkInv, OneResponseEach, Sound, Parsing
<1> QED BY <1>1, NetworkInvariant, PTL

(* net_shutdown_signal closes the idle connections and net_written leaves no *)
(* new one.                                                                  *)
THEOREM NoneIdleAfterShutdown == Spec => []NoIdleAfterShutdown
<1>1. NetworkInv => NoIdleAfterShutdown
  BY DEF NetworkInv
<1> QED BY <1>1, NetworkInvariant, PTL

(* A connection that net_close_connection has closed is never used again     *)
(* before net_free_connection frees its record.                              *)
THEOREM ClosingConnectionsStayClosed == Spec => ClosingIsFinal
<1> DEFINE Final(c) == conn[c].state = "closing" => conn'[c].state \in {"closing", "none"}
<1>1. NetworkInv /\ [Next]_vars => [\A c \in Conns : Final(c)]_vars
  <2> SUFFICES ASSUME NetworkInv, Next, NEW c \in Conns, conn[c].state = "closing"
               PROVE  conn'[c].state \in {"closing", "none"}
    OBVIOUS
  <2>1. /\ conn \in [Conns -> Connection] /\ shutdown \in BOOLEAN
        /\ \A d \in Conns : conn[d] \in Connection /\ Sound(conn[d])
    BY DEF NetworkInv, ConnectionsExact, TypeOK
  <2>2. ASSUME NEW d \in Conns, Accept(d) \/ Read(d) \/ ReadError(d) \/ Respond(d)
        PROVE  conn'[c] = conn[c]
    <3>1. c # d
      BY <2>1, <2>2 DEF Accept, Read, ReadError, Respond, Sound, Fresh
    <3> QED BY <2>1, <2>2, <3>1 DEF Accept, Read, ReadError, Respond, Update
  <2>3. ASSUME NEW d \in Conns, WriteDone(d)
        PROVE  conn'[c].state = "closing"
    <3>1. PICK failed \in BOOLEAN, keep \in BOOLEAN, readable \in BOOLEAN :
            Update(d, Written(conn[d], failed, keep, readable)) /\ conn[d].packet # "none"
      BY <2>3 DEF WriteDone
    <3>2. conn[d].state = "closing" => Written(conn[d], failed, keep, readable).state = "closing"
      BY <2>1, <3>1, WrittenIsSound
    <3> QED BY <2>1, <3>1, <3>2 DEF Update
  <2>4. ASSUME NEW d \in Conns, CloseDone(d)
        PROVE  conn'[c].state \in {"closing", "none"}
    BY <2>1, <2>4 DEF CloseDone, Update, Fresh
  <2>5. CASE Signal \/ Deadline
    BY <2>1, <2>5 DEF Signal, Deadline, Closed
  <2>6. CASE Take
    <3>1. PICK d \in Conns :
            /\ conn[d].state = "ready"
            /\ Update(d, [conn[d] EXCEPT !.state = "handler"])
      BY <2>6, TakenIsReady
    <3> QED BY <2>1, <3>1 DEF Update
  <2>7. CASE Poll \/ EndPoll \/ Stop \/ Stopped
    BY <2>7 DEF Poll, EndPoll, Stop, Stopped, vars
  <2> QED BY <2>2, <2>3, <2>4, <2>5, <2>6, <2>7 DEF Next, Serve
<1> QED BY <1>1, NetworkInvariant, PTL DEF Spec, ClosingIsFinal
=============================================================================
