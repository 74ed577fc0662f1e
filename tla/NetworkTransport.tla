-------------------------- MODULE NetworkTransport --------------------------
(***************************************************************************)
(* The HTTP server of a compiled program: the connection state machine of  *)
(* backend/qbe/runtime/network_transport.trb and network_parser.trb, run   *)
(* by the event loop of libuv and fed to llhttp, and the managed accept    *)
(* loop of packages/internal/web_server.trb that answers one request at a  *)
(* time.  Callbacks and handlers share one thread: a callback runs only    *)
(* while the program is inside trbn_network_next_request.                  *)
(*                                                                         *)
(* Input is a sequence of tokens, each standing for the bytes up to the    *)
(* next point where llhttp calls back:                                     *)
(*   "part"  bytes that complete nothing      "end"   the last body byte   *)
(*   "get"   a head whose request has no body "large" a body over the limit*)
(*   "post"  a head that announces a body     "bad"   anything rejected    *)
(* libuv and llhttp are external; they are modelled by the callbacks the   *)
(* code registers and the results it tests.                                *)
(***************************************************************************)
EXTENDS Integers, Sequences, FiniteSets, SequencesExt

Tokens == {"part", "get", "post", "end", "large", "bad"}

CONSTANTS
  Sent,            \* bound: the tokens the client of each connection may send
  Conns,           \* bound: addresses of connection records, reused once freed
  MaxConnections,  \* connections served at a time (1024)
  PendingLimit,    \* saved input a connection may hold (65536 bytes)
  ReadSize         \* longest input of one read callback (16384 bytes)

ASSUME NetworkAssumption ==
  /\ Sent \in [Conns -> SUBSET Tokens]
  /\ IsFiniteSet(Conns)
  /\ {MaxConnections, PendingLimit, ReadSize} \subseteq Nat \ {0}
  /\ ReadSize <= PendingLimit

VARIABLES
  conn,      \* the connection records
  list,      \* net_connections, newest first
  shutdown,  \* net_shutdown
  timer,     \* shutdown timer: off, armed or fired
  pc         \* scan and poll (next_request before and inside uv_run), handler
             \* (inside respond) or stopped (after network_stop)

vars == <<conn, list, shutdown, timer, pc>>

\* A zeroed connection.  owed counts the requests begun and not yet answered for
\* the properties; reading is libuv's state, the rest is the code's record.
Fresh ==
  [state |-> "none", closeAfter |-> FALSE, status |-> "ok", keep |-> FALSE,
   started |-> FALSE, headers |-> FALSE, parser |-> "idle", pending |-> <<>>,
   reading |-> FALSE, packet |-> "none", owed |-> 0]

---------------------------------------------------------------------------
(* Parsing.                                                                *)

\* net_close_connection
Closed(k) == IF k.state = "closing" THEN k ELSE [k EXCEPT !.state = "closing", !.reading = FALSE]

\* The error exits of net_parse and net_parse_input: an unset status becomes 400, and
\* it is negated before the header section is complete.
Failed(k) ==
  [k EXCEPT !.status = IF ~k.headers THEN "early" ELSE IF @ = "ok" THEN "late" ELSE @,
            !.owed = IF k.headers THEN @ ELSE @ + 1,
            !.state = "ready", !.closeAfter = TRUE, !.reading = FALSE]

\* Mutant of Paused: the socket is still read while the request is handled.
PausedReading(k, rest) ==
  IF Len(k.pending) + Len(rest) > PendingLimit THEN Failed(k)
  ELSE [k EXCEPT !.pending = @ \o rest]

\* llhttp paused with rest unread: keep it and stop reading.
Paused(k, rest) ==
  IF Len(k.pending) + Len(rest) > PendingLimit THEN Failed(k)
  ELSE [k EXCEPT !.pending = @ \o rest, !.reading = FALSE]

\* net_headers_complete
HeadersComplete(k, body) ==
  [k EXCEPT !.state = "ready", !.status = "interim", !.headers = TRUE, !.started = TRUE,
            !.parser = body, !.owed = @ + 1]

\* net_message_complete
MessageComplete(k, keep) == [k EXCEPT !.state = "ready", !.keep = keep, !.parser = "done"]

\* net_parse and net_parse_input: consume up to the first token that pauses or fails.
Parsed(k, input, keep) ==
  LET stops == {i \in DOMAIN input : input[i] # "part"}
      first == CHOOSE i \in stops : \A j \in stops : i <= j
      rest  == SubSeq(input, first + 1, Len(input))
  IN  CASE k.parser = "nobody" -> Paused(MessageComplete(k, keep), input)
        [] k.parser # "nobody" /\ stops = {} -> [k EXCEPT !.started = @ \/ input # <<>>]
        [] OTHER ->
             CASE k.parser = "idle" /\ input[first] = "get"  -> Paused(HeadersComplete(k, "nobody"), rest)
               [] k.parser = "idle" /\ input[first] = "post" -> Paused(HeadersComplete(k, "body"), rest)
               [] k.parser = "body" /\ input[first] = "end"  -> Paused(MessageComplete(k, keep), rest)
               [] k.parser = "body" /\ input[first] = "large" -> Failed([k EXCEPT !.status = "late"])
               [] OTHER -> Failed(k)

\* net_continue_read: replay saved input, then read again if the request is incomplete.
ContinueRead(k, keep, readable) ==
  LET p == Parsed([k EXCEPT !.pending = <<>>], k.pending, keep)
  IN  IF p.state # "receiving" THEN p
      ELSE IF readable THEN [p EXCEPT !.reading = TRUE] ELSE Closed(p)

\* net_resume_request
Resumed(k, keep, readable) ==
  ContinueRead([k EXCEPT !.state = "receiving", !.status = "ok"], keep, readable)

---------------------------------------------------------------------------
(* Callbacks, run by uv_run inside trbn_network_next_request.              *)

Open == {c \in Conns : conn[c].state \notin {"none", "closing"}}
Polling == pc = "poll"
Update(c, k) == conn' = [conn EXCEPT ![c] = k]

\* net_accept; the listener is closed once shutdown begins.
Accept(c) ==
  /\ Polling /\ ~shutdown
  /\ conn[c] = Fresh
  /\ list' = <<c>> \o list
  /\ \E readable \in BOOLEAN :
       Update(c, IF Len(list) + 1 > MaxConnections \/ ~readable
                 THEN Closed([Fresh EXCEPT !.state = "receiving"])
                 ELSE [Fresh EXCEPT !.state = "receiving", !.reading = TRUE])
  /\ UNCHANGED <<shutdown, timer, pc>>

\* net_read with input: hand a chunk to the parser.
Read(c) ==
  /\ Polling /\ conn[c].reading
  /\ \E n \in 1..ReadSize : \E input \in [1..n -> Sent[c]], keep \in BOOLEAN :
       Update(c, Parsed(conn[c], input, keep))
  /\ UNCHANGED <<list, shutdown, timer, pc>>

\* net_read with an error or end of file.
ReadError(c) ==
  /\ Polling /\ conn[c].reading
  /\ Update(c, Closed(conn[c]))
  /\ UNCHANGED <<list, shutdown, timer, pc>>

\* Mutant of NextRequest: headers-finished keeps its value.
NextRequestStale(k) ==
  [k EXCEPT !.state = "receiving", !.status = "ok", !.started = FALSE, !.parser = "idle"]

\* @reset of net_written: an answered keep-alive connection expects a new request.
NextRequest(k) ==
  [k EXCEPT !.state = "receiving", !.status = "ok", !.started = FALSE, !.headers = FALSE,
            !.parser = "idle"]

Released(k) == [k EXCEPT !.packet = "none"]

\* Mutant of AfterWrite: the next request is read without replaying saved input.
AfterWriteReads(k, stop, keep, readable) ==
  CASE k.closeAfter \/ (k.status # "interim" /\ (stop \/ ~k.keep)) -> Closed(k)
    [] ~k.closeAfter /\ k.status = "interim" -> Resumed(k, keep, readable)
    [] OTHER -> IF readable THEN [NextRequest(k) EXCEPT !.reading = TRUE] ELSE Closed(k)

\* net_written from @check on: close, go on with the request or with the next one.
AfterWrite(k, stop, keep, readable) ==
  CASE k.closeAfter \/ (k.status # "interim" /\ (stop \/ ~k.keep)) -> Closed(k)
    [] ~k.closeAfter /\ k.status = "interim" -> Resumed(k, keep, readable)
    [] OTHER -> ContinueRead(NextRequest(k), keep, readable)

\* Mutant of Written: a keep-alive connection goes on although shutdown has begun.
WrittenKeepsServing(k, failed, keep, readable) ==
  IF k.state = "closing" THEN Released(k) ELSE AfterWrite(Released(k), failed, keep, readable)

\* Mutant of Written: the callback does not look for a connection being closed.
WrittenReopens(k, failed, keep, readable) ==
  AfterWrite(Released(k), failed \/ shutdown, keep, readable)

\* net_written: the packet is released, then the connection closes or goes on.
Written(k, failed, keep, readable) ==
  IF k.state = "closing" THEN Released(k)
  ELSE AfterWrite(Released(k), failed \/ shutdown, keep, readable)

WriteDone(c) ==
  /\ Polling /\ conn[c].packet # "none"
  /\ \E failed, keep, readable \in BOOLEAN : Update(c, Written(conn[c], failed, keep, readable))
  /\ UNCHANGED <<list, shutdown, timer, pc>>

\* net_free_connection searches the list and unlinks the record it finds; libuv
\* completes a pending write before the close callback.
CloseDone(c) ==
  /\ Polling /\ conn[c].state = "closing" /\ conn[c].packet = "none"
  /\ Update(c, Fresh)
  /\ list' = RemoveAt(list, CHOOSE i \in DOMAIN list : list[i] = c)
  /\ UNCHANGED <<shutdown, timer, pc>>

\* A connection without a byte of a request.
Idle(k) == k.state = "receiving" /\ ~k.started

\* net_shutdown_signal: close the listener and idle connections, arm the deadline.
Signal ==
  /\ Polling /\ ~shutdown
  /\ shutdown' = TRUE /\ timer' = "armed"
  /\ conn' = [c \in Conns |-> IF Idle(conn[c]) THEN Closed(conn[c]) ELSE conn[c]]
  /\ UNCHANGED <<list, pc>>

\* Mutant of Deadline: only idle connections are closed.
DeadlineIdle ==
  /\ Polling /\ timer = "armed"
  /\ timer' = "fired"
  /\ conn' = [c \in Conns |-> IF Idle(conn[c]) THEN Closed(conn[c]) ELSE conn[c]]
  /\ UNCHANGED <<list, shutdown, pc>>

\* net_deadline
Deadline ==
  /\ Polling /\ timer = "armed"
  /\ timer' = "fired"
  /\ conn' = [c \in Conns |-> IF c \in Range(list) THEN Closed(conn[c]) ELSE conn[c]]
  /\ UNCHANGED <<list, shutdown, pc>>

---------------------------------------------------------------------------
(* The accept loop: trbn_network_next_request and serve.                   *)

\* Connections of the list that wait for a handler.
Waiting == {c \in Range(list) : conn[c].state = "ready"}

\* The scan takes the first ready connection of the list.
Take ==
  /\ pc = "scan" /\ Waiting # {}
  /\ LET i == CHOOSE i \in DOMAIN list :
                list[i] \in Waiting /\ \A j \in 1..(i - 1) : list[j] \notin Waiting
     IN  Update(list[i], [conn[list[i]] EXCEPT !.state = "handler"])
  /\ pc' = "handler"
  /\ UNCHANGED <<list, shutdown, timer>>

\* Nothing is ready: uv_run until it has run at least one round of callbacks.
Poll ==
  /\ pc = "scan" /\ Waiting = {}
  /\ ~(shutdown /\ list = <<>>)
  /\ pc' = "poll"
  /\ UNCHANGED <<conn, list, shutdown, timer>>

EndPoll ==
  /\ Polling
  /\ pc' = "scan"
  /\ UNCHANGED <<conn, list, shutdown, timer>>

\* What respond, or serve after a recovered failure, passes to network_write:
\* 400, 417, 500 and every answer to a failed request close the connection.
Responses(status) ==
  CASE status = "interim" -> {<<"final", TRUE>>, <<"interim", FALSE>>, <<"empty", FALSE>>}
    [] status = "ok"      -> {"final"} \X BOOLEAN
    [] OTHER              -> {<<"final", TRUE>>}

\* Mutant of Write: a write that cannot be queued is reported and nothing else.
WriteAbandoned(k, packet, close, keep, readable, sendable) ==
  CASE packet = "empty" -> Resumed(k, keep, readable)
    [] packet # "empty" /\ ~sendable -> k
    [] OTHER -> [k EXCEPT !.closeAfter = @ \/ close, !.state = "writing", !.packet = packet,
                          !.owed = IF packet = "final" THEN @ - 1 ELSE @]

\* trbn_network_write
Write(k, packet, close, keep, readable, sendable) ==
  CASE packet = "empty" -> Resumed(k, keep, readable)
    [] packet # "empty" /\ ~sendable -> Closed(k)
    [] OTHER -> [k EXCEPT !.closeAfter = @ \/ close, !.state = "writing", !.packet = packet,
                          !.owed = IF packet = "final" THEN @ - 1 ELSE @]

Respond(c) ==
  /\ pc = "handler" /\ conn[c].state = "handler"
  /\ \E r \in Responses(conn[c].status), keep, readable, sendable \in BOOLEAN :
       Update(c, Write(conn[c], r[1], r[2], keep, readable, sendable))
  /\ pc' = "scan"
  /\ UNCHANGED <<list, shutdown, timer>>

\* next_request returns 0 and serve calls trbn_network_stop; the loop is drained.
Stop ==
  /\ pc = "scan" /\ Waiting = {} /\ shutdown /\ list = <<>>
  /\ pc' = "stopped"
  /\ UNCHANGED <<conn, list, shutdown, timer>>

Stopped == pc = "stopped" /\ UNCHANGED vars

\* trbn_network_start has succeeded.
Init ==
  /\ conn = [c \in Conns |-> Fresh]
  /\ list = <<>>
  /\ shutdown = FALSE /\ timer = "off"
  /\ pc = "scan"

Serve == Take \/ Poll \/ EndPoll \/ Stop \/ \E c \in Conns : Respond(c)

Next ==
  \/ Serve
  \/ \E c \in Conns : Accept(c) \/ Read(c) \/ ReadError(c) \/ WriteDone(c) \/ CloseDone(c)
  \/ Signal \/ Deadline
  \/ Stopped

\* Handlers return and uv_run returns to the scan (weak fairness of Serve); libuv
\* runs the callback of a closed handle and a due timer in some round, and that of a
\* write once its handle is closed, which cancels it.  No timer bounds the write of an
\* open connection: it is finished when the client reads, and no client has to.
Fairness ==
  /\ WF_vars(Serve)
  /\ \A c \in Conns : SF_vars(conn[c].state = "closing" /\ WriteDone(c)) /\ SF_vars(CloseDone(c))
  /\ SF_vars(Deadline)

Spec == Init /\ [][Next]_vars
FairSpec == Spec /\ Fairness
---------------------------------------------------------------------------
(* Properties.                                                             *)

Connection ==
  [state : {"none", "receiving", "ready", "handler", "writing", "closing"},
   closeAfter : BOOLEAN, status : {"ok", "interim", "late", "early"}, keep : BOOLEAN,
   started : BOOLEAN, headers : BOOLEAN, parser : {"idle", "nobody", "body", "done"},
   pending : Seq(Tokens), reading : BOOLEAN, packet : {"none", "interim", "final"},
   owed : Int]

\* Every variable has its type, and the list holds exactly the connections in use.
TypeOK ==
  /\ conn \in [Conns -> Connection]
  /\ list \in Seq(Conns) /\ IsInjective(list)
  /\ Range(list) = {c \in Conns : conn[c].state # "none"}
  /\ shutdown \in BOOLEAN /\ timer \in {"off", "armed", "fired"}
  /\ pc \in {"scan", "poll", "handler", "stopped"}

\* A managed handler runs for exactly the one connection in state handler; no
\* callback moves that connection while respond reads its buffers.
OneHandler ==
  /\ \A c, d \in Conns : conn[c].state = "handler" /\ conn[d].state = "handler" => c = d
  /\ pc = "handler" <=> \E c \in Conns : conn[c].state = "handler"

\* Input arrives only while the request is incomplete and all saved input has
\* been replayed, so bytes are never reordered; saved input respects the limit.
InputInOrder ==
  \A c \in Conns :
    /\ conn[c].reading => conn[c].state = "receiving" /\ conn[c].pending = <<>>
    /\ Len(conn[c].pending) <= PendingLimit

\* Every request gets at most one final response and the next one is not begun
\* before it: a connection that expects a new request keeps nothing of the last.
OneResponseEach ==
  \A c \in Conns :
    LET k == conn[c]
    IN  /\ k.owed \in {0, 1}
        /\ k.state \in {"ready", "handler"} => k.owed = 1
        /\ k.state = "receiving" =>
             /\ k.status = "ok" /\ ~k.closeAfter /\ k.packet = "none"
             /\ k.headers <=> k.owed = 1
             /\ k.parser = "idle" <=> ~k.headers

\* net_accept never lets more than MaxConnections connections be served.
ConnectionLimit == Cardinality(Open) <= MaxConnections

\* The list holds exactly the connections in use, at most MaxConnections of them
\* are served, and at most one of them, by one handler at a time.
ConnectionsExact == TypeOK /\ ConnectionLimit /\ OneHandler

\* Once shutdown has begun no connection waits for a new request, so what is
\* left to drain is exactly the requests that had begun.
NoIdleAfterShutdown == shutdown => \A c \in Conns : ~Idle(conn[c])

\* A closing connection is only ever freed: no late write callback, deadline or
\* signal brings it back into use.
ClosingIsFinal ==
  [][\A c \in Conns : conn[c].state = "closing" => conn'[c].state \in {"closing", "none"}]_vars

Serving(k) == k.state \notin {"none", "closing"}

\* Input is saved that ends the request in hand or begins the next one.
Saved(k) == Serving(k) /\ \E i \in DOMAIN k.pending : k.pending[i] # "part"

\* The client has done its part: a request is unanswered that does not wait for its
\* body, or one is saved behind it.
Due(k) ==
  \/ Saved(k)
  \/ Serving(k) /\ k.owed > 0 /\ ~(k.state = "receiving" /\ k.parser = "body")

\* A due request is answered, its body is awaited or its connection is closed,
\* although next_request always scans from the newest connection; a request saved
\* behind an answered one is begun, although no read announces it.  What a client
\* can do against it is to leave a response unread for ever.
DueRequestServed ==
  \A c \in Conns :
    \/ /\ []<>~Due(conn[c])
       /\ Saved(conn[c]) /\ conn[c].owed = 0 ~> ~Serving(conn[c]) \/ conn[c].owed > 0
    \/ <>[](conn[c].packet # "none")

\* A signal stops the server: the deadline ends what clients leave unfinished.
ShutdownCompletes == shutdown ~> pc = "stopped"
=============================================================================
