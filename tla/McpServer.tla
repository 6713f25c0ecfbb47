----------------------------- MODULE McpServer -----------------------------
(***************************************************************************)
(* A server for one editor (src/mcp.rs): it frames requests by lines,      *)
(* resolves which project a tool is for and reads or writes its store.  It *)
(* knows the registry as it was when it started, and keeps the stores that *)
(* it has opened, by path.  What a tool returns is in ScopedContext and    *)
(* MemoryGraph; protocol versions and the schemas of tools are left out.   *)
(* Bytes are counted in units: the text of a request is one, and a         *)
(* character of two is the only one that a read can cut.                   *)
(***************************************************************************)
EXTENDS Registry

CONSTANTS
  NameOf,       \* path -> the name of its directory
  None,
  Requests,     \* texts of requests: [kind, sel]
  Junk,         \* texts that are no requests: sequences of text, lead and trail
  MaxRequest,   \* MAX_REQUEST_BYTES, in units of the text of a request
  MaxRequests   \* bound on the lines a client sends

ASSUME RequestsAssumption ==
  \A r \in Requests : r.kind \in {"mem_set", "mem_manage", "mem_find", "notification"}

VARIABLES
  server,   \* [up, draining, root, known, stores, since]
  wire,     \* what the client has written and the server has not read
  output,   \* replies that the client has not read: to whom, what kind
  client    \* [sent, closed, pending]: pending are the replies it waits for

vars == <<registryVars, server, wire, output, client>>

Down == [up |-> FALSE, draining |-> FALSE, root |-> None, known |-> <<>>,
         stores |-> [p \in Paths |-> None], since |-> 0]

\* new_with_mode, in a directory with a project or without one.
Start(cwd) ==
  /\ ~server.up /\ client.sent = 0
  /\ server' = [Down EXCEPT !.up = TRUE, !.root = IF cwd # None /\ HasDb(cwd) THEN cwd ELSE None,
                            !.known = projects, !.since = moves]
  /\ UNCHANGED <<registryVars, wire, output, client>>

----------------------------------------------------------------------------
(* Which store.                                                            *)

LiveKnown == Filtered(server.known, {r \in Records(server.known) : HasDb(r.path)})
Answers(r, sel) == sel \in {r.id, NameOf[r.path], r.path}

Named(sel) == Filtered(LiveKnown, {r \in Records(LiveKnown) : sel = None \/ Answers(r, sel)})

\* resolve_project_root: None if it refuses.
Resolve_FirstMatch(sel) ==
  LET named == Named(sel) IN
  IF server.root # None /\ sel \in {None, server.root, NameOf[server.root]} THEN server.root
  ELSE IF named # <<>> THEN Head(named).path ELSE None

Resolve(sel) ==
  LET named == Named(sel) IN
  IF server.root # None /\ sel \in {None, server.root, NameOf[server.root]} THEN server.root
  ELSE IF Len(named) = 1 THEN named[1].path ELSE None

\* open_project_store, from the cache if the path was opened before.
Opened(p) ==
  CASE ~HasDb(p) -> None
    [] HasDb(p) /\ server.stores[p] # None -> server.stores[p]
    [] OTHER -> At(p)

Replies(r) == output' = Append(output, r)

Refuse(to, why) == Replies([to |-> to, kind |-> why]) /\ UNCHANGED server

\* Every tool but those for the global store opens the store of a project.
WithStore(r, done) ==
  IF Resolve(r.sel) = None \/ Opened(Resolve(r.sel)) = None
  THEN Refuse(r, "error")
  ELSE LET p == Resolve(r.sel) IN
       /\ server' = [server EXCEPT !.stores[p] = Opened(p)]
       /\ Replies([to |-> r, kind |-> done, path |-> p, db |-> Opened(p),
                   file |-> IF done = "wrote" THEN At(p) ELSE Opened(p)])

\* mem_set writes the database and exports to the .agent-rules at the path;
\* it refuses before that if the item or the batch is malformed or too big.
MemSet(r) == Refuse(r, "error") \/ WithStore(r, "wrote")

\* mem_manage does the same, unless the memory or the relation is not there.
MemManage(r) == Refuse(r, "error") \/ WithStore(r, "wrote") \/ WithStore(r, "not found")

MemFind(r) == WithStore(r, "read")

\* handle_request gives no reply to a notification.
Handled(r) ==
  CASE r.kind = "mem_set" -> MemSet(r)
    [] r.kind = "mem_manage" -> MemManage(r)
    [] r.kind = "mem_find" -> MemFind(r)
    [] OTHER -> UNCHANGED output /\ UNCHANGED server

----------------------------------------------------------------------------
(* run_stream.  What is written is a sequence of texts of requests, of     *)
(* other text, of characters in two bytes and of newlines.                 *)

Unit(kind) == [kind |-> kind, sel |-> None]
Newline == Unit("newline")
Lead == Unit("lead")
TooLongError == Unit("too long")
ParseError == Unit("parse error")

\* The client writes a line, or its last one without a newline, and closes.
Due(text, bytes) ==
  CASE bytes > MaxRequest -> <<TooLongError>>
    [] bytes <= MaxRequest /\ text \in Junk \ {<<>>} -> <<ParseError>>
    [] bytes <= MaxRequest /\ \E r \in Requests : text = <<r>> /\ r.kind # "notification" -> text
    [] OTHER -> <<>>

Send(text, last) ==
  /\ server.up /\ ~client.closed /\ client.sent < MaxRequests
  /\ LET line == IF last THEN text ELSE Append(text, Newline) IN
     /\ wire' = wire \o line
     /\ client' = [sent |-> client.sent + 1, closed |-> last,
                    pending |-> client.pending \o Due(text, Len(line))]
  /\ UNCHANGED <<registryVars, server, output>>

Receive ==
  /\ output # <<>>
  /\ output' = Tail(output)
  /\ client' = [client EXCEPT !.pending = Tail(@)]
  /\ UNCHANGED <<registryVars, server, wire>>

\* read_line of at most MAX_REQUEST_BYTES + 1 bytes: it waits for the newline,
\* for the bytes or for the end of the input.
Stops(n) ==
  n = MaxRequest + 1 \/ wire[n] = Newline \/ (client.closed /\ n = Len(wire))
ReadTo(n) == Stops(n) /\ \A m \in 1..n - 1 : ~Stops(m)

TooLong(line) == Len(line) > MaxRequest

\* The read fails on a character that it has the first byte of; the rest of a
\* long line is dropped before the reply; a blank line is skipped.
Take(line) ==
  LET last == line[Len(line)] IN
  IF last = Lead THEN server' = Down /\ UNCHANGED output
  ELSE IF TooLong(line) /\ last # Newline
       THEN server' = [server EXCEPT !.draining = TRUE] /\ UNCHANGED output
  ELSE IF TooLong(line) THEN Refuse(TooLongError, "too long")
  ELSE IF line = <<Newline>> THEN UNCHANGED output /\ UNCHANGED server
  ELSE IF line[1] \in Requests THEN Handled(line[1])
  ELSE Refuse(ParseError, "parse error")

Read ==
  /\ server.up /\ ~server.draining
  /\ \E n \in 1..Len(wire) :
       /\ ReadTo(n)
       /\ wire' = SubSeq(wire, n + 1, Len(wire))
       /\ Take(SubSeq(wire, 1, n))
  /\ UNCHANGED <<registryVars, client>>

\* What is consumed of n bytes in the buffer, up to and with a newline.
NewlinesIn(n) == {i \in 1..n : wire[i] = Newline}
Consumed_WholeBuffer(n) == n
Consumed(n) == IF NewlinesIn(n) = {} THEN n ELSE Min(NewlinesIn(n))

\* The buffer holds any beginning of what is there; it is empty at the end.
DrainSome ==
  \E n \in 1..Len(wire) :
    /\ wire' = SubSeq(wire, Consumed(n) + 1, Len(wire))
    /\ IF NewlinesIn(n) = {} THEN UNCHANGED output /\ UNCHANGED server
       ELSE /\ server' = [server EXCEPT !.draining = FALSE]
            /\ Replies([to |-> TooLongError, kind |-> "too long"])

DrainEnd ==
  /\ wire = <<>> /\ client.closed
  /\ server' = [server EXCEPT !.draining = FALSE]
  /\ Replies([to |-> TooLongError, kind |-> "too long"])
  /\ UNCHANGED wire

Drain ==
  /\ server.up /\ server.draining
  /\ DrainSome \/ DrainEnd
  /\ UNCHANGED <<registryVars, client>>

\* The end of its input ends a server.
Hangup ==
  /\ server.up /\ ~server.draining /\ wire = <<>> /\ client.closed
  /\ server' = Down
  /\ UNCHANGED <<registryVars, wire, output, client>>

----------------------------------------------------------------------------
Init ==
  /\ RegistryInit
  /\ server = Down
  /\ wire = <<>>
  /\ output = <<>>
  /\ client = [sent |-> 0, closed |-> FALSE, pending |-> <<>>]

Next ==
  \/ RegistryNext /\ UNCHANGED <<server, wire, output, client>>
  \/ \E cwd \in Paths \cup {None} : Start(cwd)
  \/ \E text \in {<<r>> : r \in Requests} \cup Junk, last \in BOOLEAN : Send(text, last)
  \/ Receive
  \/ Read
  \/ Drain
  \/ Hangup

Spec == Init /\ [][Next]_vars

----------------------------------------------------------------------------
(* Correctness.                                                            *)

TypeOK ==
  /\ ready \subseteq Checkouts
  /\ \A r \in Records(projects) \cup Records(loaded) :
       r.id[2] \in Paths /\ r.path \in Paths /\ r.accessed \in 0..clock
  /\ \A i \in 1..Len(projects) - 1 : projects[i].accessed >= projects[i + 1].accessed
  /\ server.up \in BOOLEAN /\ server.draining \in BOOLEAN
  /\ server.root \in Paths \cup {None}
  /\ \A p \in Paths : server.stores[p] \in Checkouts \cup {None}

\* The replies come in the order of the lines that call for one, each to its
\* line, whatever the read and the buffer cut of a long line or of the next
\* ones; a server that waits for a line has answered all before it
\* ("oversized request is rejected and next request is processed",
\* mcp.rs:1370).
RepliesFollowLines ==
  /\ Len(output) <= Len(client.pending)
  /\ \A i \in 1..Len(output) : output[i].to = client.pending[i]
  /\ server.up /\ ~server.draining /\ wire = <<>> => Len(output) = Len(client.pending)

\* As long as no checkout is moved under a running server, what it writes
\* goes to the store and the .agent-rules of one checkout, and no other
\* project it knows answers to the name that was given ("Ambiguous project
\* name", mcp.rs:173).
WritesGoHome ==
  [][LET r == output'[Len(output')] IN
     Len(output') > Len(output) /\ r.kind = "wrote" /\ server.since = moves =>
       /\ r.db = r.file
       /\ place[r.db] = r.path
       /\ r.path # server.root => \A x \in Records(LiveKnown) :
            x.path # r.path => r.to.sel # None /\ ~Answers(x, r.to.sel)]_vars
=============================================================================
