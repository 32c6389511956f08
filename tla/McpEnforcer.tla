----------------------------- MODULE McpEnforcer ------------------------------
(***************************************************************************)
(* The MCP enforcement point (internal/mcp): Admit judges and records what *)
(* a client sends before the server sees it, ObserveResponse compares the  *)
(* tools the server advertises with what it advertised before.             *)
(*                                                                         *)
(* Two transports share the enforcer.  On stdio (stdio.go) one goroutine   *)
(* reads the client and another the server.  Over HTTP (proxy.go) every    *)
(* POST has a handler of its own, which passes the answer on before it     *)
(* looks at it.                                                            *)
(*                                                                         *)
(* A message of the client is malformed, or a list of requests which may   *)
(* be a batch.  Of the evidence, the model keeps which requests of the     *)
(* message in hand have their allow record.  The counters of Stats, but    *)
(* for changes, are left out.                                              *)
(***************************************************************************)
EXTENDS Naturals, Sequences, FiniteSets

CONSTANTS
    Transports,      \* whether it is stdio: {TRUE}, {FALSE} or both
    Conns, Stdin,    \* handlers of POSTs; one of them is the reader of stdio
    Bodies,          \* what the client may send
    Malformed, NoId, None,
    Permitted,       \* the tools and resources the policy allows the agent
    ToolSets, Empty, \* what a server may advertise, and the set without tools
    PinTools,
    Otherwise,       \* what the enforcer may read in an answer written for that
    Faults,          \* "audit": Sink.Write may fail; "exit": the server may exit
                     \* early; "broken": a pipe may break, or a line be too long;
                     \* "signal": agw may be stopped; "sign": a checkpoint may fail;
                     \* "form": the server may write an answer that the enforcer's
                     \* decoder reads otherwise than the client
    MaxSent,         \* bound, on either transport: messages of the client
    MaxServer        \* bound: redefinitions, requests and such answers of the server

ASSUME McpAssumptions ==
    /\ Stdin \in Conns /\ Faults \subseteq {"audit", "exit", "broken", "signal", "sign", "form"}
    /\ None \notin ToolSets /\ Empty \in ToolSets
    /\ PinTools \in BOOLEAN /\ Transports \subseteq BOOLEAN
    /\ MaxSent \in [BOOLEAN -> Nat] /\ MaxServer \in [BOOLEAN -> Nat]

VARIABLES
    \* The transport, and the handlers.
    stdio, hpc, body, k, written,
    \* The enforcer.
    frozen, pendingLists, inventory, changes,
    \* The server: its tools, what it has to answer, what it has sent.
    tools, inbox, out, done,
    \* The goroutine that reads the server, and ServeStdio itself or the HTTP server.
    reader, session,
    \* The client: the tools it was shown last, whether it was ever shown other
    \* ones than before, and whether that was so when it sent a message.
    shown, noticed, aware, sent,
    \* Ghost: what has happened that the properties depend on.  "cut": a side was cut
    \* off, by an early exit, a broken pipe, a signal or a timeout; "batch": a list was
    \* admitted in a batch; "ask": the server sent a request of its own; "form": it sent
    \* an answer that the enforcer reads otherwise; "aborted": an HTTP answer could not be
    \* copied to its end; "unsigned": a checkpoint failed.
    happened

handlers == <<hpc, body, k, written>>
enforcer == <<frozen, pendingLists, inventory, changes>>
server == <<tools, inbox, out, done>>
client == <<shown, noticed, aware, sent>>
vars == <<stdio, handlers, enforcer, server, reader, session, client, happened>>

Init ==
    /\ hpc = [c \in Conns |-> "idle"] /\ body = [c \in Conns |-> None]
    /\ k = [c \in Conns |-> 1] /\ written = [c \in Conns |-> {}]
    /\ frozen = FALSE /\ pendingLists = {} /\ inventory = None
    /\ changes = 0
    /\ tools \in ToolSets /\ inbox = {} /\ out = <<>> /\ done = 0
    /\ reader = None /\ session = "serving"
    /\ shown = None /\ noticed = FALSE /\ aware = [c \in Conns |-> FALSE] /\ sent = 0
    /\ stdio \in Transports /\ happened = {}

Happens(e) == happened' = happened \cup {e}
Cut(e) == e \in Faults /\ Happens("cut")

Requests(b) == {b.reqs[n] : n \in 1..Len(b.reqs)}
Ids(b) == {r.id : r \in Requests(b)} \ {NoId}
HasList(b) == \E r \in Requests(b) : r.method = "list"
IsCall(r) == r.method = "call"
Gated(r) == r.method \in {"call", "read"}

AllIds == UNION {Ids(b) : b \in Bodies \ {Malformed}}

\* What the enforcer's decoder makes of a message: it takes the last member in any
\* letter case, knows an id by its bytes (1.0 is not 1), and finds nothing in what is
\* no JSON to it, such as a compressed answer over HTTP.
Reading == [ids : SUBSET AllIds, tools : ToolSets \cup {None}]

\* What the server sends: an answer, with the tools it advertises if it is one to a
\* list, or a request of its own; ids and tools are what the client takes it for.
Message ==
    [kind : {"result", "array", "request"}, ids : SUBSET AllIds,
     tools : ToolSets \cup {None}, read : Reading]

\* A body is one message, or a batch of any number.
ASSUME BodyAssumptions ==
    /\ \A b \in Bodies \ {Malformed} :
        /\ b.batch \in BOOLEAN /\ b.reqs \in Seq(Requests(b))
        /\ ~b.batch => Len(b.reqs) = 1
    /\ None \notin Message /\ Otherwise \subseteq Reading

\* Ids the client waits for, wherever its message or the answer is; JSON-RPC has it
\* use others meanwhile.
InHandlers ==
    UNION {Ids(body[c]) : c \in {d \in Conns : hpc[d] \in {"decide", "record", "forward",
                                                           "waiting"}}}
    \cup UNION {body[c].ids : c \in {d \in Conns : hpc[d] \in {"deliver", "pass"}}}
AtServer == UNION {Ids(m.body) : m \in inbox}
FromServer == UNION {out[n].ids : n \in {j \in 1..Len(out) : out[j].kind # "request"}}
AtReader == IF reader = None \/ reader.kind = "request" THEN {} ELSE reader.ids
InFlight == InHandlers \cup AtServer \cup FromServer \cup AtReader

-----------------------------------------------------------------------------
(* Admit *)

\* The handler is done with the message: it was forwarded, or answered.
Finished(c) ==
    /\ hpc' = [hpc EXCEPT ![c] = "idle"] /\ body' = [body EXCEPT ![c] = None]
    /\ k' = [k EXCEPT ![c] = 1] /\ written' = [written EXCEPT ![c] = {}]

\* A message arrives.  A malformed one is refused; a lone response to a request
\* of the server passes.
Receive(c, b) ==
    /\ session = "serving" /\ hpc[c] = "idle" /\ sent < MaxSent[stdio] /\ (stdio => c = Stdin)
    /\ sent' = sent + 1 /\ aware' = [aware EXCEPT ![c] = noticed]
    /\ IF b = Malformed
       THEN UNCHANGED handlers
       ELSE /\ Ids(b) \cap InFlight = {}
            /\ body' = [body EXCEPT ![c] = b]
            /\ hpc' = [hpc EXCEPT ![c] =
                 IF ~b.batch /\ b.reqs[1].method = "reply" THEN "forward" ELSE "decide"]
            /\ UNCHANGED <<k, written>>
    /\ UNCHANGED <<stdio, enforcer, server, reader, session, shown, noticed, happened>>

\* Mutant: decide does not look at frozen.
MutantAllows(r) == Gated(r) => r.tool \in Permitted

\* decide: tool calls and resource reads are gated, what names nothing included.
Allows(r) == Gated(r) => r.tool \in Permitted /\ ~(IsCall(r) /\ frozen)

\* The first loop: one refusal refuses the batch.
Decide(c) ==
    /\ hpc[c] = "decide"
    /\ IF k[c] > Len(body[c].reqs)
       THEN /\ hpc' = [hpc EXCEPT ![c] = "record"] /\ k' = [k EXCEPT ![c] = 1]
            /\ UNCHANGED <<body, written>>
       ELSE IF Allows(body[c].reqs[k[c]])
       THEN k' = [k EXCEPT ![c] = @ + 1] /\ UNCHANGED <<hpc, body, written>>
       ELSE Finished(c)
    /\ UNCHANGED <<stdio, enforcer, server, reader, session, client, happened>>

\* The second loop: a record for every request, before any is forwarded.
Record(c) ==
    /\ hpc[c] = "record" /\ k[c] <= Len(body[c].reqs)
    /\ LET r == body[c].reqs[k[c]] IN
       /\ written' = [written EXCEPT ![c] = @ \cup {k[c]}]
       /\ pendingLists' = IF r.method = "list" THEN pendingLists \cup ({r.id} \ {NoId})
                          ELSE pendingLists
       /\ happened' = IF r.method = "list" /\ body[c].batch THEN happened \cup {"batch"}
                      ELSE happened
    /\ k' = [k EXCEPT ![c] = @ + 1]
    /\ UNCHANGED <<stdio, hpc, body, frozen, inventory, changes, server, reader, session,
                   client>>

\* Mutant: the error is logged and the message goes on.
MutantRecordFails(c) ==
    /\ hpc[c] = "record" /\ k[c] <= Len(body[c].reqs) /\ "audit" \in Faults
    /\ k' = [k EXCEPT ![c] = @ + 1]
    /\ UNCHANGED <<stdio, hpc, body, written, enforcer, server, reader, session, client,
                   happened>>

RecordFails(c) ==
    /\ hpc[c] = "record" /\ k[c] <= Len(body[c].reqs) /\ "audit" \in Faults
    /\ Finished(c)
    /\ UNCHANGED <<stdio, enforcer, server, reader, session, client, happened>>

Admitted(c) ==
    /\ hpc[c] = "record" /\ k[c] > Len(body[c].reqs)
    /\ hpc' = [hpc EXCEPT ![c] = "forward"]
    /\ UNCHANGED <<stdio, body, k, written, enforcer, server, reader, session, client,
                   happened>>

\* To the server.  Over HTTP the handler then waits for the answer.
Forward(c) ==
    /\ hpc[c] = "forward"
    /\ inbox' = IF Ids(body[c]) = {} THEN inbox
                ELSE inbox \cup {[conn |-> c, body |-> body[c]]}
    /\ IF stdio \/ Ids(body[c]) = {} THEN Finished(c)
       ELSE hpc' = [hpc EXCEPT ![c] = "waiting"] /\ UNCHANGED <<body, k, written>>
    /\ UNCHANGED <<stdio, enforcer, tools, out, done, reader, session, client, happened>>

-----------------------------------------------------------------------------
(* The server *)

Redefine ==
    /\ session # "over" /\ done < MaxServer[stdio] /\ done' = done + 1
    /\ tools' \in ToolSets \ {tools}
    /\ UNCHANGED <<stdio, handlers, enforcer, inbox, out, reader, session, client,
                   happened>>

\* A request of its own, under an id of its own numbering.
Ask(id) ==
    /\ stdio /\ session # "over" /\ Happens("ask")
    /\ done < MaxServer[stdio] /\ done' = done + 1
    /\ out' = Append(out, [kind |-> "request", ids |-> {id}, tools |-> None,
                            read |-> [ids |-> {id}, tools |-> None]])
    /\ UNCHANGED <<stdio, handlers, enforcer, tools, inbox, reader, session, client>>

\* The answer: a batch is answered by an array; a list by the tools, or an error.
Answered(b, ts, read) ==
    [kind |-> IF b.batch THEN "array" ELSE "result", ids |-> Ids(b),
     tools |-> IF HasList(b) THEN ts ELSE None, read |-> read]

\* What is read of an answer in which every reader finds the same.
Plainly(b, ts) == [ids |-> Ids(b), tools |-> IF HasList(b) THEN ts ELSE None]

Sends(m, ts, read) ==
    IF stdio
    THEN out' = Append(out, Answered(m.body, ts, read)) /\ UNCHANGED <<hpc, body>>
    ELSE /\ body' = [body EXCEPT ![m.conn] = Answered(m.body, ts, read)]
         /\ hpc' = [hpc EXCEPT ![m.conn] = IF HasList(m.body) THEN "deliver" ELSE "pass"]
         /\ UNCHANGED out

Answer(m) ==
    /\ session # "over" /\ m \in inbox /\ inbox' = inbox \ {m}
    /\ \E ts \in {tools, None} : Sends(m, ts, Plainly(m.body, ts))
    /\ UNCHANGED <<stdio, k, written, enforcer, tools, done, reader, session, client,
                   happened>>

AnswerOtherwise(m) ==
    /\ session # "over" /\ m \in inbox /\ inbox' = inbox \ {m}
    /\ "form" \in Faults /\ Happens("form") /\ done < MaxServer[stdio] /\ done' = done + 1
    /\ \E read \in Otherwise : Sends(m, tools, read)
    /\ UNCHANGED <<stdio, k, written, enforcer, tools, reader, session, client>>

-----------------------------------------------------------------------------
(* ObserveResponse *)

\* Inventory.Observe: an array, an error, an empty set or what does not decode is not
\* looked at.
Observe(m) ==
    IF m.kind = "result" /\ m.read.tools \notin {None, Empty}
    THEN /\ inventory' = m.read.tools
         /\ IF inventory \notin {None, m.read.tools}
            THEN changes' = changes + 1 /\ frozen' = (frozen \/ PinTools)
            ELSE UNCHANGED <<changes, frozen>>
    ELSE UNCHANGED <<inventory, changes, frozen>>

\* requested, or an answer under the bytes of the id of a list that went out.
ObserveResponse(m, requested) ==
    /\ pendingLists' = IF requested \/ m.kind = "array" THEN pendingLists
                       ELSE pendingLists \ m.read.ids
    /\ IF requested \/ (m.kind # "array" /\ m.read.ids \cap pendingLists # {})
       THEN Observe(m) ELSE UNCHANGED <<inventory, changes, frozen>>

\* The client is shown the message.
Shown(m) ==
    IF m.tools \in {None, Empty} THEN UNCHANGED <<shown, noticed>>
    ELSE /\ shown' = m.tools
         /\ noticed' = (noticed \/ shown \notin {None, m.tools})

\* stdio: looked at, then passed on.
ReadServer ==
    /\ session # "over" /\ reader = None /\ out # <<>>
    /\ reader' = Head(out) /\ out' = Tail(out)
    /\ ObserveResponse(Head(out), FALSE)
    /\ UNCHANGED <<stdio, handlers, tools, inbox, done, session, client, happened>>

ToClient ==
    /\ session # "over" /\ reader # None /\ reader' = None
    /\ Shown(reader)
    /\ UNCHANGED <<stdio, handlers, enforcer, server, session, aware, sent, happened>>

\* HTTP: passed on, then looked at if the request asked for the list.
Deliver(c) ==
    /\ hpc[c] \in {"deliver", "pass"}
    /\ Shown(body[c])
    /\ IF hpc[c] = "pass" THEN Finished(c)
       ELSE hpc' = [hpc EXCEPT ![c] = "inspect"] /\ UNCHANGED <<body, k, written>>
    /\ UNCHANGED <<stdio, enforcer, server, reader, session, aware, sent, happened>>

\* The server or the client goes in the middle: ReverseProxy aborts the handler, which
\* skips the look.  The client may have got the whole of it.  (Of an answer that is only
\* passed on nothing is skipped.)
Abort(c) ==
    /\ hpc[c] = "deliver" /\ "broken" \in Faults /\ Happens("aborted")
    /\ Shown(body[c]) \/ UNCHANGED <<shown, noticed>>
    /\ Finished(c)
    /\ UNCHANGED <<stdio, enforcer, server, reader, session, aware, sent>>

Inspect(c) ==
    /\ hpc[c] = "inspect"
    /\ ObserveResponse(body[c], TRUE)
    /\ Finished(c)
    /\ UNCHANGED <<stdio, server, reader, session, client, happened>>

-----------------------------------------------------------------------------
(* ServeStdio, and the HTTP server *)

\* The client's stream ends, and its end is passed on.
ClientCloses ==
    /\ stdio /\ session = "serving" /\ hpc[Stdin] = "idle"
    /\ session' = "draining"
    /\ UNCHANGED <<stdio, handlers, enforcer, server, reader, client, happened>>

\* It ends in an error: a line that is too long, or a pipe that broke.
ClientFails ==
    /\ stdio /\ session = "serving" /\ hpc[Stdin] \in {"idle", "forward"} /\ Cut("broken")
    /\ session' = "over" /\ Finished(Stdin)
    /\ UNCHANGED <<stdio, enforcer, server, reader, client>>

\* What the server sent is too long, or cannot be passed on.
ReaderFails ==
    /\ session # "over" /\ reader # None /\ Cut("broken")
    /\ session' = "over"
    /\ UNCHANGED <<stdio, handlers, enforcer, server, reader, client>>

\* The server's stream ends: when it has answered everything, or early.
ServerCloses ==
    /\ stdio /\ session # "over" /\ reader = None /\ out = <<>>
    /\ \/ session = "draining" /\ inbox = {} /\ UNCHANGED happened
       \/ Cut("exit")
    /\ session' = "over"
    /\ UNCHANGED <<stdio, handlers, enforcer, server, reader, client>>

\* ctx.Done().
Stop ==
    /\ stdio /\ session # "over" /\ Cut("signal")
    /\ session' = "over"
    /\ UNCHANGED <<stdio, handlers, enforcer, server, reader, client>>

\* HTTP: a signal, from which on there are no new requests; the handlers are done; or
\* ListenAndServe fails.
StopHTTP ==
    /\ ~stdio /\ session = "serving" /\ session' = "draining"
    /\ UNCHANGED <<stdio, handlers, enforcer, server, reader, client, happened>>

Shutdown ==
    /\ ~stdio /\ session = "draining" /\ \A c \in Conns : hpc[c] = "idle"
    /\ session' = "over"
    /\ UNCHANGED <<stdio, handlers, enforcer, server, reader, client, happened>>

ListenFails ==
    /\ ~stdio /\ session = "serving" /\ Cut("broken")
    /\ session' = "over"
    /\ UNCHANGED <<stdio, handlers, enforcer, server, reader, client>>

\* StdioDrainTimeout has passed since the client closed, or the time of Shutdown.
DrainTimeout ==
    /\ session = "draining" /\ Happens("cut")
    /\ session' = "over"
    /\ UNCHANGED <<stdio, handlers, enforcer, server, reader, client>>

Handle(c) ==
    \/ Decide(c) \/ Record(c) \/ RecordFails(c) \/ Admitted(c) \/ Forward(c)
    \/ Deliver(c) \/ Inspect(c)

Reader == ReadServer \/ ToClient

Next ==
    \/ \E c \in Conns : Handle(c) \/ Abort(c) \/ \E b \in Bodies : Receive(c, b)
    \/ \E m \in inbox : Answer(m) \/ AnswerOtherwise(m)
    \/ \E id \in AllIds : Ask(id)
    \/ Redefine \/ Reader
    \/ ClientCloses \/ ClientFails \/ ServerCloses \/ ReaderFails \/ Stop
    \/ StopHTTP \/ Shutdown \/ ListenFails \/ DrainTimeout

Spec == Init /\ [][Next]_vars

-----------------------------------------------------------------------------
(* Properties *)

TypeOK ==
    /\ hpc \in [Conns -> {"idle", "decide", "record", "forward", "waiting", "deliver",
                          "pass", "inspect"}]
    /\ \A c \in Conns : k[c] \in Nat \ {0} /\ written[c] \subseteq 1..(k[c] - 1)
    /\ frozen \in BOOLEAN /\ inventory \in ToolSets \cup {None}
    /\ changes \in Nat
    /\ frozen => changes > 0
    /\ session \in {"serving", "draining", "over"} /\ noticed \in BOOLEAN

Calls(b) == {n \in 1..Len(b.reqs) : IsCall(b.reqs[n])}

\* What goes to the server was judged and recorded first: every tool call and
\* resource read in it, also in a batch, is one the policy permits, and has its
\* record (Admit: "Every allowed call is recorded BEFORE it is forwarded").
JudgedAndRecorded ==
    /\ TypeOK
    /\ \A c \in Conns : hpc[c] = "forward" =>
        \A n \in 1..Len(body[c].reqs) : Gated(body[c].reqs[n]) =>
            body[c].reqs[n].tool \in Permitted /\ n \in written[c]

\* The enforcer looks at every list, and sees what the client sees: the transport is
\* stdio, no list came in a batch (whose answer is an array, which is not looked at),
\* no request of the server took a list's id, and the server wrote every answer so
\* that ObserveResponse reads in it the id as it was sent and the tools the client
\* is shown.
Inspected == stdio /\ happened \cap {"batch", "ask", "form"} = {}

\* With PinTools, a client that has been shown changed tools gets no tool call
\* through any more (docs/coverage.md: "with pinning, calls stop").
CallsStop ==
    \A c \in Conns :
        Inspected /\ PinTools /\ aware[c] /\ hpc[c] = "forward" => Calls(body[c]) = {}

\* What such a server advertises does not change behind the enforcer's back: when
\* the client has been shown other tools than before, the change was noted.
ChangeNoted == Inspected /\ noticed => changes > 0

\* pendingLists "holds the ids of tools/list requests in flight": an id does not
\* stay there once its answer was looked at.
PendingInFlight == Inspected /\ session # "over" => pendingLists \subseteq InFlight

\* The pin on a server whose answers the enforcer reads as the client does: on stdio a
\* change of the tools is noted before the client sees it, a client that was shown one
\* gets no call through, and no list is waited for twice.  Over HTTP the change is
\* noted after the client was shown it, also when agw is being shut down, unless that
\* is cut off or the handler is aborted.
PinHolds ==
    /\ [](CallsStop /\ ChangeNoted /\ PendingInFlight)
    /\ (noticed /\ ~stdio /\ happened \cap {"batch", "form"} = {})
        ~> (changes > 0 \/ happened \cap {"cut", "aborted"} # {})

\* When neither side is cut off, the session is over with everything answered.
Drained ==
    session = "over" /\ "cut" \notin happened =>
        /\ inbox = {} /\ out = <<>> /\ reader = None
        /\ \A c \in Conns : hpc[c] = "idle"
=============================================================================
