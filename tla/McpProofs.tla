------------------------------- MODULE McpProofs -------------------------------
(***************************************************************************)
(* Proofs about McpEnforcer under AgwMcp, for any number of connections,   *)
(* any messages and batches, any policy and any tools the server may       *)
(* advertise: what reaches the server was judged and recorded, the pin on  *)
(* the tools holds on stdio, and the session ends with everything signed.  *)
(***************************************************************************)
EXTENDS AgwMcp, TLAPS

Body == Bodies \ {Malformed}

-----------------------------------------------------------------------------
(* The inductive invariants *)

\* What is in each variable.
HandlerTypes ==
    /\ hpc \in [Conns -> {"idle", "decide", "record", "forward", "waiting", "deliver",
                          "pass", "inspect"}]
    /\ body \in [Conns -> Body \cup Message \cup {None}]
    /\ k \in [Conns -> Nat \ {0}] /\ written \in [Conns -> SUBSET Nat]
    /\ aware \in [Conns -> BOOLEAN]

\* A handler holds what the client sent, then what the server answered.
InHand ==
    \A c \in Conns :
        /\ hpc[c] \in {"decide", "record", "forward", "waiting"} => body[c] \in Body
        /\ hpc[c] \in {"deliver", "pass", "inspect"} => body[c] \in Message

WireTypes ==
    /\ tools \in ToolSets /\ inbox \subseteq [conn : Conns, body : Body]
    /\ out \in Seq(Message) /\ reader \in Message \cup {None}

OtherTypes ==
    /\ noticed \in BOOLEAN /\ frozen \in BOOLEAN /\ changes \in Nat /\ stdio \in BOOLEAN
    /\ inventory \in ToolSets \cup {None} /\ shown \in ToolSets \cup {None}
    /\ session \in {"serving", "draining", "over"}
    /\ frozen => changes > 0

Types == HandlerTypes /\ InHand /\ WireTypes /\ OtherTypes

\* How far Admit is with the message in hand: up to k everything is permitted, then
\* up to k everything is recorded.
Admitting(c) ==
    /\ written[c] \subseteq 1..(k[c] - 1)
    /\ hpc[c] = "idle" => k[c] = 1 /\ written[c] = {}
    /\ hpc[c] = "decide" =>
        /\ k[c] <= Len(body[c].reqs) + 1 /\ written[c] = {}
        /\ \A n \in 1..(k[c] - 1) : Gated(body[c].reqs[n]) => body[c].reqs[n].tool \in Permitted
    /\ hpc[c] = "record" =>
        /\ k[c] <= Len(body[c].reqs) + 1 /\ written[c] = 1..(k[c] - 1)
        /\ \A n \in 1..Len(body[c].reqs) :
            Gated(body[c].reqs[n]) => body[c].reqs[n].tool \in Permitted
    /\ hpc[c] = "forward" =>
        \A n \in 1..Len(body[c].reqs) : Gated(body[c].reqs[n]) =>
            body[c].reqs[n].tool \in Permitted /\ n \in written[c]

AdmitInv == \A c \in Conns : Admitting(c)

\* The two transports: over HTTP the server answers the handler that waits; on stdio
\* one handler reads the client, and none once the client has closed.
HttpInv ==
    ~stdio => /\ reader = None /\ out = <<>>
              /\ \A m \in inbox : hpc[m.conn] = "waiting" /\ body[m.conn] = m.body

StdioInv ==
    stdio => /\ hpc[Stdin] \in {"idle", "decide", "record", "forward"}
             /\ \A c \in Conns \ {Stdin} : hpc[c] = "idle"
             /\ session = "draining" => hpc[Stdin] = "idle"

TransportInv == HttpInv /\ StdioInv

\* runMCP goes on to its last checkpoint only once the server it started is gone.
CommandInv == cmd \in {"final", "close", "leave", "exited"} /\ stdio => ~alive

-----------------------------------------------------------------------------
(* The pin on stdio *)

\* The requests of the message in hand whose list is announced, or will not be.
ListRecorded(b, n) ==
    b.reqs[n].method = "list" => ~b.batch /\ {b.reqs[n].id} \ {NoId} \subseteq pendingLists

\* The enforcer reads in an answer what the client does.
Plain(m) == m.read.ids = m.ids /\ m.read.tools = m.tools

\* Every list that goes to the server, and every answer with tools, is waited for.
Announced ==
    /\ hpc[Stdin] = "record" => \A n \in 1..(k[Stdin] - 1) : ListRecorded(body[Stdin], n)
    /\ hpc[Stdin] = "forward" =>
        \A n \in 1..Len(body[Stdin].reqs) : ListRecorded(body[Stdin], n)
    /\ \A m \in inbox :
        Ids(m.body) # {} /\ \A n \in 1..Len(m.body.reqs) : ListRecorded(m.body, n)
    /\ \A n \in 1..Len(out) :
        /\ out[n].kind # "request" /\ Plain(out[n])
        /\ out[n].tools # None => out[n].kind = "result" /\ out[n].ids \cap pendingLists # {}
    /\ reader # None => reader.kind # "request"

\* No two messages on their way have an id in common.
Disjoint ==
    /\ hpc[Stdin] # "idle" =>
        /\ \A m \in inbox : Ids(body[Stdin]) \cap Ids(m.body) = {}
        /\ \A n \in 1..Len(out) : Ids(body[Stdin]) \cap out[n].ids = {}
    /\ \A m1, m2 \in inbox : m1 # m2 => Ids(m1.body) \cap Ids(m2.body) = {}
    /\ \A m \in inbox, n \in 1..Len(out) : Ids(m.body) \cap out[n].ids = {}
    /\ \A i, j \in 1..Len(out) : i # j => out[i].ids \cap out[j].ids = {}

\* Every id that is waited for is on its way, and not in a batch.
Waited ==
    /\ NoId \notin pendingLists
    /\ session # "over" => \A id \in pendingLists :
        \/ \E m \in inbox : id \in Ids(m.body) /\ ~m.body.batch
        \/ \E n \in 1..Len(out) : id \in out[n].ids /\ out[n].kind = "result"
        \/ hpc[Stdin] = "forward" /\ id \in Ids(body[Stdin]) /\ ~body[Stdin].batch
        \/ /\ hpc[Stdin] = "record"
           /\ \E n \in 1..(k[Stdin] - 1) : /\ body[Stdin].reqs[n].method = "list"
                                           /\ body[Stdin].reqs[n].id = id

\* A change was noted, and with PinTools stopped the calls.
Noted == changes > 0 /\ (PinTools => frozen)

\* The enforcer is at most the message in the reader's hands ahead of the client.
Ahead ==
    /\ IF reader = None \/ reader.tools \in {None, Empty} THEN inventory = shown
       ELSE inventory = reader.tools /\ (shown \notin {None, reader.tools} => Noted)
    /\ noticed => Noted
    /\ \A c \in Conns : aware[c] => noticed

\* A client that has seen a change gets no call past decide.
Stopped ==
    PinTools => \A c \in Conns : aware[c] =>
        /\ hpc[c] = "decide" => \A n \in 1..(k[c] - 1) : ~IsCall(body[c].reqs[n])
        /\ hpc[c] \in {"record", "forward"} =>
            \A n \in 1..Len(body[c].reqs) : ~IsCall(body[c].reqs[n])

Pinned == Announced /\ Disjoint /\ Waited /\ Ahead /\ Stopped

PinInv == Inspected => Pinned

SessionInv == Types /\ AdmitInv /\ TransportInv /\ PinInv /\ Drained

McpInv == SessionInv /\ CommandInv /\ SessionSigned

-----------------------------------------------------------------------------
(* Messages *)

\* The ids of a message are those of its requests.
LEMMA BodyFacts ==
    ASSUME NEW b \in Body
    PROVE  /\ Len(b.reqs) \in Nat /\ b.batch \in BOOLEAN
           /\ ~b.batch => Len(b.reqs) = 1
           /\ \A n \in 1..Len(b.reqs) : b.reqs[n].id # NoId => b.reqs[n].id \in Ids(b)
           /\ \A id \in Ids(b) : \E n \in 1..Len(b.reqs) : b.reqs[n].id = id
           /\ NoId \notin Ids(b)
           /\ HasList(b) <=> \E n \in 1..Len(b.reqs) : b.reqs[n].method = "list"
  <1>1. b.reqs \in Seq(Requests(b)) /\ b.batch \in BOOLEAN /\ (~b.batch => Len(b.reqs) = 1)
    BY BodyAssumptions DEF Body
  <1>2. Len(b.reqs) \in Nat
    BY <1>1
  <1> QED BY <1>1, <1>2 DEF Ids, HasList, Requests

\* The server answers with a message.
LEMMA AnsweredIsMessage ==
    ASSUME NEW b \in Body, NEW ts \in ToolSets \cup {None}
    PROVE  /\ Plainly(b, ts) \in Reading
           /\ \A read \in Reading : Answered(b, ts, read) \in Message
  <1>1. Ids(b) \in SUBSET AllIds
    BY DEF Body, AllIds
  <1>2. Plainly(b, ts) \in Reading
    BY <1>1 DEF Plainly, Reading
  <1>3. ASSUME NEW read \in Reading
        PROVE  Answered(b, ts, read) \in Message
    BY <1>1, <1>3 DEF Answered, Message
  <1> QED BY <1>2, <1>3

-----------------------------------------------------------------------------
(* The steps *)

\* The end of a session, or a step towards it, changes nothing else.
EndsOnly ==
    /\ UNCHANGED <<stdio, handlers, enforcer, server, reader, client>>
    /\ happened \subseteq happened' /\ session' \in {"draining", "over"}
    /\ session = "over" => session' = "over"

\* The server answers, one way or the other.
Answers(m) == Answer(m) \/ AnswerOtherwise(m)

\* What an answer changes, and what it is.
LEMMA AnswerSteps ==
    ASSUME WireTypes, OtherTypes, NEW m \in inbox, Answers(m)
    PROVE  /\ m.conn \in Conns /\ m.body \in Body /\ session # "over"
           /\ inbox' = inbox \ {m} /\ happened \subseteq happened'
           /\ UNCHANGED <<stdio, k, written, enforcer, tools, reader, session, client>>
           /\ \E a \in Message :
                /\ a.kind = (IF m.body.batch THEN "array" ELSE "result")
                /\ a.ids = Ids(m.body) /\ (a.tools # None => HasList(m.body))
                /\ "form" \notin happened' => Plain(a)
                /\ IF stdio THEN out' = Append(out, a) /\ UNCHANGED <<hpc, body>>
                   ELSE /\ body' = [body EXCEPT ![m.conn] = a]
                        /\ hpc' = [hpc EXCEPT ![m.conn] =
                                        IF HasList(m.body) THEN "deliver" ELSE "pass"]
                        /\ UNCHANGED out
  <1>1. m.conn \in Conns /\ m.body \in Body
    BY DEF WireTypes
  <1>2. PICK ts \in ToolSets \cup {None}, read \in Reading :
          /\ Sends(m, ts, read)
          /\ "form" \notin happened' => read = Plainly(m.body, ts)
    <2>1. CASE Answer(m)
      <3>1. PICK ts \in {tools, None} : Sends(m, ts, Plainly(m.body, ts))
        BY <2>1 DEF Answer
      <3> QED BY <1>1, <3>1, AnsweredIsMessage DEF WireTypes
    <2>2. CASE AnswerOtherwise(m)
      <3>1. PICK read \in Otherwise : Sends(m, tools, read) /\ "form" \in happened'
        BY <2>2 DEF AnswerOtherwise, Happens
      <3> QED BY <3>1, BodyAssumptions DEF WireTypes
    <2> QED BY <2>1, <2>2 DEF Answers
  <1> DEFINE a == Answered(m.body, ts, read)
  <1>3. /\ a \in Message /\ a.kind = (IF m.body.batch THEN "array" ELSE "result")
        /\ a.ids = Ids(m.body) /\ (a.tools # None => HasList(m.body))
        /\ "form" \notin happened' => Plain(a)
    <2>1. a \in Message
      BY <1>1, <1>2, AnsweredIsMessage
    <2>2. /\ a.kind = (IF m.body.batch THEN "array" ELSE "result") /\ a.ids = Ids(m.body)
          /\ a.tools = (IF HasList(m.body) THEN ts ELSE None) /\ a.read = read
      BY DEF Answered
    <2>3. /\ Plainly(m.body, ts).ids = Ids(m.body)
          /\ Plainly(m.body, ts).tools = (IF HasList(m.body) THEN ts ELSE None)
      BY DEF Plainly
    <2> HIDE DEF a
    <2> QED BY <1>2, <2>1, <2>2, <2>3 DEF Plain
  <1>4. IF stdio THEN out' = Append(out, a) /\ UNCHANGED <<hpc, body>>
        ELSE /\ body' = [body EXCEPT ![m.conn] = a]
             /\ hpc' = [hpc EXCEPT ![m.conn] = IF HasList(m.body) THEN "deliver" ELSE "pass"]
             /\ UNCHANGED out
    BY <1>2 DEF Sends
  <1>5. /\ inbox' = inbox \ {m} /\ happened \subseteq happened' /\ session # "over"
        /\ UNCHANGED <<stdio, k, written, enforcer, tools, reader, session, client>>
    BY DEF Answers, Answer, AnswerOtherwise, Happens
  <1> HIDE DEF a
  <1> QED BY <1>1, <1>3, <1>4, <1>5

\* Which steps these are.
LEMMA EndSteps ==
    ASSUME \/ ClientCloses \/ ServerCloses \/ ReaderFails \/ Stop
           \/ StopHTTP \/ Shutdown \/ ListenFails \/ DrainTimeout
    PROVE  EndsOnly
  BY DEF EndsOnly, ClientCloses, ServerCloses, ReaderFails, Stop, StopHTTP, Shutdown,
     ListenFails, DrainTimeout, Cut, Happens

\* What runMCP does once the session is over leaves it alone, but for forgetting it.
AfterOnly ==
    /\ UNCHANGED <<stdio, handlers, enforcer, server, reader, session, client>>
    /\ happened \subseteq happened' /\ happened' \subseteq happened \cup {"unsigned"}

\* A step of agw mcp is one of the session, its end, or one of runMCP.
LEMMA CommandSteps ==
    ASSUME McpNext
    PROVE  (cmd = "serve" /\ Next /\ UNCHANGED <<cmd, alive, unsigned>>) \/ Returns \/ AfterOnly
  BY DEF McpNext, Serving, runMCP, AfterOnly, sessionEnded, Terminate, Kill, Reaped,
     FinalCheckpoint, CloseSink, Exit, ServerExits, Late, Tick, Checkpoint, Happens, vars,
     handlers, enforcer, server, client

\* A step of the session, by what it does.
LEMMA NextSteps ==
    ASSUME Next
    PROVE  \/ \E c \in Conns : \/ Decide(c) \/ Record(c) \/ RecordFails(c) \/ Admitted(c)
                               \/ Forward(c) \/ Deliver(c) \/ Inspect(c) \/ Abort(c)
                               \/ \E b \in Bodies : Receive(c, b)
           \/ \E m \in inbox : Answers(m)
           \/ \E id \in AllIds : Ask(id)
           \/ Redefine \/ ReadServer \/ ToClient \/ ClientFails
           \/ EndsOnly
  BY EndSteps DEF Next, Handle, Reader, Answers

-----------------------------------------------------------------------------
(* Types *)

\* What a handler does to the message in its hands.
LEMMA TypesHandler ==
    ASSUME Types, NEW c \in Conns,
           \/ Decide(c) \/ Record(c) \/ RecordFails(c) \/ Admitted(c)
           \/ Forward(c) \/ Deliver(c) \/ Inspect(c) \/ Abort(c)
           \/ \E b \in Bodies : Receive(c, b)
    PROVE  Types'
  <1> USE DEF Types
  <1>1. HandlerTypes'
    <2> USE DEF HandlerTypes, handlers, client, Finished
    <2> k[c] \in Nat \ {0} /\ k[c] + 1 \in Nat \ {0}
      OBVIOUS
    <2>0. CASE Finished(c) /\ UNCHANGED aware
      BY <2>0
    <2>1. CASE Decide(c)
      <3>1. CASE k[c] > Len(body[c].reqs)
        <4>1. /\ hpc' = [hpc EXCEPT ![c] = "record"] /\ k' = [k EXCEPT ![c] = 1]
              /\ body' = body /\ written' = written /\ aware' = aware
          BY <2>1, <3>1 DEF Decide
        <4> QED BY <4>1
      <3>2. CASE ~(k[c] > Len(body[c].reqs)) /\ Allows(body[c].reqs[k[c]])
        <4>1. /\ k' = [k EXCEPT ![c] = @ + 1] /\ hpc' = hpc
              /\ body' = body /\ written' = written /\ aware' = aware
          BY <2>1, <3>2 DEF Decide
        <4> QED BY <4>1
      <3>3. CASE ~(k[c] > Len(body[c].reqs)) /\ ~Allows(body[c].reqs[k[c]])
        BY <2>0, <2>1, <3>3 DEF Decide
      <3> QED BY <3>1, <3>2, <3>3
    <2>2. CASE Record(c) \/ RecordFails(c) \/ Admitted(c)
      <3>1. CASE Record(c)
        BY <3>1 DEF Record
      <3> QED BY <2>0, <2>2, <3>1 DEF RecordFails, Admitted
    <2>3. CASE Forward(c)
      BY <2>3 DEF Forward
    <2>4. CASE Deliver(c)
      BY <2>4 DEF Deliver
    <2>5. CASE Inspect(c) \/ Abort(c)
      BY <2>0, <2>5 DEF Inspect, Abort
    <2>6. ASSUME NEW b \in Bodies, Receive(c, b)
          PROVE  HandlerTypes'
      BY <2>6 DEF Receive, Body, OtherTypes
    <2> QED BY <2>1, <2>2, <2>3, <2>4, <2>5, <2>6
  <1>2. InHand'
    <2> USE DEF HandlerTypes, InHand, handlers, Finished
    <2>1. CASE Decide(c)
      BY <2>1 DEF Decide
    <2>2. CASE Record(c) \/ RecordFails(c) \/ Admitted(c)
      BY <2>2 DEF Record, RecordFails, Admitted
    <2>3. CASE Forward(c)
      BY <2>3 DEF Forward
    <2>4. CASE Deliver(c)
      BY <2>4 DEF Deliver
    <2>5. CASE Inspect(c) \/ Abort(c)
      BY <2>5 DEF Inspect, Abort
    <2>6. ASSUME NEW b \in Bodies, Receive(c, b)
          PROVE  InHand'
      BY <2>6 DEF Receive, Body
    <2> QED BY <2>1, <2>2, <2>3, <2>4, <2>5, <2>6
  <1>3. WireTypes'
    <2>1. CASE Forward(c)
      BY <2>1 DEF WireTypes, InHand, Forward
    <2> QED
      BY <2>1 DEF WireTypes, server, Decide, Record, RecordFails, Admitted, Deliver,
         Inspect, Abort, Receive
  <1>4. OtherTypes'
    <2>1. CASE Deliver(c) \/ Abort(c)
      <3>1. /\ body[c] \in Message /\ (Shown(body[c]) \/ UNCHANGED <<shown, noticed>>)
            /\ UNCHANGED <<stdio, enforcer, session>>
        BY <2>1 DEF InHand, Deliver, Abort
      <3>2. body[c].tools \in ToolSets \cup {None}
        BY <3>1 DEF Message
      <3> QED BY <3>1, <3>2 DEF OtherTypes, Shown, enforcer
    <2>2. CASE Inspect(c)
      BY <2>2, McpAssumptions
      DEF OtherTypes, InHand, Inspect, ObserveResponse, Observe, Message, Reading, client
    <2> QED
      BY <2>1, <2>2 DEF OtherTypes, enforcer, client, Decide, Record, RecordFails, Admitted,
         Forward, Receive
  <1> QED BY <1>1, <1>2, <1>3, <1>4

\* An answer of the server reaches the handler that waits for it, or the reader.
LEMMA TypesAnswer ==
    ASSUME Types, NEW m \in inbox, Answers(m)
    PROVE  Types'
  <1>1. /\ m.conn \in Conns /\ inbox' = inbox \ {m}
        /\ UNCHANGED <<stdio, k, written, enforcer, tools, reader, session, client>>
    BY AnswerSteps DEF Types
  <1>2. PICK a \in Message :
          IF stdio THEN out' = Append(out, a) /\ UNCHANGED <<hpc, body>>
          ELSE /\ body' = [body EXCEPT ![m.conn] = a]
               /\ hpc' = [hpc EXCEPT ![m.conn] = IF HasList(m.body) THEN "deliver" ELSE "pass"]
               /\ UNCHANGED out
    BY AnswerSteps DEF Types
  <1>3. HandlerTypes' /\ InHand'
    BY <1>1, <1>2 DEF Types, HandlerTypes, InHand, client
  <1>4. WireTypes'
    BY <1>1, <1>2 DEF Types, WireTypes
  <1>5. OtherTypes'
    BY <1>1 DEF Types, OtherTypes, enforcer, client
  <1> QED BY <1>3, <1>4, <1>5 DEF Types

\* The other steps of the server, of its reader, and the end of the session.
LEMMA TypesOthers ==
    ASSUME Types,
           \/ \E id \in AllIds : Ask(id)
           \/ Redefine \/ ReadServer \/ ToClient \/ ClientFails \/ EndsOnly
    PROVE  Types'
  <1>1. HandlerTypes' /\ InHand'
    <2>1. CASE ClientFails
      BY <2>1, McpAssumptions
      DEF Types, HandlerTypes, InHand, ClientFails, Finished, handlers, client
    <2> QED
      BY <2>1 DEF Types, HandlerTypes, InHand, handlers, client, Ask, Redefine, ReadServer,
         ToClient, EndsOnly
  <1>2. WireTypes'
    <2>1. ASSUME NEW id \in AllIds, Ask(id)
          PROVE  WireTypes'
      <3>1. [kind |-> "request", ids |-> {id}, tools |-> None,
             read |-> [ids |-> {id}, tools |-> None]] \in Message
        BY <2>1 DEF Message, Reading
      <3> QED BY <2>1, <3>1 DEF Types, WireTypes, Ask
    <2>2. CASE ReadServer
      <3>1. Head(out) \in Message /\ Tail(out) \in Seq(Message)
        BY <2>2 DEF Types, WireTypes, ReadServer
      <3> QED BY <2>2, <3>1 DEF Types, WireTypes, ReadServer
    <2> QED
      BY <2>1, <2>2 DEF Types, WireTypes, server, Redefine, ToClient, ClientFails, EndsOnly
  <1>3. OtherTypes'
    <2>1. CASE ReadServer
      <3>1. Head(out) \in Message
        BY <2>1 DEF Types, WireTypes, ReadServer
      <3> QED
        BY <2>1, <3>1, McpAssumptions
        DEF Types, OtherTypes, ReadServer, ObserveResponse, Observe, Message, Reading, client
    <2>2. CASE ToClient
      BY <2>2 DEF Types, WireTypes, OtherTypes, ToClient, Shown, Message, enforcer
    <2>3. CASE EndsOnly
      BY <2>3 DEF Types, OtherTypes, enforcer, client, EndsOnly
    <2>4. CASE ClientFails
      BY <2>4 DEF Types, OtherTypes, enforcer, client, ClientFails
    <2>5. ASSUME NEW id, Ask(id)
          PROVE  OtherTypes'
      BY <2>5 DEF Types, OtherTypes, enforcer, client, Ask
    <2>6. CASE Redefine
      BY <2>6 DEF Types, OtherTypes, enforcer, client, Redefine
    <2> QED
      BY <2>1, <2>2, <2>3, <2>4, <2>5, <2>6
  <1> QED BY <1>1, <1>2, <1>3 DEF Types

-----------------------------------------------------------------------------
(* Admit *)

\* A handler whose message and stage do not change is as far as it was.
LEMMA AdmittingKept ==
    ASSUME NEW c \in Conns, Admitting(c),
           hpc'[c] = hpc[c], body'[c] = body[c], k'[c] = k[c], written'[c] = written[c]
    PROVE  Admitting(c)'
  BY DEF Admitting

\* The first loop looks at every request, the second records every one, and nothing
\* else leads to the server but a lone reply.
LEMMA AdmitHandler ==
    ASSUME Types, AdmitInv, NEW c \in Conns,
           \/ Decide(c) \/ Record(c) \/ RecordFails(c) \/ Admitted(c)
           \/ Forward(c) \/ Deliver(c) \/ Inspect(c) \/ Abort(c)
           \/ \E b \in Bodies : Receive(c, b)
    PROVE  AdmitInv'
  <1>1. ASSUME NEW d \in Conns, d # c
        PROVE  Admitting(d)'
    <2>1. hpc'[d] = hpc[d] /\ body'[d] = body[d] /\ k'[d] = k[d] /\ written'[d] = written[d]
      BY <1>1 DEF Types, HandlerTypes, Decide, Record, RecordFails, Admitted, Forward, Deliver,
         Inspect, Abort, Receive, Finished, handlers
    <2> QED BY <2>1, AdmittingKept DEF AdmitInv
  <1>2. Admitting(c)'
    <2> USE DEF AdmitInv, Admitting, Types, HandlerTypes
    <2>0. CASE Finished(c)
      BY <2>0 DEF Finished
    <2>1. CASE Decide(c)
      <3>1. Len(body[c].reqs) \in Nat /\ k[c] \in Nat
        BY <2>1, BodyFacts DEF Decide, InHand
      <3>2. CASE k[c] > Len(body[c].reqs)
        BY <2>1, <3>1, <3>2 DEF Decide
      <3>3. CASE ~(k[c] > Len(body[c].reqs)) /\ Allows(body[c].reqs[k[c]])
        BY <2>1, <3>1, <3>3 DEF Decide, Allows
      <3>4. CASE ~(k[c] > Len(body[c].reqs)) /\ ~Allows(body[c].reqs[k[c]])
        BY <2>0, <2>1, <3>4 DEF Decide
      <3> QED BY <3>2, <3>3, <3>4
    <2>2. CASE Record(c)
      <3>1. Len(body[c].reqs) \in Nat /\ k[c] \in Nat
        BY <2>2, BodyFacts DEF Record, InHand
      <3> QED BY <2>2, <3>1 DEF Record
    <2>3. CASE RecordFails(c)
      BY <2>0, <2>3 DEF RecordFails
    <2>4. CASE Admitted(c)
      <3>1. Len(body[c].reqs) \in Nat /\ k[c] \in Nat
        BY <2>4, BodyFacts DEF Admitted, InHand
      <3> QED BY <2>4, <3>1 DEF Admitted
    <2>5. CASE Forward(c) \/ Deliver(c) \/ Inspect(c) \/ Abort(c)
      BY <2>0, <2>5 DEF Forward, Deliver, Inspect, Abort
    <2>6. ASSUME NEW b \in Bodies, Receive(c, b)
          PROVE  Admitting(c)'
      <3>1. CASE b = Malformed
        BY <2>6, <3>1 DEF Receive, handlers
      <3>2. CASE b # Malformed
        <4>1. b \in Body
          BY <3>2 DEF Body
        <4> QED BY <2>6, <3>2, <4>1, BodyFacts DEF Receive, Gated
      <3> QED BY <3>1, <3>2
    <2> QED BY <2>1, <2>2, <2>3, <2>4, <2>5, <2>6
  <1> QED BY <1>1, <1>2 DEF AdmitInv

\* The steps of the others.
LEMMA AdmitOthers ==
    ASSUME Types, AdmitInv,
           \/ \E m \in inbox : Answers(m)
           \/ \E id \in AllIds : Ask(id)
           \/ Redefine \/ ReadServer \/ ToClient \/ ClientFails \/ EndsOnly
    PROVE  AdmitInv'
  <1>1. ASSUME NEW m \in inbox, Answers(m)
        PROVE  AdmitInv'
    <2>1. /\ m.conn \in Conns /\ k' = k /\ written' = written
          /\ \A d \in Conns :
                \/ hpc'[d] = hpc[d] /\ body'[d] = body[d]
                \/ d = m.conn /\ hpc'[d] \in {"deliver", "pass"}
      BY <1>1, AnswerSteps DEF Types, HandlerTypes
    <2> QED BY <2>1 DEF AdmitInv, Admitting
  <1>2. CASE ClientFails
    BY <1>2, McpAssumptions
    DEF Types, HandlerTypes, AdmitInv, Admitting, ClientFails, Finished
  <1>3. CASE UNCHANGED handlers
    BY <1>3, AdmittingKept DEF AdmitInv, handlers
  <1>4. ASSUME NEW id, Ask(id)
        PROVE  UNCHANGED handlers
    BY <1>4 DEF Ask
  <1> QED
    BY <1>1, <1>2, <1>3, <1>4 DEF Redefine, ReadServer, ToClient, EndsOnly

-----------------------------------------------------------------------------
(* The transports, and the end of the session *)

\* A handler that waits has its message at the server, and the reader of stdio never
\* waits.
LEMMA TransportHandler ==
    ASSUME Types, TransportInv, NEW c \in Conns,
           \/ Decide(c) \/ Record(c) \/ RecordFails(c) \/ Admitted(c)
           \/ Forward(c) \/ Deliver(c) \/ Inspect(c) \/ Abort(c)
           \/ \E b \in Bodies : Receive(c, b)
    PROVE  TransportInv'
  <1>1. /\ hpc[c] # "waiting" /\ stdio' = stdio /\ reader' = reader /\ out' = out
        /\ session' = session
        /\ \A d \in Conns \ {c} : hpc'[d] = hpc[d] /\ body'[d] = body[d]
    BY DEF Types, HandlerTypes, Decide, Record, RecordFails, Admitted, Forward, Deliver,
       Inspect, Abort, Receive, Finished, handlers, server
  <1>2. HttpInv'
    <2>1. CASE Forward(c)
      BY <1>1, <2>1
      DEF Types, HandlerTypes, WireTypes, TransportInv, HttpInv, Forward, Finished
    <2>2. CASE ~Forward(c)
      <3>1. inbox' = inbox
        BY <2>2 DEF Decide, Record, RecordFails, Admitted, Deliver, Inspect, Abort, Receive, server
      <3> QED BY <1>1, <3>1 DEF Types, WireTypes, TransportInv, HttpInv
    <2> QED BY <2>1, <2>2
  <1>3. StdioInv'
    <2> SUFFICES ASSUME stdio
                 PROVE  /\ hpc'[Stdin] \in {"idle", "decide", "record", "forward"}
                        /\ \A d \in Conns \ {Stdin} : hpc'[d] = "idle"
                        /\ session = "draining" => hpc'[Stdin] = "idle"
      BY <1>1 DEF StdioInv
    <2>1. CASE \E b \in Bodies : Receive(c, b)
      BY <1>1, <2>1, McpAssumptions
      DEF Types, HandlerTypes, TransportInv, StdioInv, Receive, handlers
    <2>2. CASE ~ \E b \in Bodies : Receive(c, b)
      <3>1. hpc[c] # "idle"
        BY <2>2 DEF Decide, Record, RecordFails, Admitted, Forward, Deliver, Inspect, Abort
      <3>2. c = Stdin /\ hpc[c] \in {"decide", "record", "forward"} /\ session # "draining"
        BY <3>1 DEF TransportInv, StdioInv
      <3>3. hpc'[c] \in {"idle", "decide", "record", "forward"}
        BY <2>2, <3>2
        DEF Types, HandlerTypes, Decide, Record, RecordFails, Admitted, Forward, Deliver,
            Inspect, Abort, Finished
      <3> QED BY <1>1, <3>2, <3>3 DEF TransportInv, StdioInv
    <2> QED BY <2>1, <2>2
  <1> QED BY <1>2, <1>3 DEF TransportInv

\* The server answers one waiting handler, and no other waits for the same.
LEMMA TransportAnswer ==
    ASSUME Types, TransportInv, NEW m \in inbox, Answers(m)
    PROVE  TransportInv'
  <1>1. /\ m.conn \in Conns /\ inbox' = inbox \ {m}
        /\ stdio' = stdio /\ reader' = reader /\ session' = session
        /\ stdio => hpc' = hpc
        /\ ~stdio => out' = out /\ \A d \in Conns \ {m.conn} : hpc'[d] = hpc[d]
                                                         /\ body'[d] = body[d]
    BY AnswerSteps DEF Types, HandlerTypes
  <1>2. StdioInv'
    BY <1>1 DEF TransportInv, StdioInv
  <1>3. HttpInv'
    <2> SUFFICES ASSUME ~stdio, NEW n \in inbox'
                 PROVE  hpc'[n.conn] = "waiting" /\ body'[n.conn] = n.body
      BY <1>1 DEF TransportInv, HttpInv
    <2>1. n \in inbox /\ n # m /\ n.conn \in Conns
      BY <1>1 DEF Types, WireTypes
    <2>2. n.conn # m.conn
      <3>1. n.conn = m.conn => n.body = m.body
        BY <2>1 DEF TransportInv, HttpInv
      <3> QED BY <2>1, <3>1 DEF Types, WireTypes
    <2> QED BY <1>1, <2>1, <2>2 DEF TransportInv, HttpInv
  <1> QED BY <1>2, <1>3 DEF TransportInv

\* The steps of the others.
LEMMA TransportOthers ==
    ASSUME Types, TransportInv,
           \/ \E id \in AllIds : Ask(id)
           \/ Redefine \/ ReadServer \/ ToClient \/ ClientFails
           \/ ClientCloses \/ ServerCloses \/ ReaderFails \/ Stop
           \/ StopHTTP \/ Shutdown \/ ListenFails \/ DrainTimeout
    PROVE  TransportInv'
  <1> USE DEF TransportInv, HttpInv, StdioInv
  <1>1. ASSUME NEW id, Ask(id)
        PROVE  TransportInv'
    BY <1>1 DEF Ask, handlers
  <1>2. CASE Redefine
    BY <1>2 DEF Redefine, handlers
  <1>3. CASE ReadServer \/ ToClient
    <2>1. stdio /\ stdio' = stdio /\ hpc' = hpc /\ session' = session
      BY <1>3 DEF ReadServer, ToClient, handlers, Types, OtherTypes
    <2> QED BY <2>1
  <1>4. CASE ClientFails
    BY <1>4, McpAssumptions DEF ClientFails, Finished, server, Types, HandlerTypes
  <1>5. CASE ClientCloses \/ StopHTTP
    BY <1>5 DEF ClientCloses, StopHTTP, handlers, server
  <1>6. CASE ServerCloses \/ ReaderFails \/ Stop \/ Shutdown \/ ListenFails \/ DrainTimeout
    BY <1>6 DEF ServerCloses, ReaderFails, Stop, Shutdown, ListenFails, DrainTimeout,
       handlers, server
  <1> QED BY <1>1, <1>2, <1>3, <1>4, <1>5, <1>6

\* A session ends with everything answered, or it is cut off; when it has, nothing
\* is left to do.
LEMMA DrainedStep ==
    ASSUME Types, TransportInv, Drained, Next
    PROVE  Drained'
  <1> USE DEF Drained, Types, HandlerTypes, WireTypes
  <1>1. ASSUME NEW c \in Conns,
               \/ Decide(c) \/ Record(c) \/ RecordFails(c) \/ Admitted(c)
               \/ Forward(c) \/ Deliver(c) \/ Inspect(c) \/ Abort(c)
               \/ \E b \in Bodies : Receive(c, b)
        PROVE  Drained'
    BY <1>1 DEF Decide, Record, RecordFails, Admitted, Forward, Deliver, Inspect, Abort,
       Receive, Happens
  <1>2. ASSUME NEW m \in inbox, Answers(m)
        PROVE  Drained'
    BY <1>2 DEF Answers, Answer, AnswerOtherwise, Happens
  <1>3. ASSUME NEW id, Ask(id)
        PROVE  Drained'
    BY <1>3 DEF Ask
  <1>4. CASE Redefine \/ ReadServer \/ ToClient
    BY <1>4 DEF Redefine, ReadServer, ToClient
  <1>5. CASE ClientFails \/ ReaderFails \/ Stop \/ ListenFails \/ DrainTimeout
    BY <1>5 DEF ClientFails, ReaderFails, Stop, ListenFails, DrainTimeout, Cut, Happens
  <1>6. CASE ClientCloses \/ StopHTTP
    BY <1>6 DEF ClientCloses, StopHTTP
  <1>7. CASE ServerCloses
    BY <1>7 DEF ServerCloses, TransportInv, HttpInv, StdioInv, Cut, Happens, handlers, server
  <1>8. CASE Shutdown
    BY <1>8 DEF Shutdown, TransportInv, HttpInv, handlers, server
  <1> QED
    BY <1>1, <1>2, <1>3, <1>4, <1>5, <1>6, <1>7, <1>8 DEF Next, Handle, Reader, Answers

-----------------------------------------------------------------------------
(* The pin is kept *)

\* No step of the session brings back a transport whose lists are all looked at.
LEMMA InspectedBefore ==
    ASSUME Next, Inspected'
    PROVE  Inspected /\ stdio' = stdio
  <1>1. happened \subseteq happened' /\ stdio' = stdio
    <2>1. ASSUME NEW c \in Conns,
               \/ Decide(c) \/ Record(c) \/ RecordFails(c) \/ Admitted(c)
               \/ Forward(c) \/ Deliver(c) \/ Inspect(c) \/ Abort(c)
               \/ \E b \in Bodies : Receive(c, b)
          PROVE  happened \subseteq happened' /\ stdio' = stdio
      BY <2>1 DEF Decide, Record, RecordFails, Admitted, Forward, Deliver, Inspect, Abort,
         Receive, Happens
    <2>2. ASSUME NEW m, Answers(m)
          PROVE  happened \subseteq happened' /\ stdio' = stdio
      BY <2>2 DEF Answers, Answer, AnswerOtherwise, Happens
    <2>3. ASSUME NEW id, Ask(id)
          PROVE  happened \subseteq happened' /\ stdio' = stdio
      BY <2>3 DEF Ask, Happens
    <2> QED
      BY <2>1, <2>2, <2>3, NextSteps
      DEF Redefine, ReadServer, ToClient, ClientFails, EndsOnly, Cut, Happens
  <1> QED BY <1>1 DEF Inspected

\* What the client waits for.
LEMMA InFlightFacts ==
    /\ \A m \in inbox : Ids(m.body) \subseteq InFlight
    /\ \A n \in 1..Len(out) : out[n].kind # "request" => out[n].ids \subseteq InFlight
  <1>1. \A m \in inbox : Ids(m.body) \subseteq AtServer
    BY DEF AtServer
  <1>2. \A n \in 1..Len(out) : out[n].kind # "request" => out[n].ids \subseteq FromServer
    BY DEF FromServer
  <1> QED BY <1>1, <1>2 DEF InFlight

\* A new message has ids of its own, and the client's awareness is that of the moment.
LEMMA PinReceive ==
    ASSUME Types, AdmitInv, TransportInv, Inspected, Pinned, NEW c \in Conns, NEW b \in Bodies,
           Receive(c, b)
    PROVE  Pinned'
  <1>1. c = Stdin /\ hpc[Stdin] = "idle" /\ k[Stdin] = 1
    BY DEF Inspected, Receive, AdmitInv, Admitting
  <1>2. /\ inbox' = inbox /\ out' = out /\ reader' = reader /\ session' = session
        /\ pendingLists' = pendingLists /\ k' = k /\ inventory' = inventory
        /\ changes' = changes /\ frozen' = frozen /\ shown' = shown /\ noticed' = noticed
        /\ aware' = [aware EXCEPT ![c] = noticed]
    BY DEF Receive, handlers, enforcer, server
  <1>3. Ahead'
    BY <1>2 DEF Types, HandlerTypes, Pinned, Ahead, Noted
  <1>4. CASE b = Malformed
    <2>1. hpc' = hpc /\ body' = body
      BY <1>4 DEF Receive, handlers
    <2>2. Announced' /\ Disjoint' /\ Waited'
      BY <1>2, <2>1 DEF Pinned, Announced, ListRecorded, Disjoint, Waited
    <2>3. Stopped'
      BY <1>1, <1>2, <2>1 DEF Types, HandlerTypes, Pinned, Stopped
    <2> QED BY <1>3, <2>2, <2>3 DEF Pinned
  <1>5. CASE b # Malformed
    <2>1. /\ Ids(b) \cap InFlight = {} /\ body' = [body EXCEPT ![c] = b]
          /\ hpc' = [hpc EXCEPT ![c] =
               IF ~b.batch /\ b.reqs[1].method = "reply" THEN "forward" ELSE "decide"]
      BY <1>5 DEF Receive
    <2>2. body'[Stdin] = b /\ hpc'[Stdin] \in {"forward", "decide"}
      BY <1>1, <2>1 DEF Types, HandlerTypes
    <2>3. b \in Body
      BY <1>5 DEF Body
    <2>4. hpc'[Stdin] = "forward" =>
            Len(b.reqs) = 1 /\ \A n \in 1..Len(b.reqs) : b.reqs[n].method = "reply"
      BY <1>1, <2>1, <2>3, BodyFacts DEF Types, HandlerTypes
    <2>5. Announced'
      BY <1>1, <1>2, <2>2, <2>4 DEF Pinned, Announced, ListRecorded
    <2>6. Disjoint'
      <3>1. \A m \in inbox : Ids(b) \cap Ids(m.body) = {}
        BY <2>1, InFlightFacts
      <3>2. \A n \in 1..Len(out) : Ids(b) \cap out[n].ids = {}
        BY <2>1, InFlightFacts DEF Pinned, Announced
      <3> QED BY <1>2, <2>2, <3>1, <3>2 DEF Pinned, Disjoint
    <2>7. Waited'
      BY <1>1, <1>2 DEF Pinned, Waited
    <2>8. Stopped'
      BY <1>1, <1>2, <2>1, <2>2, <2>4 DEF Types, HandlerTypes, Pinned, Stopped, IsCall
    <2> QED BY <1>3, <2>5, <2>6, <2>7, <2>8 DEF Pinned
  <1> QED BY <1>4, <1>5

\* decide refuses every call once a change was noted.
LEMMA PinDecide ==
    ASSUME Types, AdmitInv, TransportInv, Inspected, Pinned, NEW c \in Conns, Decide(c)
    PROVE  Pinned'
  <1>1. c = Stdin /\ hpc[Stdin] = "decide" /\ body[Stdin] \in Body /\ k[Stdin] \in Nat
    BY DEF Decide, Types, HandlerTypes, InHand, TransportInv, StdioInv, Inspected
  <1>2. /\ inbox' = inbox /\ out' = out /\ reader' = reader /\ session' = session
        /\ pendingLists' = pendingLists /\ inventory' = inventory /\ aware' = aware
        /\ changes' = changes /\ frozen' = frozen /\ shown' = shown /\ noticed' = noticed
    BY DEF Decide, enforcer, server, client
  <1>3. Ahead'
    BY <1>2 DEF Pinned, Ahead, Noted
  <1>4. Len(body[Stdin].reqs) \in Nat
    BY <1>1, BodyFacts
  <1>5. CASE k[c] > Len(body[c].reqs)
    <2>1. /\ hpc' = [hpc EXCEPT ![Stdin] = "record"] /\ k' = [k EXCEPT ![Stdin] = 1]
          /\ body' = body
      BY <1>1, <1>5 DEF Decide
    <2>2. hpc'[Stdin] = "record" /\ k'[Stdin] = 1
      BY <1>1, <2>1 DEF Types, HandlerTypes
    <2>3. Announced' /\ Disjoint'
      <3>1. Disjoint'
        BY <1>1, <1>2, <2>1, <2>2 DEF Pinned, Disjoint
      <3>2. 1..(k'[Stdin] - 1) = {}
        BY <2>2
      <3> QED BY <1>1, <1>2, <2>1, <2>2, <3>1, <3>2 DEF Pinned, Announced, ListRecorded
    <2>4. Waited'
      BY <1>1, <1>2 DEF Pinned, Waited
    <2>5. Stopped'
      BY <1>1, <1>2, <1>4, <1>5, <2>1 DEF Types, HandlerTypes, Pinned, Stopped
    <2> QED BY <1>3, <2>3, <2>4, <2>5 DEF Pinned
  <1>6. CASE ~(k[c] > Len(body[c].reqs)) /\ Allows(body[c].reqs[k[c]])
    <2>1. k' = [k EXCEPT ![Stdin] = @ + 1] /\ hpc' = hpc /\ body' = body
      BY <1>1, <1>6 DEF Decide
    <2>2. Announced' /\ Disjoint' /\ Waited'
      BY <1>1, <1>2, <2>1 DEF Pinned, Announced, ListRecorded, Disjoint, Waited
    <2>3. PinTools /\ aware[Stdin] => ~IsCall(body[Stdin].reqs[k[Stdin]])
      BY <1>1, <1>6 DEF Pinned, Ahead, Noted, Allows, Gated, IsCall
    <2>4. Stopped'
      <3>1. \A d \in Conns \ {Stdin} : k'[d] = k[d]
        BY <2>1 DEF Types, HandlerTypes
      <3>2. k'[Stdin] = k[Stdin] + 1
        BY <1>1, <2>1 DEF Types, HandlerTypes
      <3>3. \A n \in 1..(k'[Stdin] - 1) : n = k[Stdin] \/ n \in 1..(k[Stdin] - 1)
        BY <1>1, <3>2
      <3> QED BY <1>1, <1>2, <2>1, <2>3, <3>1, <3>3 DEF Pinned, Stopped
    <2> QED BY <1>3, <2>2, <2>4 DEF Pinned
  <1>7. CASE Finished(Stdin)
    <2>1. hpc'[Stdin] = "idle" /\ \A d \in Conns \ {Stdin} : hpc'[d] = hpc[d] /\ body'[d] = body[d]
                                                       /\ k'[d] = k[d]
      BY <1>1, <1>7 DEF Finished, Types, HandlerTypes
    <2>2. Announced' /\ Disjoint' /\ Waited'
      BY <1>1, <1>2, <2>1 DEF Pinned, Announced, ListRecorded, Disjoint, Waited
    <2>3. Stopped'
      BY <1>2, <2>1 DEF Pinned, Stopped
    <2> QED BY <1>3, <2>2, <2>3 DEF Pinned
  <1> QED BY <1>1, <1>5, <1>6, <1>7 DEF Decide

\* A list is waited for from the moment it is recorded.
LEMMA PinRecord ==
    ASSUME Types, AdmitInv, TransportInv, Inspected, Inspected', Pinned, NEW c \in Conns,
           Record(c)
    PROVE  Pinned'
  <1>1. c = Stdin /\ hpc[Stdin] = "record" /\ body[Stdin] \in Body /\ k[Stdin] \in Nat \ {0}
    BY DEF Record, Types, HandlerTypes, InHand, TransportInv, StdioInv, Inspected
  <1> DEFINE b == body[Stdin]
             r == b.reqs[k[Stdin]]
  <1>2. /\ inbox' = inbox /\ out' = out /\ reader' = reader /\ session' = session
        /\ inventory' = inventory /\ aware' = aware /\ hpc' = hpc /\ body' = body
        /\ changes' = changes /\ frozen' = frozen /\ shown' = shown /\ noticed' = noticed
    BY DEF Record, server, client
  <1>3. k'[Stdin] = k[Stdin] + 1 /\ \A d \in Conns \ {Stdin} : k'[d] = k[d]
    BY <1>1 DEF Record, Types, HandlerTypes
  <1>4. k[Stdin] \in 1..Len(b.reqs) /\ Len(b.reqs) \in Nat
    BY <1>1, BodyFacts DEF Record
  <1>5. /\ pendingLists \subseteq pendingLists' /\ NoId \notin pendingLists'
        /\ \A id \in pendingLists' : id \in pendingLists \/ (r.method = "list" /\ id = r.id)
        /\ r.method = "list" => ~b.batch /\ {r.id} \ {NoId} \subseteq pendingLists'
    <2>1. r.method = "list" => ~b.batch
      BY <1>1, BodyFacts DEF Record, Inspected
    <2>2. pendingLists' = IF r.method = "list" THEN pendingLists \cup ({r.id} \ {NoId})
                          ELSE pendingLists
      BY <1>1 DEF Record
    <2> QED BY <2>1, <2>2 DEF Pinned, Waited
  <1>6. \A n \in 1..(k'[Stdin] - 1) : n = k[Stdin] \/ n \in 1..(k[Stdin] - 1)
    BY <1>1, <1>3
  <1>7. \A n \in 1..(k[Stdin] - 1) : n \in 1..(k'[Stdin] - 1)
    BY <1>1, <1>3
  <1>8. k[Stdin] \in 1..(k'[Stdin] - 1)
    BY <1>1, <1>3
  <1>9. Announced'
    BY <1>1, <1>2, <1>5, <1>6 DEF Pinned, Announced, ListRecorded
  <1>10. Disjoint'
    BY <1>2 DEF Pinned, Disjoint
  <1>11. Waited'
    BY <1>1, <1>2, <1>5, <1>7, <1>8 DEF Pinned, Waited
  <1>12. Ahead' /\ Stopped'
    BY <1>1, <1>2, <1>3 DEF Pinned, Ahead, Noted, Stopped
  <1> QED BY <1>9, <1>10, <1>11, <1>12 DEF Pinned

\* A list whose record failed is alone, and not waited for.
LEMMA PinRecordFails ==
    ASSUME Types, AdmitInv, TransportInv, Inspected, Pinned, NEW c \in Conns, RecordFails(c)
    PROVE  Pinned'
  <1>1. c = Stdin /\ hpc[Stdin] = "record" /\ body[Stdin] \in Body /\ k[Stdin] \in Nat \ {0}
    BY DEF RecordFails, Types, HandlerTypes, InHand, TransportInv, StdioInv, Inspected
  <1>2. /\ inbox' = inbox /\ out' = out /\ reader' = reader /\ session' = session
        /\ pendingLists' = pendingLists /\ inventory' = inventory /\ aware' = aware
        /\ changes' = changes /\ frozen' = frozen /\ shown' = shown /\ noticed' = noticed
    BY DEF RecordFails, enforcer, server, client
  <1>3. /\ hpc'[Stdin] = "idle"
        /\ \A d \in Conns \ {Stdin} : hpc'[d] = hpc[d] /\ body'[d] = body[d] /\ k'[d] = k[d]
    BY <1>1 DEF RecordFails, Finished, Types, HandlerTypes
  <1>4. Announced' /\ Disjoint'
    BY <1>2, <1>3 DEF Pinned, Announced, ListRecorded, Disjoint
  <1>5. \A n \in 1..(k[Stdin] - 1) : body[Stdin].reqs[n].method # "list"
    <2> SUFFICES ASSUME NEW n \in 1..(k[Stdin] - 1), body[Stdin].reqs[n].method = "list"
                 PROVE  FALSE
      OBVIOUS
    <2>1. ~body[Stdin].batch
      BY <1>1 DEF Pinned, Announced, ListRecorded
    <2>2. Len(body[Stdin].reqs) = 1 /\ k[Stdin] <= Len(body[Stdin].reqs)
      BY <1>1, <2>1, BodyFacts DEF RecordFails
    <2> QED BY <1>1, <2>2
  <1>6. Waited'
    BY <1>1, <1>2, <1>5 DEF Pinned, Waited
  <1>7. Ahead' /\ Stopped'
    BY <1>2, <1>3 DEF Pinned, Ahead, Noted, Stopped
  <1> QED BY <1>4, <1>6, <1>7 DEF Pinned

\* All is recorded.
LEMMA PinAdmitted ==
    ASSUME Types, AdmitInv, TransportInv, Inspected, Pinned, NEW c \in Conns, Admitted(c)
    PROVE  Pinned'
  <1>1. c = Stdin /\ hpc[Stdin] = "record" /\ body[Stdin] \in Body /\ k[Stdin] \in Nat \ {0}
    BY DEF Admitted, Types, HandlerTypes, InHand, TransportInv, StdioInv, Inspected
  <1>2. /\ inbox' = inbox /\ out' = out /\ reader' = reader /\ session' = session
        /\ pendingLists' = pendingLists /\ inventory' = inventory /\ aware' = aware
        /\ changes' = changes /\ frozen' = frozen /\ shown' = shown /\ noticed' = noticed
        /\ body' = body /\ k' = k
    BY DEF Admitted, enforcer, server, client
  <1>3. hpc'[Stdin] = "forward" /\ \A d \in Conns \ {Stdin} : hpc'[d] = hpc[d]
    BY <1>1 DEF Admitted, Types, HandlerTypes
  <1>4. 1..(k[Stdin] - 1) = 1..Len(body[Stdin].reqs)
    <2>1. Len(body[Stdin].reqs) \in Nat /\ k[Stdin] > Len(body[Stdin].reqs)
      BY <1>1, BodyFacts DEF Admitted
    <2>2. k[Stdin] <= Len(body[Stdin].reqs) + 1
      BY <1>1 DEF AdmitInv, Admitting
    <2> QED BY <1>1, <2>1, <2>2
  <1>5. Announced' /\ Disjoint'
    BY <1>1, <1>2, <1>3, <1>4 DEF Pinned, Announced, ListRecorded, Disjoint
  <1>6. Waited'
    <2>1. ASSUME NEW id \in pendingLists, NEW n \in 1..(k[Stdin] - 1),
                 body[Stdin].reqs[n].method = "list", body[Stdin].reqs[n].id = id
          PROVE  id \in Ids(body[Stdin]) /\ ~body[Stdin].batch
      BY <1>1, <1>4, <2>1, BodyFacts DEF Pinned, Announced, ListRecorded, Waited
    <2> QED BY <1>1, <1>2, <1>3, <2>1 DEF Pinned, Waited
  <1>7. Ahead' /\ Stopped'
    BY <1>1, <1>2, <1>3 DEF Pinned, Ahead, Noted, Stopped
  <1> QED BY <1>5, <1>6, <1>7 DEF Pinned

\* To the server goes what has an id.
LEMMA PinForward ==
    ASSUME Types, AdmitInv, TransportInv, Inspected, Pinned, NEW c \in Conns, Forward(c)
    PROVE  Pinned'
  <1>1. c = Stdin /\ hpc[Stdin] = "forward" /\ body[Stdin] \in Body
    BY DEF Forward, Types, InHand, TransportInv, StdioInv, Inspected
  <1>2. /\ out' = out /\ reader' = reader /\ session' = session
        /\ pendingLists' = pendingLists /\ inventory' = inventory /\ aware' = aware
        /\ changes' = changes /\ frozen' = frozen /\ shown' = shown /\ noticed' = noticed
    BY DEF Forward, enforcer, client
  <1>3. /\ hpc'[Stdin] = "idle"
        /\ \A d \in Conns \ {Stdin} : hpc'[d] = hpc[d] /\ body'[d] = body[d] /\ k'[d] = k[d]
    BY <1>1 DEF Forward, Finished, Types, HandlerTypes, Inspected
  <1>4. Ahead' /\ Stopped'
    BY <1>2, <1>3 DEF Pinned, Ahead, Noted, Stopped
  <1>5. CASE Ids(body[Stdin]) = {}
    <2>1. inbox' = inbox
      BY <1>1, <1>5 DEF Forward
    <2> QED
      BY <1>1, <1>2, <1>3, <1>4, <1>5, <2>1
      DEF Pinned, Announced, ListRecorded, Disjoint, Waited
  <1>6. CASE Ids(body[Stdin]) # {}
    <2> DEFINE new == [conn |-> Stdin, body |-> body[Stdin]]
    <2>1. inbox' = inbox \cup {new} /\ new.body = body[Stdin]
      BY <1>1, <1>6 DEF Forward
    <2> HIDE DEF new
    <2>2. Announced'
      <3>1. \A m \in inbox' :
              Ids(m.body) # {} /\ \A n \in 1..Len(m.body.reqs) : ListRecorded(m.body, n)'
        BY <1>1, <1>2, <1>6, <2>1 DEF Pinned, Announced, ListRecorded
      <3>2. hpc'[Stdin] # "record" /\ hpc'[Stdin] # "forward"
        BY <1>3
      <3> QED BY <1>2, <3>1, <3>2 DEF Pinned, Announced
    <2>3. Disjoint'
      BY <1>1, <1>2, <1>3, <2>1 DEF Pinned, Disjoint
    <2>4. Waited'
      BY <1>1, <1>2, <1>3, <2>1 DEF Pinned, Waited
    <2> QED BY <1>4, <2>2, <2>3, <2>4 DEF Pinned
  <1> QED BY <1>5, <1>6

\* The answer to a list carries the list's id.
LEMMA PinAnswer ==
    ASSUME Types, Inspected, Inspected', Pinned, NEW m \in inbox, Answers(m)
    PROVE  Pinned'
  <1>1. m.body \in Body
    BY DEF Types, WireTypes
  <1>2. /\ reader' = reader /\ session' = session /\ hpc' = hpc /\ body' = body /\ k' = k
        /\ pendingLists' = pendingLists /\ inventory' = inventory /\ aware' = aware
        /\ changes' = changes /\ frozen' = frozen /\ shown' = shown /\ noticed' = noticed
        /\ inbox' = inbox \ {m}
    BY AnswerSteps DEF Types, Inspected, enforcer, client
  <1>3. PICK a \in Message :
          /\ a.kind = (IF m.body.batch THEN "array" ELSE "result")
          /\ a.ids = Ids(m.body) /\ (a.tools # None => HasList(m.body))
          /\ Plain(a) /\ out' = Append(out, a)
    BY AnswerSteps DEF Types, Inspected
  <1>4. /\ a.kind = (IF m.body.batch THEN "array" ELSE "result") /\ a.ids = Ids(m.body)
        /\ a.tools # None => HasList(m.body)
    BY <1>3
  <1>5. /\ Len(out') = Len(out) + 1 /\ Len(out) \in Nat
        /\ \A n \in 1..Len(out') : IF n = Len(out) + 1 THEN out'[n] = a ELSE out'[n] = out[n]
    BY <1>3 DEF Types, WireTypes
  <1>6. Ahead' /\ Stopped'
    BY <1>2 DEF Pinned, Ahead, Noted, Stopped
  <1>7. a.tools # None => a.kind = "result" /\ a.ids \cap pendingLists # {}
    <2> SUFFICES ASSUME HasList(m.body)
                 PROVE  a.kind = "result" /\ a.ids \cap pendingLists # {}
      BY <1>4
    <2>1. PICK n \in 1..Len(m.body.reqs) : m.body.reqs[n].method = "list"
      BY <1>1, BodyFacts
    <2>2. ~m.body.batch /\ {m.body.reqs[n].id} \ {NoId} \subseteq pendingLists
      BY <2>1 DEF Pinned, Announced, ListRecorded
    <2>3. Len(m.body.reqs) = 1
      BY <1>1, <2>2, BodyFacts
    <2>4. PICK id \in Ids(m.body) : TRUE
      BY DEF Pinned, Announced
    <2>5. id = m.body.reqs[n].id /\ id # NoId
      BY <1>1, <2>3, <2>4, BodyFacts
    <2> QED BY <1>4, <2>2, <2>4, <2>5
  <1>8. Announced'
    <2>1. a.kind # "request" /\ Plain(a)
      BY <1>3
    <2> QED BY <1>2, <1>5, <1>7, <2>1 DEF Pinned, Announced, ListRecorded
  <1>9. Disjoint'
    <2>1. \A x \in inbox' : x \in inbox /\ Ids(x.body) \cap a.ids = {}
      BY <1>2, <1>4 DEF Pinned, Disjoint
    <2>2. \A n \in 1..Len(out) : out[n].ids \cap a.ids = {}
      BY <1>4 DEF Pinned, Disjoint
    <2>3. hpc[Stdin] # "idle" => Ids(body[Stdin]) \cap a.ids = {}
      BY <1>4 DEF Pinned, Disjoint
    <2>4. ASSUME NEW n \in 1..Len(out')
          PROVE  \/ out'[n] = a /\ n = Len(out) + 1
                 \/ out'[n] = out[n] /\ n \in 1..Len(out)
      <3>1. n = Len(out) + 1 \/ n \in 1..Len(out)
        BY <1>5
      <3> QED BY <1>5, <3>1
    <2>5. \A i, j \in 1..Len(out') : i # j => out'[i].ids \cap out'[j].ids = {}
      BY <2>2, <2>4 DEF Pinned, Disjoint
    <2>6. \A x \in inbox', n \in 1..Len(out') : Ids(x.body) \cap out'[n].ids = {}
      BY <2>1, <2>4 DEF Pinned, Disjoint
    <2>7. hpc[Stdin] # "idle" => \A n \in 1..Len(out') : Ids(body[Stdin]) \cap out'[n].ids = {}
      BY <2>3, <2>4 DEF Pinned, Disjoint
    <2> QED BY <1>2, <2>1, <2>5, <2>6, <2>7 DEF Pinned, Disjoint
  <1>10. Waited'
    <2> SUFFICES ASSUME session # "over", NEW id \in pendingLists
                 PROVE  \/ \E x \in inbox' : id \in Ids(x.body) /\ ~x.body.batch
                        \/ \E n \in 1..Len(out') : id \in out'[n].ids /\ out'[n].kind = "result"
                        \/ hpc[Stdin] = "forward" /\ id \in Ids(body[Stdin])
                                                  /\ ~body[Stdin].batch
                        \/ /\ hpc[Stdin] = "record"
                           /\ \E n \in 1..(k[Stdin] - 1) :
                                /\ body[Stdin].reqs[n].method = "list"
                                /\ body[Stdin].reqs[n].id = id
      BY <1>2 DEF Pinned, Waited
    <2>1. ASSUME NEW n \in 1..Len(out), id \in out[n].ids, out[n].kind = "result"
          PROVE  n \in 1..Len(out') /\ id \in out'[n].ids /\ out'[n].kind = "result"
      BY <1>5, <2>1
    <2>2. ASSUME id \in Ids(m.body), ~m.body.batch
          PROVE  Len(out) + 1 \in 1..Len(out') /\ id \in out'[Len(out) + 1].ids
                 /\ out'[Len(out) + 1].kind = "result"
      BY <1>4, <1>5, <2>2
    <2> QED BY <1>2, <2>1, <2>2 DEF Pinned, Waited
  <1> QED BY <1>6, <1>8, <1>9, <1>10 DEF Pinned

\* The enforcer looks at the answer to every list, and at nothing else that could end
\* the wait for one; a change is noted before the client sees it.
LEMMA PinReadServer ==
    ASSUME Types, AdmitInv, Inspected, Pinned, ReadServer
    PROVE  Pinned'
  <1> DEFINE m == Head(out)
  <1>1. /\ hpc' = hpc /\ body' = body /\ k' = k /\ inbox' = inbox /\ session' = session
        /\ aware' = aware /\ shown' = shown /\ noticed' = noticed
        /\ reader = None /\ reader' = m /\ out' = Tail(out) /\ ObserveResponse(m, FALSE)
    BY DEF ReadServer, handlers, client
  <1>2. /\ m = out[1] /\ m \in Message /\ Len(out) \in Nat /\ 1 \in 1..Len(out)
        /\ Len(out') = Len(out) - 1
        /\ \A n \in 1..Len(out') : out'[n] = out[n + 1] /\ n + 1 \in 1..Len(out)
    BY <1>1 DEF Types, WireTypes, ReadServer
  <1>3. m # None /\ m.kind # "request" /\ m.kind \in {"result", "array"} /\ Plain(m)
    BY <1>2, BodyAssumptions DEF Pinned, Announced, Message
  <1> HIDE DEF m
  <1>4. pendingLists' = IF m.kind = "array" THEN pendingLists ELSE pendingLists \ m.ids
    BY <1>1, <1>3 DEF ObserveResponse, Plain
  <1>5. Announced'
    <2>1. ASSUME NEW b \in Body, NEW n \in 1..Len(b.reqs), Ids(b) \cap m.ids = {},
                 b.reqs[n].method = "list", {b.reqs[n].id} \ {NoId} \subseteq pendingLists
          PROVE  {b.reqs[n].id} \ {NoId} \subseteq pendingLists'
      BY <1>4, <2>1, BodyFacts
    <2>2. hpc[Stdin] \in {"record", "forward"} =>
            /\ body[Stdin] \in Body /\ Ids(body[Stdin]) \cap m.ids = {}
            /\ hpc[Stdin] = "record" =>
                \A n \in 1..(k[Stdin] - 1) : n \in 1..Len(body[Stdin].reqs)
      <3> SUFFICES ASSUME hpc[Stdin] \in {"record", "forward"}
                   PROVE  /\ body[Stdin] \in Body /\ Ids(body[Stdin]) \cap m.ids = {}
                          /\ hpc[Stdin] = "record" =>
                              \A n \in 1..(k[Stdin] - 1) : n \in 1..Len(body[Stdin].reqs)
        OBVIOUS
      <3>1. body[Stdin] \in Body /\ Ids(body[Stdin]) \cap m.ids = {}
        BY <1>2, McpAssumptions DEF Types, InHand, Pinned, Disjoint
      <3>2. Len(body[Stdin].reqs) \in Nat /\ k[Stdin] \in Nat
        BY <3>1, BodyFacts, McpAssumptions DEF Types, HandlerTypes
      <3>3. hpc[Stdin] = "record" => k[Stdin] <= Len(body[Stdin].reqs) + 1
        BY McpAssumptions DEF AdmitInv, Admitting
      <3> QED BY <3>1, <3>2, <3>3
    <2>3. /\ hpc'[Stdin] = "record" =>
              \A n \in 1..(k'[Stdin] - 1) : ListRecorded(body[Stdin], n)'
          /\ hpc'[Stdin] = "forward" =>
              \A n \in 1..Len(body'[Stdin].reqs) : ListRecorded(body[Stdin], n)'
      BY <1>1, <2>1, <2>2 DEF Pinned, Announced, ListRecorded
    <2>4. \A x \in inbox' :
            Ids(x.body) # {} /\ \A n \in 1..Len(x.body.reqs) : ListRecorded(x.body, n)'
      <3>1. \A x \in inbox : x.body \in Body /\ Ids(x.body) \cap m.ids = {}
        BY <1>2 DEF Types, WireTypes, Pinned, Disjoint
      <3> QED BY <1>1, <2>1, <3>1 DEF Pinned, Announced, ListRecorded
    <2>5. \A n \in 1..Len(out') :
            /\ out'[n].kind # "request" /\ Plain(out'[n])
            /\ out'[n].tools # None =>
                out'[n].kind = "result" /\ out'[n].ids \cap pendingLists' # {}
      <3> SUFFICES ASSUME NEW n \in 1..Len(out')
                   PROVE  /\ out[n + 1].kind # "request" /\ Plain(out[n + 1])
                          /\ out[n + 1].tools # None =>
                              /\ out[n + 1].kind = "result"
                              /\ out[n + 1].ids \cap pendingLists' # {}
        BY <1>2
      <3>1. n + 1 \in 1..Len(out) /\ n + 1 # 1
        BY <1>2
      <3>2. out[n + 1].ids \cap m.ids = {}
        BY <1>2, <3>1 DEF Pinned, Disjoint
      <3> QED BY <1>4, <3>1, <3>2 DEF Pinned, Announced
    <2> QED BY <1>1, <1>3, <2>3, <2>4, <2>5 DEF Announced
  <1>6. Disjoint'
    <2>1. \A i, j \in 1..Len(out') : i # j => i + 1 # j + 1
      BY <1>2
    <2>2. \A i, j \in 1..Len(out') : i # j => out'[i].ids \cap out'[j].ids = {}
      BY <1>2, <2>1 DEF Pinned, Disjoint
    <2>3. \A x \in inbox, n \in 1..Len(out') : Ids(x.body) \cap out'[n].ids = {}
      BY <1>2 DEF Pinned, Disjoint
    <2>4. hpc[Stdin] # "idle" => \A n \in 1..Len(out') : Ids(body[Stdin]) \cap out'[n].ids = {}
      BY <1>2 DEF Pinned, Disjoint
    <2> QED BY <1>1, <2>2, <2>3, <2>4 DEF Pinned, Disjoint
  <1>7. Waited'
    <2>1. ASSUME NEW id \in pendingLists', NEW n \in 1..Len(out), id \in out[n].ids,
                 out[n].kind = "result"
          PROVE  n - 1 \in 1..Len(out') /\ out'[n - 1] = out[n]
      <3>1. n # 1
        BY <1>2, <1>4, <2>1
      <3> QED BY <1>2, <3>1
    <2>2. ASSUME session # "over", NEW id \in pendingLists'
          PROVE  \/ \E x \in inbox : id \in Ids(x.body) /\ ~x.body.batch
                 \/ \E n \in 1..Len(out') : id \in out'[n].ids /\ out'[n].kind = "result"
                 \/ hpc[Stdin] = "forward" /\ id \in Ids(body[Stdin]) /\ ~body[Stdin].batch
                 \/ /\ hpc[Stdin] = "record"
                    /\ \E n \in 1..(k[Stdin] - 1) : /\ body[Stdin].reqs[n].method = "list"
                                                    /\ body[Stdin].reqs[n].id = id
      <3>1. id \in pendingLists
        BY <1>4
      <3>2. ASSUME NEW n \in 1..Len(out), id \in out[n].ids, out[n].kind = "result"
            PROVE  \E i \in 1..Len(out') : id \in out'[i].ids /\ out'[i].kind = "result"
        BY <2>1, <3>2
      <3> QED BY <2>2, <3>1, <3>2 DEF Pinned, Waited
    <2>3. NoId \notin pendingLists'
      BY <1>4 DEF Pinned, Waited
    <2> QED BY <1>1, <2>2, <2>3 DEF Waited
  <1>8. Noted => Noted'
    BY <1>1 DEF Noted, ObserveResponse, Observe, Types, OtherTypes
  <1>9. Ahead'
    <2>1. inventory = shown
      BY <1>1 DEF Pinned, Ahead
    <2>2. CASE m.tools \in {None, Empty}
      <3>1. inventory' = inventory
        BY <1>1, <1>3, <2>2 DEF ObserveResponse, Observe, Plain
      <3> QED BY <1>1, <1>3, <1>8, <2>1, <2>2, <3>1 DEF Pinned, Ahead
    <2>3. CASE m.tools \notin {None, Empty}
      <3>1. Observe(m)
        BY <1>1, <1>2, <1>3, <2>3 DEF Pinned, Announced, ObserveResponse, Plain
      <3>2. m.kind = "result"
        BY <1>2, <2>3 DEF Pinned, Announced
      <3>3. inventory' = m.tools /\ (shown \notin {None, m.tools} => Noted')
        BY <1>3, <2>1, <2>3, <3>1, <3>2, McpAssumptions
        DEF Observe, Noted, Types, OtherTypes, Plain
      <3> QED BY <1>1, <1>3, <1>8, <2>3, <3>3 DEF Pinned, Ahead
    <2> QED BY <2>2, <2>3
  <1>10. Stopped'
    BY <1>1 DEF Pinned, Stopped
  <1> QED BY <1>5, <1>6, <1>7, <1>9, <1>10 DEF Pinned

\* The client is shown what the enforcer has looked at.
LEMMA PinToClient ==
    ASSUME Types, Inspected, Pinned, ToClient
    PROVE  Pinned'
  <1>1. /\ hpc' = hpc /\ body' = body /\ k' = k /\ inbox' = inbox /\ session' = session
        /\ aware' = aware /\ out' = out /\ reader # None /\ reader' = None /\ Shown(reader)
        /\ pendingLists' = pendingLists /\ inventory' = inventory
        /\ changes' = changes /\ frozen' = frozen
    BY DEF ToClient, handlers, enforcer, server
  <1>2. Announced' /\ Disjoint' /\ Waited'
    BY <1>1 DEF Pinned, Announced, ListRecorded, Disjoint, Waited
  <1>3. Ahead'
    BY <1>1 DEF Pinned, Ahead, Noted, Shown
  <1>4. Stopped'
    BY <1>1 DEF Pinned, Stopped
  <1> QED BY <1>2, <1>3, <1>4 DEF Pinned

\* The end of the session, and the steps that the pin does not see.
LEMMA PinOthers ==
    ASSUME Types, TransportInv, Inspected, Pinned, Redefine \/ EndsOnly \/ ClientFails
    PROVE  Pinned'
  <1>1. /\ inbox' = inbox /\ out' = out /\ reader' = reader
        /\ pendingLists' = pendingLists /\ inventory' = inventory /\ aware' = aware
        /\ changes' = changes /\ frozen' = frozen /\ shown' = shown /\ noticed' = noticed
        /\ session' # "over" => session # "over"
    BY DEF Redefine, EndsOnly, ClientFails, enforcer, server, client
  <1>2. Ahead'
    BY <1>1 DEF Pinned, Ahead, Noted
  <1>3. CASE Redefine \/ EndsOnly
    <2>1. hpc' = hpc /\ body' = body /\ k' = k
      BY <1>3 DEF Redefine, EndsOnly, handlers
    <2> QED
      BY <1>1, <1>2, <2>1 DEF Pinned, Announced, ListRecorded, Disjoint, Waited, Stopped
  <1>4. CASE ClientFails
    <2>1. /\ hpc'[Stdin] = "idle" /\ session' = "over"
          /\ \A d \in Conns \ {Stdin} : hpc'[d] = hpc[d] /\ body'[d] = body[d] /\ k'[d] = k[d]
      BY <1>4, McpAssumptions DEF ClientFails, Finished, Types, HandlerTypes
    <2> QED
      BY <1>1, <1>2, <2>1 DEF Pinned, Announced, ListRecorded, Disjoint, Waited, Stopped
  <1> QED BY <1>3, <1>4

-----------------------------------------------------------------------------
(* The whole *)

\* Every step of the session keeps the pin.
LEMMA PinStep ==
    ASSUME Types, AdmitInv, TransportInv, PinInv, Next
    PROVE  PinInv'
  <1> SUFFICES ASSUME Inspected'
               PROVE  Pinned'
    BY DEF PinInv
  <1>1. Inspected /\ Pinned
    BY InspectedBefore DEF PinInv
  <1>2. ASSUME NEW c \in Conns, Deliver(c) \/ Inspect(c) \/ Abort(c)
        PROVE  FALSE
    BY <1>1, <1>2 DEF Deliver, Inspect, Abort, TransportInv, StdioInv, Inspected
  <1>3. ASSUME NEW id, Ask(id)
        PROVE  FALSE
    BY <1>3 DEF Ask, Happens, Inspected
  <1> QED
    BY <1>1, <1>2, <1>3, NextSteps, PinReceive, PinDecide, PinRecord, PinRecordFails,
       PinAdmitted, PinForward, PinAnswer, PinReadServer, PinToClient, PinOthers

\* Every step of the session keeps its invariant.
LEMMA SessionStep ==
    ASSUME SessionInv, Next
    PROVE  SessionInv'
  <1> USE DEF SessionInv
  <1>1. Types'
    BY NextSteps, TypesHandler, TypesAnswer, TypesOthers
  <1>2. AdmitInv'
    BY NextSteps, AdmitHandler, AdmitOthers
  <1>3. TransportInv'
    BY TransportHandler, TransportAnswer, TransportOthers DEF Next, Handle, Reader, Answers
  <1>4. PinInv'
    BY PinStep
  <1>5. Drained'
    BY DrainedStep
  <1> QED BY <1>1, <1>2, <1>3, <1>4, <1>5

\* A session of which nothing is left: as it begins, and as runMCP forgets it.
Blank ==
    /\ hpc = [c \in Conns |-> "idle"] /\ body = [c \in Conns |-> None]
    /\ k = [c \in Conns |-> 1] /\ written = [c \in Conns |-> {}]
    /\ frozen = FALSE /\ pendingLists = {} /\ inventory = None /\ changes = 0
    /\ tools \in ToolSets /\ inbox = {} /\ out = <<>> /\ reader = None
    /\ shown = None /\ noticed = FALSE /\ aware = [c \in Conns |-> FALSE]
    /\ stdio \in BOOLEAN /\ session \in {"serving", "draining", "over"}

\* Such a session satisfies everything.
LEMMA BlankOK ==
    ASSUME Blank
    PROVE  SessionInv
  <1> USE DEF Blank
  <1>1. Types
    <2>1. HandlerTypes /\ InHand
      BY DEF HandlerTypes, InHand
    <2>2. <<>> \in Seq(Message)
      OBVIOUS
    <2>3. WireTypes
      BY <2>2 DEF WireTypes
    <2>4. OtherTypes
      BY DEF OtherTypes
    <2> QED BY <2>1, <2>3, <2>4 DEF Types
  <1>2. AdmitInv
    BY DEF AdmitInv, Admitting
  <1>3. TransportInv /\ Drained
    BY McpAssumptions DEF TransportInv, HttpInv, StdioInv, Drained
  <1>4. Announced /\ Disjoint /\ Waited
    BY McpAssumptions DEF Announced, Disjoint, Waited
  <1>5. Ahead /\ Stopped
    BY DEF Ahead, Stopped
  <1> QED BY <1>1, <1>2, <1>3, <1>4, <1>5 DEF SessionInv, PinInv, Pinned

\* agw mcp starts with a blank session.
LEMMA McpInitOK ==
    ASSUME McpInit
    PROVE  McpInv
  <1>1. Blank
    BY McpAssumptions DEF McpInit, Init, Blank
  <1> QED BY <1>1, BlankOK DEF McpInit, McpInv, CommandInv, SessionSigned

\* What runMCP does keeps the invariant of the session.
LEMMA SessionKept ==
    ASSUME SessionInv, [McpNext]_mcpVars
    PROVE  SessionInv'
  <1>1. CASE Returns
    <2>1. Blank'
      BY <1>1, McpAssumptions DEF Returns, Blank, SessionInv, Types, OtherTypes
    <2> QED BY <2>1, BlankOK, PTL
  <1>2. CASE AfterOnly \/ UNCHANGED mcpVars
    <2>1. /\ UNCHANGED <<stdio, handlers, enforcer, server, reader, session, client>>
          /\ happened \subseteq happened'
      BY <1>2 DEF AfterOnly, mcpVars, vars
    <2>2. Types'
      BY <2>1 DEF SessionInv, Types, HandlerTypes, InHand, WireTypes, OtherTypes, handlers,
         enforcer, server, client
    <2>3. AdmitInv' /\ TransportInv' /\ Drained'
      BY <2>1 DEF SessionInv, AdmitInv, Admitting, TransportInv, HttpInv, StdioInv, Drained,
         handlers, server
    <2>4. PinInv'
      BY <2>1 DEF SessionInv, PinInv, Inspected, Pinned, Announced, ListRecorded, Disjoint,
         Waited, Ahead, Noted, Stopped, handlers, enforcer, server, client
    <2> QED BY <2>2, <2>3, <2>4 DEF SessionInv
  <1>3. CASE Next
    BY <1>3, SessionStep
  <1> QED BY <1>1, <1>2, <1>3, CommandSteps

\* The server is reaped before runMCP goes on, and every way there passes a checkpoint.
LEMMA CommandKept ==
    ASSUME CommandInv, SessionSigned, [McpNext]_mcpVars
    PROVE  CommandInv' /\ SessionSigned'
  <1> USE DEF CommandInv, SessionSigned
  <1>1. CASE Serving(Next)
    BY <1>1 DEF Serving
  <1>2. CASE Returns
    BY <1>2 DEF Returns
  <1>3. CASE sessionEnded \/ FinalCheckpoint \/ CloseSink \/ Tick
    BY <1>3 DEF sessionEnded, FinalCheckpoint, CloseSink, Tick, Checkpoint, Happens
  <1>4. CASE Terminate \/ Kill \/ Reaped \/ Exit \/ ServerExits
    BY <1>4 DEF Terminate, Kill, Reaped, Exit, ServerExits, vars
  <1>5. CASE Late
    BY <1>5 DEF Late, vars
  <1>6. CASE UNCHANGED mcpVars
    BY <1>6 DEF mcpVars, vars
  <1> QED BY <1>1, <1>2, <1>3, <1>4, <1>5, <1>6 DEF McpNext, runMCP

\* The inductive invariant of agw mcp.
THEOREM McpInvHolds == McpSpec => []McpInv
  <1>1. McpInv /\ [McpNext]_mcpVars => McpInv'
    BY SessionKept, CommandKept DEF McpInv
  <1> QED BY <1>1, McpInitOK, PTL DEF McpSpec

\* What goes to the server was judged and recorded first, every request of a batch
\* too, whatever the policy, the messages and the number of connections (Admit).
THEOREM JudgedAndRecordedHolds == McpSpec => []JudgedAndRecorded
  <1>1. McpInv => TypeOK
    BY DEF McpInv, SessionInv, Types, HandlerTypes, OtherTypes, AdmitInv, Admitting, TypeOK
  <1>2. McpInv => JudgedAndRecorded
    BY <1>1 DEF McpInv, SessionInv, AdmitInv, Admitting, JudgedAndRecorded
  <1> QED BY <1>2, McpInvHolds, PTL

\* The pin on stdio: a change of the tools is noted before the client sees it, with
\* PinTools a client that was shown one gets no call through any more, and the
\* enforcer waits for no list that is not on its way (ObserveResponse, decide).
THEOREM PinHoldsOnStdio == McpSpec => [](CallsStop /\ ChangeNoted /\ PendingInFlight)
  <1>1. McpInv => CallsStop
    BY DEF McpInv, SessionInv, PinInv, Pinned, Stopped, CallsStop, Calls
  <1>2. McpInv => ChangeNoted
    BY DEF McpInv, SessionInv, PinInv, Pinned, Ahead, Noted, ChangeNoted
  <1>3. McpInv => PendingInFlight
    <2> SUFFICES ASSUME McpInv, Inspected, session # "over", NEW id \in pendingLists
                 PROVE  id \in InFlight
      BY DEF PendingInFlight
    <2>1. Pinned /\ Types /\ AdmitInv
      BY DEF McpInv, SessionInv, PinInv
    <2>2. CASE hpc[Stdin] \in {"record", "forward"} /\ id \in Ids(body[Stdin])
      <3>1. Ids(body[Stdin]) \subseteq InHandlers
        BY <2>2, McpAssumptions DEF InHandlers
      <3> QED BY <2>2, <3>1 DEF InFlight
    <2>3. ASSUME hpc[Stdin] = "record", NEW n \in 1..(k[Stdin] - 1),
                 body[Stdin].reqs[n].id = id
          PROVE  id \in Ids(body[Stdin])
      <3>1. body[Stdin] \in Body /\ k[Stdin] \in Nat /\ k[Stdin] <= Len(body[Stdin].reqs) + 1
        BY <2>1, <2>3, McpAssumptions DEF Types, HandlerTypes, InHand, AdmitInv, Admitting
      <3>2. n \in 1..Len(body[Stdin].reqs)
        BY <3>1, BodyFacts
      <3> QED BY <2>1, <2>3, <3>1, <3>2, BodyFacts DEF Pinned, Waited
    <2> QED
      BY <2>1, <2>2, <2>3, InFlightFacts DEF Pinned, Waited
  <1> QED BY <1>1, <1>2, <1>3, McpInvHolds, PTL

\* When the session is over and nothing was cut off, everything was answered; from
\* the moment the server is reaped everything recorded is signed, unless a checkpoint
\* failed; and agw does not leave before the server it started (serveMCPStdio).
THEOREM SessionEndsClean == McpSpec => [](Drained /\ SessionSigned /\ NoOrphan)
  <1>1. McpInv => Drained /\ SessionSigned /\ NoOrphan
    BY DEF McpInv, SessionInv, CommandInv, NoOrphan
  <1> QED BY <1>1, McpInvHolds, PTL
=============================================================================
