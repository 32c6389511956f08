------------------------------ MODULE Telemetry -------------------------------
(***************************************************************************)
(* What the recorder makes of a span (internal/recorder): how an export is *)
(* admitted, the JSON and the protobuf encoding of a span brought to one   *)
(* form, and the evidence event it becomes.                                *)
(*                                                                         *)
(* A text is a record with a kind: nothing, a word, a number, the URL or   *)
(* the host and port of a destination, or a path.  An attribute as it is   *)
(* exported has the type of its value; a 64-bit number in JSON may be      *)
(* written as a string or as a number, which is read as a float64.         *)
(***************************************************************************)
EXTENDS Destinations

-----------------------------------------------------------------------------
(* Texts and numbers *)

NoText == [kind |-> "nothing"]
Word(w) == [kind |-> "word", w |-> w]
Numeral(n) == [kind |-> "number", n |-> n]
Url(host, port, scheme) == [kind |-> "url", host |-> host, port |-> port, scheme |-> scheme]
Destination(host, port) == [kind |-> "host", host |-> host, port |-> port]
PathOnly == [kind |-> "path"]

\* The float64 nearest to n.  A time of this century in nanoseconds is above 2^53,
\* where they are Step apart; the scale here is smaller.
Whole == 1024
Step == 256
Float64(n) ==
    IF n <= Whole THEN n
    ELSE LET low == (n \div Step) * Step
             rest == n - low
         IN IF 2 * rest > Step \/ (2 * rest = Step /\ (low \div Step) % 2 = 1)
            THEN low + Step ELSE low

\* A 64-bit number as the decoder finds it: text, or a float64.
anyToString(v) ==
    CASE v.as = "string" -> Numeral(v.n)
      [] v.as = "number" -> Numeral(Float64(v.n))
      [] v.as = "absent" -> NoText

-----------------------------------------------------------------------------
(* One form for two encodings *)

\* An attribute's text with the blanks around it that TrimSpace removes.
str(value) ==
    CASE value.type = "string" -> [text |-> value.text, pad |-> value.pad]
      [] value.type = "bool"   -> [text |-> Word(value.b), pad |-> FALSE]
      [] value.type = "int"    -> [text |-> anyToString(value.int), pad |-> FALSE]
      [] value.type = "double" -> [text |-> Word(value.d), pad |-> FALSE]
      [] value.type = "other"  -> [text |-> NoText, pad |-> FALSE]

attrMap(attrs) == [key \in DOMAIN attrs \ {""} |-> str(attrs[key])]

\* protoAttrs: numbers as decimal text; arrays, maps and bytes left out.
protoAttrs(attrs) ==
    [key \in {k \in DOMAIN attrs : attrs[k].type # "other"} |->
        IF attrs[key].type = "int" THEN [attrs[key] EXCEPT !.int.as = "string"] ELSE attrs[key]]

\* Mutant: a protobuf export's ids are passed on as they are.
MutantfromProto(span) ==
    [span EXCEPT !.traceId.spelling = "raw", !.spanId.spelling = "raw",
                 !.start.as = "string", !.end.as = "string", !.attrs = protoAttrs(@)]

\* fromProto, for a span the protobuf decoder found: ids in hex, times as decimal
\* text.
fromProto(span) ==
    [span EXCEPT !.traceId.spelling = "hex", !.spanId.spelling = "hex",
                 !.start.as = "string", !.end.as = "string", !.attrs = protoAttrs(@)]

firstOf(m, keys) ==
    LET set == {k \in 1..Len(keys) : keys[k] \in DOMAIN m /\ m[keys[k]].text # NoText} IN
    IF set = {} THEN NoText ELSE m[keys[Min(set)]].text

ZeroTime == 0
\* The largest time an int64 holds, on the scale of Float64.
MaxInt64 == 2 ^ 24
unixNano(v) ==
    LET t == anyToString(v) IN
    IF t = NoText \/ t.n > MaxInt64 \/ t.n <= 0 THEN ZeroTime ELSE t.n

\* An id is its bytes and how they are spelled.  Padded base64 of 8 or 16 bytes is
\* never hex.  What is neither stays as it is.
decodeID(id) ==
    IF id.bytes = "" THEN NoText
    ELSE IF id.spelling \in {"hex", "HEX", "base64"} THEN [kind |-> "id", bytes |-> id.bytes]
    ELSE [kind |-> "raw", bytes |-> id.bytes]

-----------------------------------------------------------------------------
(* The observation *)

agentKeys == <<"gen_ai.agent.id", "gen_ai.agent.name", "agent.id", "agent.name">>
tenantKeys == <<"tenant.id", "gen_ai.tenant.id">>
methodKeys == <<"http.request.method", "http.method">>

orElse(text, other) == IF text = NoText THEN other ELSE text

\* strings.ToLower, of a method.
LowerMethod(t) ==
    IF t.kind = "word" /\ t.w \in DOMAIN [GET |-> 0, POST |-> 0]
    THEN Word([GET |-> "get", POST |-> "post"][t.w]) ELSE t

Did(group, text) == [group |-> group, what |-> text]

\* What was done and to what: the first convention of the four that the span follows.
activity(span, attrs) ==
    LET Of(keys) == firstOf(attrs, keys)
        nothing == [action |-> Did("span", span.name), resource |-> NoText, target |-> NoText,
                    provider |-> NoText]
    IN IF Of(<<"gen_ai.tool.name">>) # NoText
       THEN [nothing EXCEPT !.action = Did("tool", Of(<<"gen_ai.tool.name">>)),
                            !.resource = Of(<<"gen_ai.tool.call.id", "gen_ai.tool.type">>)]
       ELSE IF Of(methodKeys) # NoText
       THEN [nothing EXCEPT !.action = Did("http", LowerMethod(Of(methodKeys))),
                            !.resource = Of(<<"url.full", "http.url", "url.path", "http.target">>),
                            !.target = Of(<<"server.address", "net.peer.name", "http.host">>)]
       ELSE IF Of(<<"db.system", "db.system.name">>) # NoText
       THEN [nothing EXCEPT !.action = Did("db", Of(<<"db.operation.name", "db.operation">>)),
                            !.resource = Of(<<"db.namespace", "db.name", "db.collection.name">>),
                            !.target = Of(<<"server.address", "net.peer.name">>)]
       ELSE IF Of(<<"gen_ai.operation.name">>) # NoText
       THEN [nothing EXCEPT !.action = Did("gen_ai", Of(<<"gen_ai.operation.name">>)),
                            !.resource = Of(<<"gen_ai.request.model", "gen_ai.response.model">>),
                            !.provider = Of(<<"gen_ai.system", "gen_ai.provider.name">>)]
       ELSE nothing

mapSpan(span, resource) ==
    LET attrs == attrMap(span.attrs)
        did == activity(span, attrs)
    IN [agent |-> orElse(orElse(firstOf(attrs, agentKeys),
                                firstOf(resource, agentKeys \o <<"service.name">>)),
                         Word("unattributed")),
        tenant |-> orElse(orElse(firstOf(attrs, tenantKeys),
                                 firstOf(resource, tenantKeys \o <<"service.namespace">>)),
                          Word("local")),
        action |-> did.action,
        resource |-> orElse(orElse(did.resource, did.target), did.provider),
        target |-> did.target, provider |-> did.provider,
        outcome |-> IF span.status.code = 2 THEN "error" ELSE "allow",
        reason |-> IF span.status.code # 2 THEN Word("observed")
                   ELSE orElse(span.status.message, Word("span_status_error")),
        traceId |-> decodeID(span.traceId), spanId |-> decodeID(span.spanId),
        started |-> unixNano(span.start), finished |-> unixNano(span.end)]

\* time.Duration.Milliseconds rounds towards zero.
Milliseconds(d) == IF d >= 0 THEN d \div 1000000 ELSE -((-d) \div 1000000)

toEvent(o) ==
    [tenant |-> o.tenant, agent |-> o.agent, action |-> o.action, resourceType |-> "observed",
     resourceId |-> o.resource, backendId |-> orElse(o.target, o.provider),
     routeId |-> "self-reported", decision |-> o.outcome, reason |-> o.reason,
     traceId |-> o.traceId, requestId |-> o.spanId, started |-> o.started, finished |-> o.finished,
     latency |-> IF o.started # ZeroTime /\ o.finished # ZeroTime
                 THEN Milliseconds(o.finished - o.started) ELSE 0]

-----------------------------------------------------------------------------
(* A span as shadow evaluation and agw policy suggest read it *)

\* The parts of an observation that destinationOf (shadow.go) looks at.
seen(o) ==
    [url |-> IF o.resource.kind = "url"
             THEN [host |-> o.resource.host, port |-> o.resource.port, scheme |-> o.resource.scheme]
             ELSE None,
     target |-> IF o.target.kind = "host"
                THEN [host |-> o.target.host, port |-> o.target.port] ELSE None,
     agent |-> o.agent.w]

\* The event ingest records with an evaluator for policy p: the verdict takes the
\* place of the span's own status.
judged(o, p) ==
    LET v == Evaluate(p, NewGuard(p.permitPrivate), seen(o)) IN
    [toEvent(o) EXCEPT !.resourceType = <<"observed", o.outcome>>, !.decision = v[1],
                       !.reason = Word(v[2])]

\* The record of an event as destinationOf (policy.go) reads it: the resource, or
\* the backend of a resource that is a path; None if it names no destination.
draftRecord(e) ==
    LET id == IF e.resourceId.kind = "path" THEN e.backendId ELSE e.resourceId IN
    IF e.action.group # "http" \/ id.kind \notin {"url", "host"} THEN None
    ELSE [host |-> id.host, port |-> id.port, agent |-> e.agent.w, decision |-> e.decision,
          scheme |-> IF id.kind = "url" THEN id.scheme ELSE ""]

-----------------------------------------------------------------------------
(* An export at the receiver's door *)

\* checkBearer, for an Authorization value's scheme (in any letter case) and token.
checkBearer(cfg, h) ==
    IF cfg.token = "" THEN cfg.allowUnauthenticated
    ELSE h # None /\ h.scheme = "bearer" /\ h.token = cfg.token

\* Content types without their letter case, which matters to isJSON only.
isProtobuf(ct) == ct.type \in {"application/x-protobuf", "application/protobuf"}
isJSON(ct) == ct.type \in {"application/json", "application/x-ndjson"} /\ ~ct.upper

\* readBody: the limit is on the size after decompression as well as on the wire.
readBody(req, limit) ==
    IF req.encoding \notin {"", "identity", "gzip"} \/ req.wire > limit THEN "refused"
    ELSE IF req.encoding = "gzip" /\ ~req.gzip THEN "refused"
    ELSE IF (IF req.encoding = "gzip" THEN req.unpacked ELSE req.wire) > limit THEN "refused"
    ELSE "read"

\* handleTraces up to the spans: the status, or the form in which they are ingested.
admitted(cfg, req, limit) ==
    IF ~checkBearer(cfg, req.authorization) THEN 401
    ELSE IF readBody(req, limit) = "refused" THEN 400
    ELSE IF isProtobuf(req.contentType) THEN (IF req.parses THEN 200 ELSE 400)
    ELSE IF req.contentType.type = "" \/ isJSON(req.contentType)
    THEN (IF req.parses THEN 200 ELSE 400)
    ELSE 415
=============================================================================
