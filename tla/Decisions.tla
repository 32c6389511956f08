------------------------------ MODULE Decisions -------------------------------
(***************************************************************************)
(* The decisions the program makes without remembering anything: whether a *)
(* line is a record, whether a destination, a tool call or a signed        *)
(* request is allowed, and what an export says.  A step puts one question  *)
(* to the code; the invariants compare what the parts of the program that  *)
(* are asked the same question say, or hold the answer against what was    *)
(* really the case.                                                        *)
(***************************************************************************)
EXTENDS RawLine, HashInput, Boundary, Telemetry, Authz, Aat, Ags1, Follow

VARIABLES ask, answer

vars == <<ask, answer>>

Idle == [kind |-> "idle"]
Init == ask = Idle /\ answer = None

-----------------------------------------------------------------------------
(* A line of a log, read by the sink's package and by the auditor's program *)

ReadLine ==
    \E ms \in Written, shape \in {"object", "broken", "trailing", "array"} :
    \E again \in IF shape = "object" THEN Variants(ms) \cup EventVariants(ms) ELSE {ms} :
        LET l == [shape |-> shape, ms |-> again] IN
        /\ ask' = [kind |-> "line", line |-> l]
        /\ answer' = [sink |-> decodeLine(l), auditor |-> classifyLine(l)]

Dates ==
    {<<0, 1, 1>>, <<1, 1, 1>>, <<1900, 2, 29>>, <<2000, 2, 29>>, <<2023, 2, 28>>,
     <<2023, 2, 29>>, <<2024, 3, 1>>, <<2024, 12, 31>>, <<9999, 12, 31>>, <<2024, 0, 1>>,
     <<2024, 13, 1>>, <<2024, 4, 31>>, <<2024, 4, 0>>}
Clocks == {<<0, 0>>, <<0, 30>>, <<12, 0>>, <<23, 59>>, <<24, 0>>, <<23, 60>>}
Zones == {<<>>} \cup {-1, 1} \X {0, 1, 23, 24} \X {0, 59, 60}
Seconds == {0, 59, 60}
Fractions == {<<>>, <<0>>, <<5, 0>>, <<0, 5>>}

Timestamp(date, clock, s, zone, frac, strict) ==
    [strict |-> strict, y |-> date[1], mo |-> date[2], d |-> date[3],
     h |-> clock[1], mi |-> clock[2], s |-> s, frac |-> frac, zone |-> zone]

\* The time of a record, and what both hash of it.
HashOne(t) ==
    /\ t.zone = <<>> \/ (t.frac = <<>> /\ t.s = 0 /\ t.strict)
    /\ ask' = [kind |-> "time", t |-> t]
    /\ answer' = [sink |-> hashedTime(t), auditor |-> ts(t)]

HashTime ==
    \E date \in Dates, clock \in Clocks, s \in Seconds, zone \in Zones,
       frac \in Fractions, strict \in BOOLEAN :
        HashOne(Timestamp(date, clock, s, zone, frac, strict))

\* The fields of a record and of a checkpoint, in the order they are hashed.
HashFields ==
    \E v \in {"v1", "v2"} :
        /\ ask' = [kind |-> "fields", v |-> v]
        /\ answer' = [sink |-> <<canonicalRecordInput(v), canonicalCheckpointInput>>,
                      auditor |-> <<hashInput(v), signingInput>>]

-----------------------------------------------------------------------------
(* An exemption from the guard's refusals *)

Addrs4 ==
    {<<0, 0>>, <<2561, 515>>, <<25664, 1>>, <<25663, 65535>>, <<32512, 1>>,
     <<43518, 43518>>, <<43517, 255>>, <<44049, 1>>, <<49320, 258>>, <<57344, 1>>, <<2056, 2056>>}
Addrs6 ==
    {V6(0, 0, 0, 0), V6(0, 0, 0, 1), V6(100, 65435, 0, 1), V6(100, 65435, 1, 1), metadata6,
     V6(64768, 3778, 0, 1), V6(64530, 1, 0, 1), V6(65152, 0, 0, 1), V6(65282, 0, 0, 1),
     V6(8193, 3512, 0, 1)}
Addrs ==
    Addrs4 \cup Addrs6 \cup {Mapped(a) : a \in Addrs4} \cup {WithZone(a, 1) : a \in Addrs6}
PermitEntries ==
    {Prefix(a, n) : a \in Addrs4, n \in {0, 7, 9, 10, 11, 16, 23, 24, 25, 32}}
    \cup {Prefix(a, n) : a \in Addrs6 \cup {Mapped(b) : b \in Addrs4},
                         n \in {0, 7, 10, 48, 63, 64, 65, 96, 112, 128}}
Spaces == UNION {denials[k].space : k \in 1..Len(denials)}

BuildGuard ==
    \E p, q \in PermitEntries :
        /\ p = q \/ q = Prefix(<<2561, 512>>, 24)
        /\ ask' = [kind |-> "guard", permit |-> {p, q}]
        /\ answer' = NewGuard({p, q})

-----------------------------------------------------------------------------
(* A connection, seen by the proxy, by shadow evaluation and by explain *)

ex == Host(<<"example", "com">>, None)
api == Host(<<"api", "example", "com">>, None)
public == Host(<<"8", "8", "8", "8">>, <<2056, 2056>>)
public6 == Host(<<"::ffff:8", "8", "8", "8">>, Mapped(<<2056, 2056>>))
internal == Host(<<"10", "1", "2", "3">>, <<2561, 515>>)
instance == Host(<<"169", "254", "169", "254">>, <<43518, 43518>>)
\* A NAT64 address in zone a.example.com: the text also ends like a name.
zoned == Host(<<"64:ff9b::1%a", "example", "com">>, WithZone(V6(100, 65435, 0, 1), 1))
SomeHosts ==
    {ex, api, [api EXCEPT !.dot = TRUE], [ex EXCEPT !.upper = TRUE],
     public, public6, internal, instance, zoned}
SomePorts == {80, 443, 8443}
Agents == {"a", "b"}
SomeRules ==
    [host : {ex, api, [ex EXCEPT !.star = "lead"], [ex EXCEPT !.upper = TRUE],
             public, internal},
     ports : {{}, {443}, {8443}}]
PolicyOf(rules, permit) ==
    [version |-> "1", permitPrivate |-> permit, workloads |-> <<[id |-> "a", allow |-> rules]>>]

Exemptions == {{}, {Prefix(<<2561, 512>>, 24)}}
Schemes == {"https", "http", "tcp"}
Spellings == {"url", "short url", "target", "host", "nothing"}

\* How a span names the connection it was about.
Spelled(conn, how) ==
    CASE how = "url" -> [url |-> [host |-> conn.host, port |-> conn.port, scheme |-> conn.scheme],
                         target |-> None, agent |-> conn.agent]
      [] how = "short url" ->
             [url |-> [host |-> conn.host, port |-> None, scheme |-> conn.scheme],
              target |-> None, agent |-> conn.agent]
      [] how = "target" -> [url |-> None, target |-> [host |-> conn.host, port |-> conn.port],
                            agent |-> conn.agent]
      [] how = "host" -> [url |-> None, target |-> [host |-> conn.host, port |-> None],
                          agent |-> conn.agent]
      [] how = "nothing" -> [url |-> None, target |-> None, agent |-> conn.agent]

Conn(h, port, scheme, w) == [host |-> h, port |-> port, scheme |-> scheme, agent |-> w]
AskConnection(p, conn, how) ==
    [kind |-> "connection", policy |-> p, conn |-> conn, how |-> how]
Views(p, conn, how) ==
    [shadow |-> Evaluate(p, NewGuard(p.permitPrivate), Spelled(conn, how)),
     explain |-> explainEgress(p, conn.agent, conn, 443)]

\* The port a URL with this scheme and no port stands for; 8443 where it says none.
UsualPort(scheme) ==
    IF scheme = "https" THEN 443 ELSE IF scheme = "http" THEN 80 ELSE 8443

\* A connection of workload w under a policy of two rules, whose span names it so.
Connect(r, s, permit, h, port, scheme, w, how) ==
    /\ s = r \/ s = [host |-> ex, ports |-> {443}]
    /\ how = "short url" => port = UsualPort(scheme)
    /\ how \notin {"url", "short url"} => scheme = "tcp"
    /\ ask' = AskConnection(PolicyOf(<<r, s>>, permit), Conn(h, port, scheme, w), how)
    /\ answer' = Views(PolicyOf(<<r, s>>, permit), Conn(h, port, scheme, w), how)

\* What is not there is no port and no part of a span.
ASSUME NothingIsNothing ==
    /\ None \notin SomePorts /\ AnyPort \notin SomePorts
    /\ None \notin [host : SomeHosts, port : SomePorts \cup {None}, scheme : Schemes]
    /\ None \notin [host : SomeHosts \cup {ToLower(h) : h \in SomeHosts},
                    port : SomePorts \cup {None, AnyPort}]
    /\ None # [permitted |-> {}]

Observe ==
    \E r, s \in SomeRules, permit \in Exemptions, h \in SomeHosts, port \in SomePorts,
       scheme \in Schemes, w \in Agents, how \in Spellings :
        Connect(r, s, permit, h, port, scheme, w, how)

\* The lookups an enforcement point might see.
Answers == {{}, {<<2056, 2056>>}, {<<2561, 515>>}, {<<2056, 2056>>, <<43518, 43518>>}}

-----------------------------------------------------------------------------
(* A draft from a log *)

Observations ==
    [host : {ex, public, instance}, port : {None, 443, 8443},
     scheme : {"", "http"}, agent : {"a", "b"}, decision : {"allow", "deny", "would_deny"}]

Draft ==
    \E r, s \in Observations, t \in Observations, min \in {1, 2} :
        /\ t = r \/ t = [r EXCEPT !.decision = "deny"]
        /\ ask' = [kind |-> "draft", recs |-> <<r, s, t>>, min |-> min]
        /\ answer' = suggest(<<r, s, t>>, TRUE, "a", min)

-----------------------------------------------------------------------------
(* A request for an action *)

tool(x) == <<"mcp", "tool">> \o x
ActionPatterns ==
    {Star, Pattern(<<"mcp", "tool">>, "trailing"), Pattern(tool(<<"fs">>), "none"),
     Pattern(tool(<<"fs">>), "trailing")}
AgentPatterns == [id : {"*", "a"}, federated : BOOLEAN]
Rule(id, effect, agent, action, maxRisk, until) ==
    [id |-> id, effect |-> effect, agents |-> {agent}, actions |-> {action},
     resources |-> {}, maxRisk |-> maxRisk, notBefore |-> NoTime, notAfter |-> until]
Effects == {"allow", "deny"}
Caps == {"", "write"}
Limits == {NoTime, 5}
Rules(id) ==
    {Rule(id, e, g, x, risk, until) :
        e \in Effects, g \in AgentPatterns, x \in ActionPatterns, risk \in Caps,
        until \in Limits}
Requests ==
    [tenant : {"t"}, agent : {"a", "b"}, federated : BOOLEAN,
     action : {tool(<<"fs">>), tool(<<"fs", "read">>), tool(<<"fsx">>)}, resource : {<<"r">>},
     risk : {"write", "destructive"}, now : {5, 6}]
Policy(tenant, rules) == [tenant |-> tenant, rules |-> rules]
AllowAll(id) == Rule(id, "allow", [id |-> "*", federated |-> FALSE], Star, "", NoTime)
Others == Policy("u", <<AllowAll("everyone")>>)

AskPolicy ==
    \E r \in Rules("one"), s \in Rules("two") :
        LET files == <<Policy("t", <<r, s>>), Others>> IN
        /\ s.maxRisk = "" /\ s.notAfter = NoTime
        /\ ask' = [kind |-> "action", rules |-> <<r, s>>]
        /\ answer' = [req \in Requests |-> Authorize(LoadPolicyDir(files, <<>>), req)]

AskOPA ==
    \E reply \in Replies : ask' = [kind |-> "opa", reply |-> reply] /\ answer' = OPAAuthorize(reply)

-----------------------------------------------------------------------------
(* An export *)

Formats == {"bundle", "aat", "csv"}
Readings == 1..2

\* A log of n entries, each dated by the host's clock.
AuditLog(n, e, clock) ==
    [k \in 1..n |-> [seq |-> k, timestamp |-> clock[k], event |-> e[k].event,
                     producer |-> e[k].producer, decision |-> e[k].decision]]
ExportLog(format, filtered, key, verified, records) ==
    /\ (key /\ verified /\ ~filtered /\ format = "aat") \/ Len(records) = 1
    /\ ask' = [kind |-> "export", format |-> format, filtered |-> filtered, key |-> key,
               verified |-> verified, records |-> records]
    /\ answer' = ExportCommand(format, filtered, key, verified, records)

ExportAudit ==
    \E n \in 1..3, key, verified, filtered \in BOOLEAN, format \in Formats :
    \E e \in [1..n -> Entries], clock \in [1..n -> Readings] :
        ExportLog(format, filtered, key, verified, AuditLog(n, e, clock))

-----------------------------------------------------------------------------
(* A signed request *)

Bodies == {<<>>, <<"loose", "b">>, <<"twice", "b">>}
Queries == {<<>>, <<"?", "a">>}
Sent(body, typed, query) ==
    Sign(Unsigned(typed, query), body, "t", "a", "id", "key", "keyid", "fine", 1000)

Receive ==
    \E body \in Bodies, typed \in BOOLEAN, query \in Queries :
    /\ Signs(Unsigned(typed, query), body)
    /\ query = <<>> \/ (body = <<>> /\ ~typed)
    /\ \E m \in Rewritten(Sent(body, typed, query)) :
       \E r \in Rewritten(m), now \in {939, 940, 1300, 1301} :
        /\ ask' = [kind |-> "request", sent |-> Sent(body, typed, query), got |-> r, now |-> now]
        /\ answer' = Verify(r, "key", now)

-----------------------------------------------------------------------------
(* A span *)

Str(text) == [type |-> "string", text |-> text, pad |-> FALSE]
Int64(n, as) == [as |-> as, n |-> n]
SomeAttrs ==
    {<<"gen_ai.tool.name", Str(Word("fs"))>>, <<"gen_ai.tool.name", [Str(NoText) EXCEPT !.pad = TRUE]>>,
     <<"gen_ai.tool.call.id", [type |-> "int", int |-> Int64(7, "number")]>>,
     <<"gen_ai.agent.id", [Str(Word("a")) EXCEPT !.pad = TRUE]>>, <<"agent.name", Str(Word("b"))>>,
     <<"tenant.id", [type |-> "other"]>>, <<"http.request.method", Str(Word("GET"))>>,
     <<"http.method", [type |-> "bool", b |-> "true"]>>,
     <<"url.full", Str(Url(api, None, "https"))>>, <<"url.full", Str(Url(ex, None, "http"))>>,
     <<"url.full", Str(Url(ex, 8443, "https"))>>, <<"url.full", Str(Url(internal, None, "https"))>>,
     <<"url.full", Str(Url([ex EXCEPT !.upper = TRUE], 70000, "https"))>>,
     <<"url.full", Str(Url(ex, None, "wss"))>>, <<"url.path", Str(PathOnly)>>,
     <<"server.address", Str(Destination(ex, None))>>,
     <<"server.address", [Str(Destination(api, 8443)) EXCEPT !.pad = TRUE]>>,
     <<"http.host", Str(Destination([ex EXCEPT !.upper = TRUE], 443))>>,
     <<"db.system", Str(Word("pg"))>>, <<"db.name", [type |-> "double", d |-> "1.5"]>>,
     <<"gen_ai.operation.name", Str(Word("chat"))>>, <<"gen_ai.system", Str(Word("vendor"))>>}
AttrMaps == {[key \in {kv[1] : kv \in s} |-> (CHOOSE kv \in s : kv[1] = key)[2]] :
                s \in {t \in kSubset(3, SomeAttrs) \cup kSubset(2, SomeAttrs) :
                          \A x, y \in t : x[1] = y[1] => x = y}}
Ids == [bytes : {"", "ab"}, spelling : {"hex", "HEX", "base64"}]
\* Unset, a moment, the next, an instant before and an instant after a millisecond
\* more, and a time beyond what an int64 holds.
Times == {0, 5000128, 5000300, 6000127, 6000200, MaxInt64 + 1}
SpanOf(attrs, id, start, end, as, code) ==
    [name |-> Word("step"), attrs |-> attrs, traceId |-> id, spanId |-> [id EXCEPT !.bytes = "cd"],
     start |-> Int64(start, as), end |-> Int64(end, as),
     status |-> [code |-> code, message |-> IF code = 2 THEN NoText ELSE Word("m")]]
Resources == {<<>>, [x \in {"service.name"} |-> Str(Word("svc"))],
              [x \in {"service.namespace", "agent.id"} |-> Str(Word("ns"))]}
OneAttr == {[x \in {kv[1]} |-> kv[2]] : kv \in SomeAttrs}

FromJSON(span, resource) == mapSpan(span, attrMap(resource))
FromProtobuf(span, resource) == mapSpan(fromProto(span), attrMap(protoAttrs(resource)))
Export(span, resource) ==
    /\ ask' = [kind |-> "span", span |-> span]
    /\ answer' = [obs |-> FromJSON(span, resource), json |-> toEvent(FromJSON(span, resource)),
                  protobuf |-> toEvent(FromProtobuf(span, resource))]

ExportSpan ==
    \/ \E attrs \in AttrMaps, resource \in Resources, code \in {1, 2} :
           Export(SpanOf(attrs, [bytes |-> "ab", spelling |-> "hex"], 5000128, 6000200, "string", code),
                  resource)
    \/ \E attrs \in OneAttr, id \in Ids, start, end \in Times, as \in {"string", "number", "absent"} :
           /\ as = "number" => {start, end} \subseteq 0..MaxInt64
           /\ as = "absent" => start = 0 /\ end = 0
           /\ Export(SpanOf(attrs, id, start, end, as, 0), <<>>)

\* The same export over HTTP in each encoding, and over gRPC.
Bodied == [wire : {10, 11}, unpacked : {10, 11}, gzip : BOOLEAN, encoding : {"", "gzip", "br"},
           parses : BOOLEAN]
Posted(auth, b, type) ==
    [authorization |-> auth, contentType |-> [type |-> type, upper |-> FALSE], wire |-> b.wire,
     unpacked |-> b.unpacked, gzip |-> b.gzip, encoding |-> b.encoding, parses |-> b.parses]
Doors(cfg, auth, b) ==
    LET status(type) == admitted(cfg, Posted(auth, b, type), 10) IN
    [json |-> status("application/json"), untyped |-> status(""),
     protobuf |-> status("application/x-protobuf"), text |-> status("text/plain"),
     grpc |-> checkBearer(cfg, auth)]

Knock ==
    \E b \in Bodied, token \in {"", "s"}, open \in BOOLEAN,
       auth \in {None} \cup [scheme : {"bearer", "basic"}, token : {"s", "t"}] :
        LET cfg == [token |-> token, allowUnauthenticated |-> open] IN
        /\ token # "" \/ open
        /\ ask' = [kind |-> "door", cfg |-> cfg, auth |-> auth, body |-> b]
        /\ answer' = Doors(cfg, auth, b)

-----------------------------------------------------------------------------
(* A log that is read while it is written *)

SomeLines ==
    {[kind |-> "record", decision |-> "deny", time |-> 1],
     [kind |-> "record", decision |-> "allow", time |-> 2],
     [kind |-> "loose", decision |-> "deny", time |-> 1],
     [kind |-> "checkpoint"], [kind |-> "blank"], [kind |-> "garbage"]}
Flags == [decision : {"", "deny"}, denied : BOOLEAN, wouldDeny : {FALSE}]
Filters ==
    {[decision |-> decisionFilter(f), since |-> parseSince(s, 3)] :
        f \in Flags, s \in {[kind |-> "none"], [kind |-> "duration", v |-> 1]}}
Cuts == 0..6
UpTo(file, n) == SubSeq(file, 1, n)

\* Three polls of a log of two lines that grows, is cut short, or has another file
\* put in its place.
Poll(x, y, a, b, c, filter, renamed) ==
    LET file == Pieces(<<x, y>>)
        Same(n) == [open |-> UpTo(file, n), path |-> UpTo(file, n)]
        polls == <<Same(a), Same(b),
                   IF renamed THEN [open |-> UpTo(file, b), path |-> UpTo(file, c)] ELSE Same(c)>>
    IN /\ renamed \/ b < a \/ c < b => filter = [decision |-> "", since |-> 0]
       /\ ask' = [kind |-> "follow", file |-> file, polls |-> polls, filter |-> filter]
       /\ answer' = follow(polls, filter)

FollowLog ==
    \E x, y \in SomeLines, a, b, c \in Cuts, filter \in Filters, renamed \in BOOLEAN :
        Poll(x, y, a, b, c, filter, renamed)

-----------------------------------------------------------------------------
(* A packet of a workload, and the environment it starts with *)

States == {"new"} \cup Ongoing
Pkt(from, hook, a, proto, port, state, uid, lo) ==
    [from |-> from, hook |-> hook, daddr |-> a, proto |-> proto, dport |-> port,
     state |-> state, uid |-> uid, lo |-> lo]

Hooks == {"forward", "input"}
Protocols == {"tcp", "udp"}
Users == {0, 1000, 1337}
Sources == {"sandbox", "lan"}
ProxyPort == 8080
Send(p) == ask' = [kind |-> "packet", p |-> p] /\ answer' = sandboxFilter(ProxyPort, p)
SendPacket ==
    \E from \in Sources, hook \in Hooks, a \in Addrs4 \cup Addrs6,
       proto \in Protocols, port \in {53, ProxyPort}, state \in States :
        Send(Pkt(from, hook, a, proto, port, state, 0, FALSE))

SharedPorts == {53, ProxyPort, 8900}
MorePorts == {{}, {8900}, {65536}}
SharedPkt(proto, port, state, uid, lo) ==
    Pkt("", "output", <<2056, 2056>>, proto, port, state, uid, lo)
Shared(proxyUID, more) ==
    [proxyUID |-> proxyUID, proxyPort |-> ProxyPort, loopbackPorts |-> more]
AskShared(p, c) == [kind |-> "shared packet", p |-> p, cfg |-> c]

\* A rule that asks something of a packet does not leave it open; a counter is one.
ASSUME WildAsksNothing ==
    /\ Wild \notin {"sandbox", "forward", "input", "tcp"} /\ Wild \notin BOOLEAN
    /\ Wild \notin Users /\ Wild # Ongoing
    /\ \A more \in MorePorts : Wild # {ProxyPort} \cup more
    /\ \A S \in SUBSET (private \cup linkLocal \cup {Prefix(metadata6, 128)}) : Wild # S
    /\ None \notin {"metadata_endpoint", "private_network", "external", "host_service",
                    "refused_direct"}

\* A packet of a user leaves a namespace shared with the proxy's.
Leave(proto, port, state, uid, lo, proxyUID, more) ==
    LET p == SharedPkt(proto, port, state, uid, lo)
        c == Shared(proxyUID, more)
    IN sidecarRules(c) # None /\ ask' = AskShared(p, c) /\ answer' = sidecarFilter(c, p)

SendShared ==
    \E uid, proxyUID \in Users, lo \in BOOLEAN, proto \in Protocols,
       port \in SharedPorts, more \in MorePorts, state \in States :
        Leave(proto, port, state, uid, lo, proxyUID, more)

HostEnvs == {<<>>, <<<<"HOME", "h">>, <<"TOKEN", "s">>, <<"http_proxy", "x">>>>}
EnvFlags ==
    {<<>>} \cup {<<f, g>> : f, g \in [name : {"", "TOKEN", "NO_PROXY", "MODE"}, value : {None, "v"}]}

Subnets == {<<2561, 0>>, <<2561, 1>>, <<2561, 2>>, <<2561, 65533>>, <<2561, 65535>>}
Lengths == {23, 24, 30, 31, 32}
Start(host, flags, inherit, subnet, port, nameLen) ==
    LET env == workloadEnv(host, flags, inherit)
        c == [nameLen |-> nameLen, subnet |-> subnet, proxyPort |-> port]
    IN /\ ask' = [kind |-> "start", host |-> host, flags |-> flags, inherit |-> inherit,
                  subnet |-> subnet]
       /\ answer' = [addrs |-> sandboxAddrs(c),
                     env |-> IF env = None THEN None ELSE Command(env, host, "proxy")]

StartWorkload ==
    \E host \in HostEnvs, flags \in EnvFlags, inherit \in BOOLEAN :
    \E a \in Subnets, bits \in Lengths, port \in {0, ProxyPort}, nameLen \in {0, 8, 9} :
        /\ \/ flags = <<>> /\ host = <<>>
           \/ bits = 30 /\ port = ProxyPort /\ a = <<2561, 0>> /\ nameLen = 8
        /\ Start(host, flags, inherit, Prefix(a, bits), port, nameLen)

Forget == ask' = Idle /\ answer' = None

Next ==
    \/ /\ ask.kind = "idle"
       /\ \/ ReadLine \/ HashTime \/ HashFields \/ BuildGuard \/ Observe \/ Draft
          \/ AskPolicy \/ AskOPA
          \/ ExportAudit \/ Receive \/ ExportSpan \/ Knock \/ FollowLog
          \/ SendPacket \/ SendShared \/ StartWorkload
    \/ ask.kind # "idle" /\ Forget

Spec == Init /\ [][Next]_vars

-----------------------------------------------------------------------------
(* Properties *)

\* decodeLine and classify were written apart, in two styles (raw members of exact
\* names; typed fields with encoding/json's leniency): they call the same lines a
\* record, a checkpoint and malformed.
SameKind == ask.kind = "line" => answer.sink = answer.auditor

\* What is accepted as a record reads the same to a decoder that takes the last
\* member in any letter case (encoding/json into a struct) and to one that takes
\* the exact name: no line means one thing to one reader and another to the next.
ReadersAgree ==
    ask.kind = "line" /\ answer.sink # "malformed" =>
        LET ms == ask.line.ms
            defined == IF answer.sink = "record" THEN recordMembers ELSE checkpointMembers
        IN /\ \A n \in defined : Lenient(ms, n) = Exact(ms, n)
           /\ answer.sink = "record" =>
                  LET e == Exact(ms, "event").m IN
                  \A n \in eventMemberNames :
                      (\E k \in Positions(e) : e[k].name = n)
                          => n \in Names(e) /\ Lenient(e, n) = Exact(e, n)

\* The instant a timestamp names, as the number of its day and the minute of the
\* day: the days before its year and its month, and the clock less its offset.
YearStart(y) ==
    IF y > 0 THEN 366 + 365 * (y - 1) + ((y - 1) \div 4) - ((y - 1) \div 100) + ((y - 1) \div 400)
    ELSE 365 * y
MonthStart(y, mo) ==
    <<0, 31, 59, 90, 120, 151, 181, 212, 243, 273, 304, 334>>[mo]
    + (IF mo > 2 /\ Leap(y) THEN 1 ELSE 0)
Instant(y, mo, d, min) ==
    <<YearStart(y) + MonthStart(y, mo) + d + (min \div 1440), min % 1440>>

\* Both refuse the same timestamps, and hash of the others the same text, which names
\* the instant that was written.  Left out is a time that is before year 0 in UTC:
\* time.Format pads its year to -0001 where the auditor's %04d has -001.
TimesAgree ==
    ask.kind = "time" =>
        LET t == ask.t IN
        /\ answer.sink.year = <<>> <=> answer.auditor.year = <<>>
        /\ answer.sink.year # <<>> =>
               /\ Instant(answer.sink.date[1], answer.sink.date[2], answer.sink.date[3],
                          answer.sink.min)
                  = Instant(t.y, t.mo, t.d, 60 * t.h + t.mi - Offset(t))
               /\ answer.sink.date[1] >= 0 => answer.sink = answer.auditor

\* Both hash and sign the same fields in the same order.
FieldsAgree == ask.kind = "fields" => answer.sink = answer.auditor

\* No line is a record to one reader of a log and something else, or another record,
\* to the next.
LinesAgree == SameKind /\ ReadersAgree /\ TimesAgree /\ FieldsAgree

\* What Check compares together with the zone and no other case refuses.
ZoneMatters == {nat64, nat64Local} \cup unspecified

\* Whatever list of exemptions NewGuard accepts, Check lets through nothing of the
\* space that cannot be exempted, and other refused space only inside a prefix that was
\* listed; an IPv6 address with a zone it lets through, exempted or not, exactly if its
\* groups are in no refused space or in one of ZoneMatters, where guard.go says
\* "refuse the whole range"; and it says the same of an IPv4 address and of its
\* IPv6 spelling.
GuardHolds ==
    ask.kind = "guard" /\ answer # None =>
        \A addr \in Addrs :
            LET a == Unmap(addr)
                bare == WithoutZone(a)
                passes == Check(answer, addr) = "allowed"
            IN /\ a = bare /\ passes =>
                      ~In(a, neverExempt) /\ (In(a, Spaces) => In(a, ask.permit))
               /\ a # bare => (passes <=> (In(bare, Spaces) => In(bare, ZoneMatters)))
               /\ Check(answer, addr) = Check(answer, a)

\* Shadow evaluation sees a span, the proxy the connection.  would_deny is never
\* said of a connection the proxy would make, would_allow only of one it makes if
\* the lookup gives addresses the guard passes, and a port that is not known leaves
\* the verdict open only where some port is permitted; agw policy explain says
\* ALLOW of the same connections.
ShadowAgrees ==
    ask.kind = "connection" =>
        LET g == NewGuard(ask.policy.permitPrivate)
            Enforced(port, found) ==
                authorize(ask.policy, g, ask.conn.agent, ask.conn.host, port, found) = "allowed"
            verdict == answer.shadow[1]
        IN /\ verdict = "would_deny" => \A found \in Answers : ~Enforced(ask.conn.port, found)
           /\ verdict = "would_allow" => Enforced(ask.conn.port, {<<2056, 2056>>})
           /\ verdict = "not_evaluable" /\ ask.how # "nothing" =>
                  \E port \in SomePorts : Enforced(port, {<<2056, 2056>>})
           /\ answer.explain = "ALLOW" <=> Enforced(ask.conn.port, {<<2056, 2056>>})
           /\ ask.how \in {"url", "target"} =>
                  (verdict = "would_allow" <=> answer.explain = "ALLOW")

\* What is drafted from the record of a span, rehearsed on the span itself, is never
\* reported as would_deny: the two read its destination alike.
Rehearsed ==
    ask.kind = "span" =>
        LET rec == draftRecord(answer.json)
            draft == suggest(IF rec = None THEN <<>> ELSE <<rec>>, TRUE, answer.json.agent.w, 1)
        IN draft.workloads[1].allow # <<>> =>
               judged(answer.obs, draft).decision # "would_deny"

\* A draft of agw policy suggest passes agw policy lint, and enforced as it is it
\* permits the destinations that workload was seen to reach often enough, and none
\* it was not seen to reach: neither what was only refused nor what only another
\* agent reached.  Rehearsed with agw watch --policy on the spans it was drafted
\* from it finds nothing to refuse.
DraftSound ==
    /\ Rehearsed
    /\ ask.kind = "draft" =>
        LET reached == {k \in 1..Len(ask.recs) :
                ask.recs[k].agent = "a" /\ ask.recs[k].decision # "deny"}
            To(h, port) == {k \in reached : ask.recs[k].host = h /\
                ask.recs[k].port = port}
            Permitted(h, port) ==
                authorize(answer, NewGuard(answer.permitPrivate), "a", h, port,
                          {<<2056, 2056>>}) = "allowed"
        IN /\ lintOne(answer)
           /\ \A h \in {o.host : o \in Observations}, port \in {443, 8443} :
                 /\ Permitted(h, port) => \E k \in reached :
                        ask.recs[k].host = h /\ ask.recs[k].port \in {None, port}
                 /\ /\ Cardinality(To(h, port)) >= ask.min
                    /\ Check(Unguarded, IF h.addr = None THEN <<2056, 2056>> ELSE h.addr) = "allowed"
                    => Permitted(h, port)

Alone(r) == Policy("t", <<r>>)
\* What the built-in engine decides does not depend on the order of a policy's
\* rules nor on the other tenants' files; a deny rule more never allows anything;
\* an agent of another organization is allowed only by a rule that says federated;
\* agw policy explain says what the engine will; and
\* of OPA's replies anything but a clear yes becomes a refusal with its status.
AuthzSound ==
    /\ ask.kind = "opa" =>
        /\ answer.outcome = "allow" => ask.reply = "true"
        /\ HTTPStatus(answer.reason) = 200 <=> answer.outcome = "allow"
    /\ ask.kind = "action" =>
        LET r == ask.rules[1]
            s == ask.rules[2]
        IN \A req \in Requests :
             LET got == answer[req].outcome IN
             /\ got = Authorize(<<Policy("t", <<s, r>>)>>, req).outcome
             /\ s.effect = "deny" /\ Authorize(<<Alone(r)>>, req).outcome = "deny" => got = "deny"
             /\ got = "allow" => \E q \in {r, s} :
                    q.effect = "allow" /\ \A g \in q.agents : g.federated = req.federated
             /\ ~req.federated =>
                    explainAction(Policy("t", <<r, s>>), req.agent, req.action, req.resource,
                                  req.risk, req.now).outcome = got
             /\ HTTPStatus(answer[req].reason) = 200 <=> got = "allow"

\* An export is written exactly if the log verified under a key and its clock never
\* went back, holds every record in order, and calls denied exactly what was
\* refused.
AatExact ==
    ask.kind = "export" =>
        LET n == Len(ask.records) IN
        /\ answer.err = "none" <=>
               /\ ask.format = "aat" /\ ~ask.filtered /\ ask.key /\ ask.verified
               /\ \A k \in 2..n : ask.records[k].timestamp >= ask.records[k - 1].timestamp
        /\ answer.err = "none" =>
               /\ Len(answer.out) = n + 1
               /\ \A k \in 1..n :
                      /\ answer.out[k + 1].source = ask.records[k]
                      /\ answer.out[k + 1].outcome = "denied" <=> ask.records[k].decision = "deny"

\* Whether the request that arrived is the one that was signed: every part that
\* identifies it, the headers the profile covers and the body, up to letter case
\* and white space where HTTP does not tell them apart, and to the order in which
\* the signature's parameters are written.  The query is not quite identified: none
\* and an empty one are the same, and one question mark more at its beginning is.
SameRequest(got, sent) ==
    LET covered == ToSet(identityHeaders)
                   \cup (IF HasBody(sent) THEN {"content-type", "content-digest"} ELSE {})
    IN /\ got.method.t = sent.method.t /\ got.authority.t = sent.authority.t
       /\ got.path = sent.path /\ got.body = sent.body
       /\ LET query == RawQuery(sent.query) IN RawQuery(got.query) \in {query, <<"?">> \o query}
       /\ covered \subseteq DOMAIN got.headers
       /\ \A h \in covered : got.headers[h][1].t = sent.headers[h][1].t
       /\ \A h \in DOMAIN got.headers : Len(got.headers[h]) = 1
       /\ got.input.components = sent.input.components
       /\ ToSet(got.input.params) = ToSet(sent.input.params)
       /\ Len(got.input.params) = Len(sent.input.params)
       /\ got.input.label = got.signature.label /\ got.input.label # "sig 1"
       /\ got.signature.key = sent.signature.key

\* Verify accepts a request that may have been changed on the way in up to two
\* places, 61 or 60 seconds before or 300 or 301 after it was signed, exactly if it
\* is still the request that Sign signed and neither too old nor from the future.
Ags1Exact ==
    ask.kind = "request" =>
        (answer <=> SameRequest(ask.got, ask.sent) /\ ask.now \in 940..1300)

Abs(n) == IF n < 0 THEN -n ELSE n

\* A span becomes the same event whether it is exported as JSON or as protobuf,
\* except that times a JSON exporter writes as numbers are those of the nearest
\* float64, and the latency with them; and whoever may export one way may export
\* every other way.
EncodingsAgree ==
    /\ ask.kind = "span" =>
           LET j == answer.json
               p == answer.protobuf
           IN IF ask.span.start.as # "number" THEN j = p
              ELSE /\ [j EXCEPT !.started = 0, !.finished = 0, !.latency = 0]
                          = [p EXCEPT !.started = 0, !.finished = 0, !.latency = 0]
                   /\ Abs(j.started - p.started) <= Step \div 2
                   /\ Abs(j.finished - p.finished) <= Step \div 2
                   /\ Abs(j.latency - p.latency) <= 1
    /\ ask.kind = "door" =>
           /\ answer.json = answer.protobuf /\ answer.json = answer.untyped
           /\ answer.grpc <=> answer.json # 401
           /\ answer.text # 200
           /\ answer.json = 200 => ask.body.wire <= 10 /\ (ask.body.encoding = "gzip" => ask.body.unpacked <= 10)

\* Of a sandbox's packets only those to the proxy's port, and answers, get through;
\* every other one is counted once, under the category whose name says what the
\* proxy's guard calls the same address; packets of others are left alone.
PacketsHeld ==
    ask.kind = "packet" =>
        LET p == ask.p
            reason == Check(Unguarded, p.daddr)
        IN IF p.from # "sandbox" THEN answer = [verdict |-> "accept", counter |-> None]
           ELSE /\ answer.verdict = "accept" <=>
                       /\ p.hook = "input"
                       /\ p.state \in Ongoing \/ (p.proto = "tcp" /\ p.dport = ProxyPort)
                /\ answer.verdict = "drop" <=> answer.counter # None
                /\ answer.verdict = "drop" /\ p.hook = "forward" =>
                       /\ answer.counter = "metadata_endpoint" <=> reason = "metadata_endpoint"
                       /\ answer.counter = "private_network" <=> reason = "private_address_denied"

\* In a shared namespace only the proxy's user, which is never root, opens connections
\* to anything but the listed ports of the loopback interface.
SharedHeld ==
    ask.kind = "shared packet" /\ ask.p.state = "new" =>
        /\ ask.cfg.proxyUID # 0
        /\ answer.verdict = "accept" <=>
               \/ ask.p.uid = ask.cfg.proxyUID
               \/ ask.p.lo /\ ask.p.proto = "tcp"
                  /\ ask.p.dport \in {ProxyPort} \cup ask.cfg.loopbackPorts
        /\ answer.verdict = "drop" <=> answer.counter = "refused_direct"

\* Whatever the operator's environment and flags say, a workload starts with the
\* proxy as its proxy and without exceptions from it, and unless all was inherited
\* it sees nothing that is neither harmless nor named in a flag; the two ends of its
\* link are different addresses of the link.
StartsHeld ==
    ask.kind = "start" =>
        /\ answer.env # None =>
               /\ Value(answer.env, "http_proxy") = "proxy" /\ Value(answer.env, "NO_PROXY") = ""
               /\ ~ask.inherit => \A kv \in ToSet(answer.env) :
                      \/ kv[1] \in minimalEnvNames
                      \/ kv \in ToSet(ProxyEnv("proxy"))
                      \/ \E f \in ToSet(ask.flags) : f.name = kv[1]
        /\ answer.addrs # None =>
               /\ answer.addrs.host # answer.addrs.guest
               /\ \A x \in {"host", "guest"} : PrefixContains(ask.subnet, answer.addrs[x])

\* A workload starts behind the boundary, and no packet of it crosses.
BoundaryHolds == PacketsHeld /\ SharedHeld /\ StartsHeld

\* Whether the polls find a log that only grows.
OnlyGrows(polls) ==
    \A k \in 1..Len(polls) :
        /\ polls[k].open = polls[k].path
        /\ k > 1 => IsPrefix(polls[k - 1].open, polls[k].open)

\* Following a log that only grows prints what reading it once at the end prints,
\* however the polls cut its lines, and reports nothing; a log that is shorter than
\* what was read is reported, and nothing is printed from then on.
FollowExact ==
    ask.kind = "follow" =>
        LET last == ask.polls[Len(ask.polls)].open
            once == Show(last, ask.filter)
            complete == last = <<>> \/ last[Len(last)].end
        IN IF OnlyGrows(ask.polls)
           THEN /\ ~answer.shrank
                /\ ~once.err => IsPrefix(answer.printed, once.printed)
                /\ ~once.err /\ complete => answer.printed = once.printed
           ELSE (\E k \in 2..Len(ask.polls) : \E j \in 1..(k - 1) :
                    Len(ask.polls[k].path) < Len(ask.polls[j].open)) <=> answer.shrank
=============================================================================
