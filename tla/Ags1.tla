--------------------------------- MODULE Ags1 ---------------------------------
(***************************************************************************)
(* AGS1 request signatures: httpmsig.Sign on the agent's side, httpmsig    *)
(* .Verify on the other, the headers between them (signature_input.go,     *)
(* signature_header.go) and the bytes they sign (pkg/ags1/canonicalhttp,   *)
(* pkg/ags1/digest).                                                       *)
(*                                                                         *)
(* A message has the parts of a request, each as written: a text with the  *)
(* letter case or the white space it was written in.  A hash is the body   *)
(* hashed, a signature the key and the bytes signed.                       *)
(***************************************************************************)
EXTENDS Integers, Sequences, SequencesExt

MaxRequestAgeSeconds == 300
MaxClockSkewSeconds == 60
SignatureTag == "agw-sig-v1"

\* A text in its canonical spelling, or in another one (capitals, white space
\* around it, a line break in it).
Text(t) == [t |-> <<t>>, plain |-> TRUE]
Normalize(v) == [v EXCEPT !.plain = TRUE]

identityHeaders ==
    <<"x-agent-id", "x-tenant-id", "x-request-id", "x-agent-signature-version", "traceparent">>
coveredWithoutBody == <<"@method", "@authority", "@path", "@query">> \o identityHeaders
coveredWithBody ==
    <<"@method", "@authority", "@path", "@query", "content-digest", "content-type">>
    \o identityHeaders
CoveredComponents(hasBody) == IF hasBody THEN coveredWithBody ELSE coveredWithoutBody
IsSupportedComponent(c) == c \in ToSet(coveredWithBody)
RequiresStrictSerialization(c) == c = "content-digest"

HasBody(m) == m.body # <<>>

-----------------------------------------------------------------------------
(* The canonical request *)

\* A query as written begins with a question mark, and none at all is <<>>: net/url
\* hands on what follows the mark, the same of none and of an empty one.
RawQuery(written) == IF written = <<>> THEN <<>> ELSE Tail(written)

\* One leading question mark is dropped before the one that is signed is put there.
CanonicalQuery(raw) ==
    <<"?">> \o (IF raw # <<>> /\ Head(raw) = "?" THEN Tail(raw) ELSE raw)

\* A header named twice is refused; its value has its white space removed.
NormalizeHeaders(m) ==
    [ok |-> \A h \in DOMAIN m.headers : Len(m.headers[h]) = 1,
     values |-> [h \in DOMAIN m.headers |-> Normalize(m.headers[h][1])]]

\* The path is taken as it arrived, encoding included.
FromHTTPRequest(m) ==
    [ok |-> NormalizeHeaders(m).ok, method |-> Normalize(m.method),
     authority |-> Normalize(m.authority), path |-> m.path,
     query |-> CanonicalQuery(RawQuery(m.query)), headers |-> NormalizeHeaders(m).values,
     body |-> m.body]

Compute(body) == [t |-> <<"sha-256", body>>, plain |-> TRUE]
ValidateDigest(body, provided) == provided = Compute(body)

\* Mutant: a list that names nothing unknown will do.
MutantValidateCoveredComponents(components, hasBody) ==
    ToSet(components) \subseteq ToSet(coveredWithBody)

ValidateCoveredComponents(components, hasBody) == components = CoveredComponents(hasBody)

ResolveComponentValue(c, component) ==
    CASE component = "@method" -> c.method
      [] component = "@authority" -> c.authority
      [] component = "@path" -> c.path
      [] component = "@query" -> c.query
      [] OTHER -> c.headers[component]

Resolves(c, components) ==
    \A k \in 1..Len(components) :
        components[k] \in {"@method", "@authority", "@path", "@query"} \cup DOMAIN c.headers

\* The lines of the components, then the parameters with the list itself.
BuildSignatureBase(c, components, params) ==
    <<[k \in 1..Len(components) |-> <<components[k], ResolveComponentValue(c, components[k])>>],
      components, params>>

-----------------------------------------------------------------------------
(* Sign *)

\* A body is how it is written and what it says: JSON in any form or the canonical
\* one, JSON that names a member twice, or no JSON.
RejectDuplicateKeys(body) == body[1] \notin {"twice", "broken"}
JCS(body) == <<"canonical">> \o Tail(body)

IsJSON(req) ==
    /\ "content-type" \in DOMAIN req.headers
    /\ Normalize(req.headers["content-type"][1]) = Text("application/json")

\* Whether Sign has the body to sign; its other refusals (no request, no key, no
\* tenant or agent, a nonce of a wrong form) are not of the request.
Signs(req, body) == body # <<>> /\ IsJSON(req) => RejectDuplicateKeys(body)

\* The body is canonicalized if the request says it is JSON; then the identity
\* headers and the digest are set; a body without a type is called JSON after
\* that.
Prepare(req, body, tenant, agent, id) ==
    LET sent == IF body # <<>> /\ IsJSON(req) THEN JCS(body) ELSE body
        given == [h \in ToSet(identityHeaders) |->
                     <<Text(CASE h = "x-agent-id" -> agent [] h = "x-tenant-id" -> tenant
                              [] h = "x-request-id" -> id [] OTHER -> "1")>>]
        typed == IF "content-type" \in DOMAIN req.headers THEN req.headers["content-type"]
                 ELSE <<Text("application/json")>>
        forBody == IF body = <<>> THEN <<>>
                   ELSE [h \in {"content-digest", "content-type"} |->
                            IF h = "content-type" THEN typed ELSE <<Compute(sent)>>]
    IN [req EXCEPT !.headers = given @@ forBody @@ req.headers, !.body = sent]

BuildSignatureInput(label, components, p) ==
    [label |-> label,
     components |-> [k \in 1..Len(components) |->
         [name |-> components[k], sf |-> RequiresStrictSerialization(components[k])]],
     params |-> <<<<"created", p.created>>, <<"keyid", p.keyid>>, <<"nonce", p.nonce>>,
                  <<"tag", p.tag>>>>]

Sign(req, body, tenant, agent, id, key, keyid, nonce, created) ==
    LET m == Prepare(req, body, tenant, agent, id)
        components == CoveredComponents(body # <<>>)
        params == [created |-> created, keyid |-> keyid, nonce |-> nonce, tag |-> SignatureTag]
    IN [m EXCEPT
          !.input = BuildSignatureInput("sig1", components, params),
          !.signature = [label |-> "sig1", key |-> key,
                         of |-> BuildSignatureBase(FromHTTPRequest(m), components, params)]]

-----------------------------------------------------------------------------
(* Verify *)

\* A label has a character, and only letters, digits, hyphens, dots and underlines.
splitLabel(input) == input.label \notin {"", "sig 1"}

ParseComponents(input) ==
    \A k \in 1..Len(input.components) :
        /\ IsSupportedComponent(input.components[k].name)
        /\ input.components[k].sf = RequiresStrictSerialization(input.components[k].name)

\* A closed set of parameters, each once; alg is not one of them.
ParseParams(input) ==
    /\ ToSet([k \in 1..Len(input.params) |-> input.params[k][1]])
           = {"created", "keyid", "nonce", "tag"}
    /\ Len(input.params) = 4
Param(input, name) == SelectSeq(input.params, LAMBDA p : p[1] = name)[1][2]

\* nonce.Validate: neither too short nor too long, of its character set.
ValidNonce(n) == n \notin {"short", "long", "odd"}

ParseSignatureInput(input) ==
    /\ splitLabel(input) /\ ParseComponents(input) /\ ParseParams(input)
    /\ Param(input, "tag") = SignatureTag
    /\ ValidNonce(Param(input, "nonce"))

ParseHeaders(m) ==
    /\ ParseSignatureInput(m.input)
    /\ m.input.label = m.signature.label

ValidateTimestamp(created, now) ==
    /\ created <= now + MaxClockSkewSeconds
    /\ now - created <= MaxRequestAgeSeconds

verifyEd25519(pub, base, signature) == signature.key = pub /\ signature.of = base

Verify(m, pub, now) ==
    LET c == FromHTTPRequest(m)
        components == [k \in 1..Len(m.input.components) |-> m.input.components[k].name]
        params == [p \in {"created", "keyid", "nonce", "tag"} |-> Param(m.input, p)]
    IN /\ c.ok
       /\ ParseHeaders(m)
       /\ ValidateCoveredComponents(components, HasBody(m))
       /\ ValidateTimestamp(params.created, now)
       /\ HasBody(m) => /\ "content-digest" \in DOMAIN c.headers
                        /\ ValidateDigest(m.body, c.headers["content-digest"])
       /\ Resolves(c, components)
       /\ verifyEd25519(pub, BuildSignatureBase(c, components, params), m.signature)

-----------------------------------------------------------------------------
(* On the way *)

Unsigned(typed, query) ==
    [method |-> Text("POST"), authority |-> Text("gateway"), path |-> Text("/v1"), query |-> query,
     headers |-> IF typed THEN [h \in {"content-type"} |-> <<Text("application/json")>>] ELSE <<>>,
     body |-> <<>>, input |-> <<>>, signature |-> <<>>]

\* What a request can look like at the other end: rewritten in one part.
Rewritten(m) ==
    {m}
    \cup {[m EXCEPT !.method = [t |-> <<t>>, plain |-> p]] : t \in {"POST", "PUT"}, p \in BOOLEAN}
    \cup {[m EXCEPT !.authority = [t |-> <<t>>, plain |-> p]] : t \in {"gateway", "other"}, p \in BOOLEAN}
    \cup {[m EXCEPT !.path = [t |-> <<t>>, plain |-> p]] : t \in {"/v1", "/v2"}, p \in BOOLEAN}
    \cup {[m EXCEPT !.query = q] : q \in {<<>>, <<"?">>, <<"?", "?">>, <<"?", "a">>, <<"?", "?", "a">>,
                                       <<"?", "b">>}}
    \cup {[m EXCEPT !.body = b] : b \in {<<>>, <<"loose", "b">>, <<"canonical", "x">>}}
    \cup {[m EXCEPT !.body = b, !.headers = ("content-digest" :> <<Compute(b)>>) @@ @] :
             b \in {<<"loose", "b">>, <<"canonical", "x">>}}
    \cup {[m EXCEPT !.headers[h] = v] :
             h \in DOMAIN m.headers,
             v \in {<<Text("other")>>, <<m.headers["x-agent-id"][1], Text("other")>>}}
    \cup {[m EXCEPT !.headers[h][1].plain = FALSE] : h \in DOMAIN m.headers}
    \cup {[m EXCEPT !.headers = [h \in DOMAIN m.headers \ {g} |-> m.headers[h]]] : g \in DOMAIN m.headers \ {"x-agent-id"}}
    \cup {[m EXCEPT !.input.label = l] : l \in {"sig2"}}
    \cup {[m EXCEPT !.input.label = l, !.signature.label = l] : l \in {"sig2", "sig 1"}}
    \cup {[m EXCEPT !.input.components = c] :
             c \in {Tail(m.input.components), Front(m.input.components),
                    Append(m.input.components, [name |-> "content-type", sf |-> FALSE])}}
    \cup {[m EXCEPT !.input.params = p] :
             p \in {Append(m.input.params, <<"alg", "none">>),
                    Append(m.input.params, <<"created", 1000>>), Tail(m.input.params),
                    [m.input.params EXCEPT ![1] = <<"created", 1001>>],
                    [m.input.params EXCEPT ![3] = <<"nonce", "odd">>]}}
    \cup {[m EXCEPT !.signature.key = "another"]}
=============================================================================
