----------------------------- MODULE Destinations -----------------------------
(***************************************************************************)
(* Which destinations a workload may reach: the egress policy              *)
(* (internal/confine/policy.go), the structural guard (guard.go) and the   *)
(* resolver (resolve.go), as the proxy asks them; and the four places that *)
(* ask them elsewhere: shadow evaluation (internal/recorder/shadow.go) and *)
(* agw policy lint, explain and suggest (cmd/agw/policy.go).               *)
(*                                                                         *)
(* An address is the sequence of its 16-bit groups, two or eight, and of   *)
(* its zone where an IPv6 address has one (fe80::1%eth0).  A host as       *)
(* written has labels, possibly a trailing dot, possibly capitals, and  *)
(* the address it is the text of, if it is one.                            *)
(***************************************************************************)
EXTENDS Integers, Sequences, SequencesExt

CONSTANTS None, AnyPort

-----------------------------------------------------------------------------
(* Addresses *)

Is6(a) == Len(a) >= 8
V6(g1, g2, g3, last) == <<g1, g2, g3, 0, 0, 0, 0, last>>

\* A zone is a number, after the groups.
WithZone(a, zone) == Append(a, zone)
WithoutZone(a) == IF Len(a) = 9 THEN SubSeq(a, 1, 8) ELSE a

\* An IPv4 address written as ::ffff:a.b.c.d.
Mapped(a) == <<0, 0, 0, 0, 0, 65535, a[1], a[2]>>
Unmap(a) ==
    IF Is6(a) /\ SubSeq(a, 1, 6) = <<0, 0, 0, 0, 0, 65535>> THEN SubSeq(a, 7, 8) ELSE a

Prefix(a, n) == [addr |-> a, bits |-> n]

\* 2^(bits of group i that the prefix leaves open).
Open(p, i) ==
    LET fixed == p.bits - 16 * (i - 1) IN
    2 ^ (IF fixed >= 16 THEN 0 ELSE IF fixed <= 0 THEN 16 ELSE 16 - fixed)

\* Never of an address with a zone: a prefix has none.
PrefixContains(p, a) ==
    /\ Len(p.addr) = Len(a)
    /\ \A i \in 1..Len(a) : a[i] \div Open(p, i) = p.addr[i] \div Open(p, i)

Masked(p) == [p EXCEPT !.addr = [i \in 1..Len(@) |-> (@[i] \div Open(p, i)) * Open(p, i)]]

-----------------------------------------------------------------------------
(* The guard *)

metadata6 == V6(64768, 3778, 0, 596)
cgnat4 == Prefix(<<25664, 0>>, 10)
nat64 == Prefix(V6(100, 65435, 0, 0), 96)
nat64Local == Prefix(V6(100, 65435, 1, 0), 48)
linkLocal == {Prefix(<<43518, 0>>, 16), Prefix(V6(65152, 0, 0, 0), 10)}
multicast == {Prefix(<<57344, 0>>, 4), Prefix(V6(65280, 0, 0, 0), 8)}
loopback == {Prefix(<<32512, 0>>, 8), Prefix(V6(0, 0, 0, 1), 128)}
unspecified == {Prefix(<<0, 0>>, 32), Prefix(V6(0, 0, 0, 0), 128)}
private ==
    {Prefix(<<2560, 0>>, 8), Prefix(<<44048, 0>>, 12), Prefix(<<49320, 0>>, 16),
     Prefix(V6(64512, 0, 0, 0), 7)}

neverExempt ==
    linkLocal \cup multicast \cup {cgnat4, nat64, nat64Local, Prefix(V6(64768, 3778, 0, 0), 64)}

\* Mutant: only whether the first contains the second.
MutantprefixesOverlap(p, q) == PrefixContains(p, Masked(q).addr)

prefixesOverlap(p, q) == PrefixContains(p, Masked(q).addr) \/ PrefixContains(q, Masked(p).addr)

minBits(p) == IF Is6(p.addr) THEN 64 ELSE 24

\* NewGuard refuses a list that names space which can never be exempted, or too
\* much of any other.
NewGuard(permitPrivate) ==
    IF \A p \in permitPrivate :
           /\ \A banned \in neverExempt : ~prefixesOverlap(Masked(p), banned)
           /\ p.bits >= minBits(p)
    THEN [permitted |-> {Masked(p) : p \in permitPrivate}] ELSE None

In(a, prefixes) == \E p \in prefixes : PrefixContains(p, a)

\* The cases of Check's switch in their order, with the reason Reason gives for each
\* error.  anyZone: a method of netip.Addr, which does not look at the zone (Is...);
\* the others compare whole addresses, or ask a prefix.
denials ==
    <<[space |-> loopback, anyZone |-> TRUE, reason |-> "loopback_denied"],
      [space |-> multicast, anyZone |-> TRUE, reason |-> "multicast_denied"],
      [space |-> {Prefix(metadata6, 128)}, anyZone |-> FALSE, reason |-> "metadata_endpoint"],
      [space |-> linkLocal, anyZone |-> TRUE, reason |-> "metadata_endpoint"],
      [space |-> unspecified, anyZone |-> FALSE, reason |-> "invalid_destination"],
      [space |-> private, anyZone |-> TRUE, reason |-> "private_address_denied"],
      [space |-> {cgnat4}, anyZone |-> FALSE, reason |-> "carrier_nat_denied"],
      [space |-> {nat64, nat64Local}, anyZone |-> FALSE, reason |-> "nat64_denied"]>>

Denies(d, a) == In(IF d.anyZone THEN WithoutZone(a) ELSE a, d.space)

Check(g, addr) ==
    LET a == Unmap(addr)
        hits == {k \in 1..Len(denials) : Denies(denials[k], a)}
    IN IF In(a, g.permitted) \/ hits = {} THEN "allowed" ELSE denials[Min(hits)].reason

-----------------------------------------------------------------------------
(* The policy *)

\* star: "none", "lead" for a leading "*." label, "only" for "*" itself, "inside"
\* for an asterisk anywhere else.
Host(labels, addr) ==
    [labels |-> labels, addr |-> addr, dot |-> FALSE, upper |-> FALSE, star |-> "none"]

ToLower(h) == [h EXCEPT !.upper = FALSE]
TrimDot(h) == [h EXCEPT !.dot = FALSE]
ParseAddr(h) == IF h.dot \/ h.star # "none" THEN None ELSE h.addr

ValidRule(r) ==
    /\ r.host.labels # <<>> /\ r.host.star \in {"none", "lead"}
    /\ r.host.star = "lead" => Len(r.host.labels) >= 2
    /\ \A p \in r.ports : p \in 1..65535

\* Validate also writes each rule's host back in lower case.
Validate(p) ==
    /\ p.version = "1" /\ p.workloads # <<>>
    /\ \A i \in 1..Len(p.workloads) :
           /\ p.workloads[i].id \notin {"", "*"}
           /\ \A j \in 1..(i - 1) : p.workloads[j].id # p.workloads[i].id
           /\ \A k \in 1..Len(p.workloads[i].allow) : ValidRule(p.workloads[i].allow[k])

HasWorkload(p, w) == \E i \in 1..Len(p.workloads) : p.workloads[i].id = w

RulesOf(p, w) ==
    UNION {{[r EXCEPT !.host = ToLower(@)] : r \in ToSet(p.workloads[i].allow)} :
              i \in {j \in 1..Len(p.workloads) : p.workloads[j].id = w}}

\* A pattern against a host in lower case and without its dot.  An address is
\* compared as text first: its labels are the parts between the dots.
hostMatches(pattern, h) ==
    \/ pattern = h
    \/ /\ pattern.star = "lead" /\ ~pattern.dot
       /\ Len(h.labels) > Len(pattern.labels) /\ IsSuffix(pattern.labels, h.labels)
    \/ /\ ParseAddr(pattern) # None /\ ParseAddr(h) # None
       /\ Unmap(ParseAddr(pattern)) = Unmap(ParseAddr(h))

portMatches(ports, port) == ports = {} \/ port \in ports

PermitsHost(p, w, host) ==
    \E r \in RulesOf(p, w) : hostMatches(r.host, ToLower(TrimDot(host)))

Permits(p, w, host, port) ==
    \E r \in RulesOf(p, w) :
        hostMatches(r.host, ToLower(TrimDot(host))) /\ portMatches(r.ports, port)

-----------------------------------------------------------------------------
(* The proxy, and the resolver behind it *)

\* The addresses to dial: none if one of them is refused, or there is none.
Resolve(g, host, answer) ==
    LET addrs == IF ParseAddr(host) # None THEN {ParseAddr(host)} ELSE answer IN
    IF \A a \in addrs : Check(g, a) = "allowed" THEN {Unmap(a) : a \in addrs} ELSE {}

\* authorize, for a workload the registry knows: a literal, the policy, the
\* addresses.
authorize(p, g, w, authority, port, answer) ==
    LET host == ToLower(authority) IN
    IF port \notin 1..65535 THEN "malformed_destination"
    ELSE IF ParseAddr(host) # None /\ Check(g, ParseAddr(host)) # "allowed"
    THEN Check(g, ParseAddr(host))
    ELSE IF ~Permits(p, w, host, port) THEN "not_in_allowlist"
    ELSE IF Resolve(g, host, answer) = {} THEN "refused_address" ELSE "allowed"

-----------------------------------------------------------------------------
(* Shadow evaluation *)

\* Mutant: the port a scheme stands for is not filled in.
MutantshadowDestination(obs) ==
    IF obs.url # None
    THEN IF obs.url.port # None THEN [host |-> obs.url.host, port |-> obs.url.port]
         ELSE [host |-> obs.url.host, port |-> AnyPort]
    ELSE IF obs.target # None
    THEN [host |-> ToLower(obs.target.host),
          port |-> IF obs.target.port = None THEN 443 ELSE obs.target.port]
    ELSE None

\* destinationOf: the URL if the span has one, else its target; the port may be
\* unknown.
shadowDestination(obs) ==
    IF obs.url # None
    THEN [host |-> obs.url.host,
          port |-> IF obs.url.port # None THEN obs.url.port
                   ELSE IF obs.url.scheme \in {"https", "wss"} THEN 443
                   ELSE IF obs.url.scheme \in {"http", "ws"} THEN 80 ELSE AnyPort]
    ELSE IF obs.target # None
    THEN [host |-> ToLower(obs.target.host),
          port |-> IF obs.target.port = None THEN AnyPort ELSE obs.target.port]
    ELSE None

Evaluate(p, g, obs) ==
    LET d == shadowDestination(obs)
        literal == ParseAddr(d.host)
    IN IF d = None THEN <<"not_evaluable", "no_destination">>
       ELSE IF literal # None /\ Check(g, literal) # "allowed"
       THEN <<"would_deny", Check(g, literal)>>
       ELSE IF ~HasWorkload(p, obs.agent) THEN <<"would_deny", "unknown_workload">>
       ELSE IF d.port = AnyPort
       THEN IF PermitsHost(p, obs.agent, d.host)
            THEN <<"not_evaluable", "destination_port_unknown">>
            ELSE <<"would_deny", "not_in_allowlist">>
       ELSE IF Permits(p, obs.agent, d.host, d.port) THEN <<"would_allow", "permitted">>
       ELSE <<"would_deny", "not_in_allowlist">>

-----------------------------------------------------------------------------
(* agw policy *)

\* lint loads the file as the enforcement point will: the policy, and the guard.
lintOne(p) == Validate(p) /\ NewGuard(p.permitPrivate) # None

explainEgress(p, w, dest, defaultPort) ==
    LET host == ToLower(dest.host)
        port == IF dest.port = None THEN defaultPort ELSE dest.port
        g == NewGuard(p.permitPrivate)
    IN IF port \notin 1..65535 THEN "error"
       ELSE IF ParseAddr(host) # None /\ Check(g, ParseAddr(host)) # "allowed"
       THEN Check(g, ParseAddr(host))
       ELSE IF Permits(p, w, host, port) THEN "ALLOW" ELSE "not_in_allowlist"

Unguarded == NewGuard({})

\* Mutant: what an enforcement point refused is drafted with the rest.
MutantDrafts(rec) ==
    ParseAddr(rec.host) = None \/ Check(Unguarded, ParseAddr(rec.host)) = "allowed"

\* A record suggest drafts from: not a refusal, and not what the guard refuses.
Drafts(rec) ==
    /\ rec.decision # "deny"
    /\ ParseAddr(rec.host) = None \/ Check(Unguarded, ParseAddr(rec.host)) = "allowed"

\* destinationOf, of a record's resource: only http and https are known schemes,
\* and a port that is not written is taken to be the scheme's, or 443.
draftDestination(rec) ==
    IF rec.scheme \notin {"", "http", "https"} \/ (rec.port # None /\ rec.port \notin 1..65535)
    THEN None
    ELSE [host |-> ToLower(rec.host),
          port |-> IF rec.port # None THEN rec.port ELSE IF rec.scheme = "http" THEN 80 ELSE 443]

\* The draft for workload w (given, or the most active agent), from the records
\* that name a destination.  Only a workload that was given selects records.
suggest(recs, given, w, minCount) ==
    LET drafted == {k \in 1..Len(recs) : /\ given => recs[k].agent = w
                                         /\ draftDestination(recs[k]) # None /\ Drafts(recs[k])}
        Seen(d) == Cardinality({k \in drafted : draftDestination(recs[k]) = d})
        kept == {d \in {draftDestination(recs[k]) : k \in drafted} : Seen(d) >= minCount}
    IN [version |-> "1", permitPrivate |-> {},
        workloads |-> <<[id |-> w,
            allow |-> SetToSeq({[host |-> d.host, ports |-> {d.port}] : d \in kept})]>>]
=============================================================================
