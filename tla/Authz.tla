-------------------------------- MODULE Authz ---------------------------------
(***************************************************************************)
(* May this agent take this action?  The rules of an action policy         *)
(* (pkg/authz/policy.go), the engine that evaluates them (engine.go), the  *)
(* same question put to OPA (opa.go), the status a decision becomes        *)
(* (pkg/decision), and what agw mcp and agw policy explain ask.            *)
(*                                                                         *)
(* An action is the sequence of its dot-separated parts, a resource the    *)
(* sequence of its slash-separated ones.  A pattern is such a sequence     *)
(* with the place of its asterisk: none, the whole pattern, its last part  *)
(* ("github.issue.*"), or inside a part ("github.issue*").                 *)
(***************************************************************************)
EXTENDS Naturals, Sequences, FiniteSets, SequencesExt

NoTime == 0

allow == [outcome |-> "allow", reason |-> "allowed"]
deny(reason) == [outcome |-> "deny", reason |-> reason]
fail(reason) == [outcome |-> "error", reason |-> reason]

Pattern(parts, star) == [parts |-> parts, star |-> star]
Star == Pattern(<<>>, "alone")

validPattern(p) == p.star \in {"none", "alone", "trailing"}

\* matchActionPattern and matchResourcePattern: the wildcard stands for one part
\* or more.  A pattern whose asterisk is elsewhere is compared as it is.
matchPattern(p, value) ==
    \/ p.star = "alone"
    \/ p.star = "none" /\ p.parts = value
    \/ p.star = "trailing" /\ IsStrictPrefix(p.parts, value)

risks == <<"read", "write", "privileged", "destructive">>
riskOrder(r) == CHOOSE i \in 1..Len(risks) : risks[i] = r

ValidatePolicy(p) ==
    /\ p.tenant # "" /\ p.rules # <<>>
    /\ \A i, j \in 1..Len(p.rules) : i # j => p.rules[i].id # p.rules[j].id
    /\ \A r \in ToSet(p.rules) :
           /\ r.id # "" /\ r.effect \in {"allow", "deny"}
           /\ r.agents # {} /\ r.actions # {}
           /\ \A a \in r.actions \cup r.resources : validPattern(a)
           /\ r.maxRisk \in ToSet(risks) \cup {""}
           /\ r.notBefore # NoTime /\ r.notAfter # NoTime => r.notAfter >= r.notBefore

live(r, now) ==
    /\ r.notBefore # NoTime => now >= r.notBefore
    /\ r.notAfter # NoTime => now <= r.notAfter

\* A plain name, "*" included, is an agent of the tenant; "federated:" one of
\* another organization.
matchesAgent(r, req) ==
    \E p \in r.agents : p.id \in {"*", req.agent} /\ p.federated = req.federated

matchAny(patterns, value) == \E p \in patterns : matchPattern(p, value)

\* A cap on the risk keeps the rule from matching what exceeds it, whichever way
\* the rule decides.
Matches(r, req) ==
    /\ live(r, req.now)
    /\ matchesAgent(r, req)
    /\ matchAny(r.actions, req.action)
    /\ r.resources = {} \/ matchAny(r.resources, req.resource)
    /\ r.maxRisk # "" =>
           req.risk \in ToSet(risks) /\ riskOrder(req.risk) <= riskOrder(r.maxRisk)

-----------------------------------------------------------------------------
(* The engines *)

\* A directory with one file that does not load, or two for a tenant, is refused
\* whole; Replace keeps the old set then.
LoadPolicyDir(files, old) ==
    IF /\ \A p \in ToSet(files) : ValidatePolicy(p)
       /\ \A i, j \in 1..Len(files) : i # j => files[i].tenant # files[j].tenant
    THEN files ELSE old

\* Mutant: the first rule that matches decides.
MutantAuthorize(policies, req) ==
    LET mine == {p \in ToSet(policies) : p.tenant = req.tenant}
        hits == SelectSeq((CHOOSE p \in mine : TRUE).rules, LAMBDA r : Matches(r, req))
    IN IF mine = {} THEN deny("no_policy_for_agent")
       ELSE IF hits # <<>> /\ hits[1].effect = "allow" THEN allow
       ELSE deny("policy_denied")

\* The loop over the rules, after the first n: a rule that denies ends it, one that
\* allows is remembered.
evaluate(rules, req) ==
    LET after[n \in 0..Len(rules)] ==
            IF n = 0 THEN "none"
            ELSE IF after[n - 1] = "deny" \/ ~Matches(rules[n], req) THEN after[n - 1]
            ELSE IF rules[n].effect = "deny" THEN "deny" ELSE "allow"
    IN after

\* The set of policies has one for a tenant at most.
Authorize(policies, req) ==
    LET mine == {p \in ToSet(policies) : p.tenant = req.tenant}
        rules == (CHOOSE p \in mine : TRUE).rules
    IN IF mine = {} THEN deny("no_policy_for_agent")
       ELSE IF evaluate(rules, req)[Len(rules)] = "allow" THEN allow
       ELSE deny("policy_denied")

\* What OPA may come back with, and what becomes of it.
Replies == {"none", "status", "garbage", "no_result", "false", "true"}
OPAAuthorize(reply) ==
    CASE reply \in {"none", "status", "garbage", "no_result"} -> fail("dependency_unavailable")
      [] reply = "false" -> deny("policy_denied")
      [] reply = "true" -> allow

HTTPStatus(reason) ==
    CASE reason = "allowed" -> 200
      [] reason = "body_too_large" -> 413
      [] reason = "route_unknown" -> 404
      [] reason \in {"malformed_request", "missing_required_headers",
                     "signature_malformed"} -> 400
      [] reason \in {"signature_invalid", "digest_mismatch", "request_expired",
                     "request_not_yet_valid", "principal_not_found",
                     "credential_revoked", "credential_expired", "principal_inactive",
                     "tenant_mismatch", "no_trust_relationship", "trust_not_active",
                     "trust_expired", "key_not_published"} -> 401
      [] reason = "replay_detected" -> 409
      [] reason \in {"policy_denied", "no_policy_for_agent", "outside_trust_grant"} -> 403
      [] reason = "rate_limited" -> 429
      [] reason = "backend_unavailable" -> 502
      [] reason \in {"dependency_unavailable", "issuer_unavailable"} -> 503
      [] OTHER -> 500

-----------------------------------------------------------------------------
(* What is asked of them *)

\* describe, for a tool call, a resource read and anything else, which is not
\* gated.
describe(call) ==
    CASE call.method = "tools/call" ->
             [action |-> <<"mcp", "tool">> \o call.name, resource |-> call.name]
      [] call.method = "resources/read" ->
             [action |-> <<"mcp", "resource", "read">>, resource |-> call.name]

mcpRequest(call, tenant, agent, defaultRisk, now) ==
    [tenant |-> tenant, agent |-> agent, action |-> describe(call).action,
     resource |-> describe(call).resource, risk |-> defaultRisk, now |-> now,
     federated |-> FALSE]

\* explainAction loads the one policy and asks as an agent of its tenant.
explainAction(p, agent, action, resource, risk, now) ==
    IF ~ValidatePolicy(p) THEN fail("invalid policy")
    ELSE Authorize(<<p>>, [tenant |-> p.tenant, agent |-> agent, action |-> action,
             resource |-> resource, risk |-> risk, now |-> now, federated |-> FALSE])
=============================================================================
