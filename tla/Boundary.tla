------------------------------- MODULE Boundary -------------------------------
(***************************************************************************)
(* What a confined workload starts with, and which of its packets leave:   *)
(* the addresses and the environment of a sandbox (internal/confine/netns, *)
(* cmd/agw/run.go), the nftables rules of the sandbox (applyRules) and     *)
(* those of a shared namespace (internal/confine/sidecar).                 *)
(*                                                                         *)
(* A ruleset is the sequence of its rules.  A rule says what it matches,   *)
(* Wild where it does not care, the counter it adds to and its verdict;    *)
(* the kernel takes the first that matches a packet.                       *)
(***************************************************************************)
EXTENDS Destinations

CONSTANT Wild

-----------------------------------------------------------------------------
(* Packets *)

\* from: the sandbox's interface, or another; hook: aimed past the host, at it, or
\* leaving the namespace; lo: through the loopback interface; uid: of its socket.
AnyPacket ==
    [from |-> Wild, hook |-> Wild, daddr |-> Wild, proto |-> Wild, dport |-> Wild,
     state |-> Wild, uid |-> Wild, lo |-> Wild, counter |-> None, verdict |-> "drop"]

Matched(r, p) ==
    /\ \A f \in {"from", "hook", "proto", "uid", "lo"} : r[f] = Wild \/ r[f] = p[f]
    /\ r.daddr = Wild \/ In(p.daddr, r.daddr)
    /\ r.dport = Wild \/ p.dport \in r.dport
    /\ r.state = Wild \/ p.state \in r.state

\* The verdict of a chain, with the counter that was added to.
Filter(rules, policy, p) ==
    LET hits == {k \in 1..Len(rules) : Matched(rules[k], p)} IN
    IF hits = {} THEN [verdict |-> policy, counter |-> None]
    ELSE [verdict |-> rules[Min(hits)].verdict, counter |-> rules[Min(hits)].counter]

Ongoing == {"established", "related"}

-----------------------------------------------------------------------------
(* The sandbox *)

validPorts == 1..65535

\* Config.validate: the interfaces are named after the sandbox.
validSandbox(c) ==
    /\ c.nameLen \in 1..8
    /\ ~Is6(c.subnet.addr) /\ c.subnet.bits >= 24
    /\ c.proxyPort \in validPorts

NextAddr(a) == IF a[2] = 65535 THEN <<a[1] + 1, 0>> ELSE <<a[1], a[2] + 1>>

\* The addresses Create gives to the two ends of the link.
sandboxAddrs(c) ==
    LET host == NextAddr(c.subnet.addr)
        guest == NextAddr(host)
    IN IF validSandbox(c) /\ PrefixContains(c.subnet, guest)
       THEN [host |-> host, guest |-> guest] ELSE None

Refused(hook, daddr, counter) ==
    [AnyPacket EXCEPT !.from = "sandbox", !.hook = hook, !.daddr = daddr, !.counter = counter]
PrivateRanges4 == {p \in private : ~Is6(p.addr)}

\* Mutant: the rule for fc00::/7 comes first.
MutantforwardRules ==
    <<Refused("forward", {Prefix(<<43518, 0>>, 16)}, "metadata_endpoint"),
      Refused("forward", private, "private_network"),
      Refused("forward", {Prefix(metadata6, 128)}, "metadata_endpoint"),
      Refused("forward", {Prefix(V6(65152, 0, 0, 0), 10)}, "metadata_endpoint"),
      Refused("forward", Wild, "external")>>

forwardRules ==
    <<Refused("forward", {Prefix(<<43518, 0>>, 16)}, "metadata_endpoint"),
      Refused("forward", PrivateRanges4, "private_network"),
      Refused("forward", {Prefix(metadata6, 128)}, "metadata_endpoint"),
      Refused("forward", {Prefix(V6(65152, 0, 0, 0), 10)}, "metadata_endpoint"),
      Refused("forward", {Prefix(V6(64512, 0, 0, 0), 7)}, "private_network"),
      Refused("forward", Wild, "external")>>

inputRules(proxyPort) ==
    <<[AnyPacket EXCEPT !.from = "sandbox", !.hook = "input", !.proto = "tcp",
                        !.dport = {proxyPort}, !.verdict = "accept"],
      [AnyPacket EXCEPT !.from = "sandbox", !.hook = "input", !.state = Ongoing,
                        !.verdict = "accept"],
      Refused("input", Wild, "host_service")>>

\* The table of applyRules: both chains accept what no rule matches.
sandboxFilter(proxyPort, p) == Filter(forwardRules \o inputRules(proxyPort), "accept", p)

-----------------------------------------------------------------------------
(* The shared namespace *)

validSidecar(c) == c.proxyUID > 0 /\ {c.proxyPort} \cup c.loopbackPorts \subseteq validPorts

\* None if the configuration is refused: nothing is installed then.
sidecarRules(c) ==
    IF ~validSidecar(c) THEN None
    ELSE <<[AnyPacket EXCEPT !.state = Ongoing, !.verdict = "accept"],
           [AnyPacket EXCEPT !.uid = c.proxyUID, !.verdict = "accept"],
           [AnyPacket EXCEPT !.lo = TRUE, !.proto = "tcp",
                             !.dport = {c.proxyPort} \cup c.loopbackPorts, !.verdict = "accept"],
           [AnyPacket EXCEPT !.counter = "refused_direct"]>>

\* The policy of its chain is to drop.
sidecarFilter(c, p) == Filter(sidecarRules(c), "drop", p)

-----------------------------------------------------------------------------
(* The environment: a sequence of names and values, of which the last of a name *)
(* counts *)

\* Two of each list.
minimalEnvNames == {"PATH", "HOME"}

MinimalEnv(from) ==
    LET out[n \in 0..Len(from)] ==
            IF n = 0 THEN <<>>
            ELSE IF from[n][1] \in minimalEnvNames THEN Append(out[n - 1], from[n])
            ELSE out[n - 1]
    IN out[Len(from)]

\* A flag is a name to pass on, or a name and a value.  --inherit-env does not look
\* at the flags.
Value(env, name) ==
    LET at == {k \in 1..Len(env) : env[k][1] = name} IN
    IF at = {} THEN None ELSE env[Max(at)][2]

workloadEnv(host, flags, inherit) ==
    LET Unusable(f) == f.name = "" \/ (f.value = None /\ Value(host, f.name) = None)
        Passed(f) == <<f.name, IF f.value = None THEN Value(host, f.name) ELSE f.value>>
    IN IF inherit THEN host
       ELSE IF \E k \in 1..Len(flags) : Unusable(flags[k]) THEN None
       ELSE MinimalEnv(host) \o [k \in 1..Len(flags) |-> Passed(flags[k])]

ProxyEnv(proxy) ==
    <<<<"HTTP_PROXY", proxy>>, <<"http_proxy", proxy>>, <<"NO_PROXY", "">>, <<"no_proxy", "">>>>

\* Command: what SetEnv was given, or the default if that is empty, and then the
\* proxy's variables.
Command(env, host, proxy) ==
    (IF env = <<>> THEN MinimalEnv(host) ELSE env) \o ProxyEnv(proxy)
=============================================================================
