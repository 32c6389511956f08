----------------------------- MODULE ConfineProxy -----------------------------
(***************************************************************************)
(* The egress proxy of the confinement plane (internal/confine/proxy.go,   *)
(* resolve.go) with its registry, and the operator's kill switch           *)
(* (cmd/agw/proxy.go, startAdmin): handlers for CONNECT and for plain HTTP *)
(* requests, running concurrently with each other and with revocations.    *)
(*                                                                         *)
(* A handler is one request.  A destination is a host with its port: a     *)
(* host that is itself an address is an IP literal.  The policy is the set *)
(* of pairs it allows, the guard the set of addresses it refuses; both are *)
(* fixed when the process starts.  What DNS answers is arbitrary, and may  *)
(* differ from one question to the next.                                   *)
(***************************************************************************)
EXTENDS Registry, Sequences

CONSTANTS
    Requests,    \* handlers, one for each request
    Operators,   \* calls of POST /revoke
    Methods,     \* "CONNECT", "HTTP"
    Hosts,       \* destinations; those in IPs are literals
    Malformed,   \* an authority SplitHostPort rejects
    IPs,
    Refused,     \* addresses guard.Check refuses
    Allow,       \* pairs <<workload, host>> Policy.Permits accepts
    Faults,      \* "audit": Sink.Write may fail; "hijack", "write": those calls may
    FailOpenOnAuditError

ASSUME ProxyAssumptions ==
    /\ Methods \subseteq {"CONNECT", "HTTP"}
    /\ Malformed \notin Hosts
    /\ Refused \subseteq IPs /\ "none" \notin IPs
    /\ Allow \subseteq Workloads \X Hosts
    /\ Faults \subseteq {"audit", "hijack", "write"}
    /\ FailOpenOnAuditError \in BOOLEAN

VARIABLES
    serving,     \* registration is over and the listener is up
    \* Handlers.
    pc,          \* where each handler is
    method, src, host,
    ident,       \* d.workload, or NoOne while it is not known
    addrs,       \* the validated addresses, in the order DNS gave them
    dialed,      \* the address the upstream connection goes to
    open,        \* connections <<request, end>> that are open
    allowed, denied,
    \* Calls of /revoke.
    opc, target, doomed,
    \* The evidence and the outside world.
    events,      \* what Sink.Write accepted
    moved        \* requests some of whose bytes reached the upstream

handlerVars == <<pc, method, src, host, ident, addrs, dialed>>
countVars == <<allowed, denied>>
adminVars == <<opc, target, doomed>>
vars == <<registryVars, serving, handlerVars, open, countVars, adminVars,
          events, moved>>

Client(r) == <<r, "client">>
Upstream(r) == <<r, "upstream">>
Conns == Requests \X {"client", "upstream"}
NoIP == "none"

Init ==
    /\ RegistryInit
    /\ serving = FALSE
    /\ pc = [r \in Requests |-> "idle"]
    /\ method \in [Requests -> Methods]
    /\ src \in [Requests -> Addrs]
    /\ host \in [Requests -> Hosts \cup {Malformed}]
    /\ ident = [r \in Requests |-> NoOne]
    /\ addrs = [r \in Requests |-> <<>>]
    /\ dialed = [r \in Requests |-> NoIP]
    /\ open = {} /\ allowed = 0 /\ denied = 0
    /\ opc = [o \in Operators |-> "idle"]
    /\ target \in [Operators -> Workloads]
    /\ doomed = [o \in Operators |-> {}]
    /\ events = {} /\ moved = {}

-----------------------------------------------------------------------------
(* The evidence record of a request, and refusals *)

Event(r, name, reason) ==
    [req |-> r, name |-> name, reason |-> reason, agent |-> ident[r]]

\* Sink.Write either takes the event or fails.
Recorded(e) == events' = events \cup {e}
NotRecorded == "audit" \in Faults /\ events' = events

Goto(r, label) == pc' = [pc EXCEPT ![r] = label]

\* refuse: the error of the evidence write is ignored.
refuse(r, agent, name, reason) ==
    /\ denied' = denied + 1
    /\ \/ Recorded([req |-> r, name |-> name, reason |-> reason, agent |-> agent])
       \/ NotRecorded
    /\ Goto(r, "done")

-----------------------------------------------------------------------------
(* Start-up: runProxy registers every workload before it listens *)

\* A registration is recorded; if it cannot be, the process does not start.
RegisterWorkload(w, a) ==
    /\ ~serving /\ Register(w, a)
    /\ Recorded([req |-> w, name |-> "registered", reason |-> "attested", agent |-> w])
    /\ UNCHANGED <<serving, handlerVars, open, countVars, adminVars, moved>>

Serve ==
    /\ ~serving /\ serving' = TRUE
    /\ UNCHANGED <<registryVars, handlerVars, open, countVars, adminVars, events, moved>>

-----------------------------------------------------------------------------
(* authorize *)

\* resolvePeer sets d.workload only when the lookup succeeds.
resolvePeer(r) == IF Lookup(src[r]) = "ok" THEN byAddr[src[r]] ELSE NoOne

\* The part of authorize before DNS, in the order its checks run.
Verdict(r) ==
    IF host[r] = Malformed THEN "malformed_destination"
    ELSE IF host[r] \in Refused THEN "guard"
    ELSE IF Lookup(src[r]) # "ok" THEN Lookup(src[r])
    ELSE IF <<byAddr[src[r]], host[r]>> \notin Allow THEN "not_in_allowlist"
    ELSE "ok"

\* ServeHTTP, then authorize up to the policy's verdict.
AuthorizeRefuses(r) ==
    /\ serving /\ pc[r] = "idle" /\ Verdict(r) # "ok"
    /\ LET agent == IF host[r] = Malformed THEN NoOne ELSE resolvePeer(r)
           name == IF Verdict(r) = "unknown_workload" THEN "unknown_source" ELSE "denied"
       IN /\ ident' = [ident EXCEPT ![r] = agent]
          /\ refuse(r, agent, name, Verdict(r))
    /\ UNCHANGED <<registryVars, serving, method, src, host, addrs, dialed, open,
                   allowed, adminVars, moved>>

Authorize(r) ==
    /\ serving /\ pc[r] = "idle" /\ Verdict(r) = "ok"
    /\ ident' = [ident EXCEPT ![r] = byAddr[src[r]]]
    /\ Goto(r, "resolve")
    /\ UNCHANGED <<registryVars, serving, method, src, host, addrs, dialed, open,
                   countVars, adminVars, events, moved>>

\* What one lookup of a name may answer; a literal is not looked up.
Answers(h) ==
    IF h \in IPs THEN {<<h>>}
    ELSE UNION {[1..n -> IPs] : n \in 1..2}

\* Resolve: one refused address among the answers refuses the destination.
Resolve(r) ==
    /\ pc[r] = "resolve"
    /\ \E ips \in Answers(host[r]) :
        /\ \A i \in DOMAIN ips : ips[i] \notin Refused
        /\ addrs' = [addrs EXCEPT ![r] = ips]
    /\ Goto(r, "record")
    /\ UNCHANGED <<registryVars, serving, method, src, host, ident, dialed, open,
                   countVars, adminVars, events, moved>>

\* Some answer is refused, or the lookup fails.
ResolveRefuses(r) ==
    /\ pc[r] = "resolve"
    /\ \/ /\ \E ips \in Answers(host[r]) : \E i \in DOMAIN ips : ips[i] \in Refused
          /\ refuse(r, ident[r], "denied", "guard")
       \/ host[r] \notin IPs /\ refuse(r, ident[r], "denied", "denied")
    /\ UNCHANGED <<registryVars, serving, method, src, host, ident, addrs, dialed,
                   open, allowed, adminVars, moved>>

-----------------------------------------------------------------------------
(* The allow record gates the connection *)

\* Mutant: egress goes on whatever became of the record.
MutantRecordAllow(r) ==
    /\ pc[r] = "record"
    /\ Recorded(Event(r, "allowed", "allowed")) \/ NotRecorded
    /\ Goto(r, "dial")
    /\ UNCHANGED <<registryVars, serving, method, src, host, ident, addrs, dialed,
                   open, countVars, adminVars, moved>>

RecordAllow(r) ==
    /\ pc[r] = "record"
    /\ \/ Recorded(Event(r, "allowed", "allowed"))
       \/ NotRecorded /\ FailOpenOnAuditError
    /\ Goto(r, "dial")
    /\ UNCHANGED <<registryVars, serving, method, src, host, ident, addrs, dialed,
                   open, countVars, adminVars, moved>>

RecordAllowFails(r) ==
    /\ pc[r] = "record" /\ "audit" \in Faults /\ ~FailOpenOnAuditError
    /\ refuse(r, ident[r], "denied", "dependency_unavailable")
    /\ UNCHANGED <<registryVars, serving, method, src, host, ident, addrs, dialed,
                   open, allowed, adminVars, moved>>

\* Mutant: the host is resolved again for the dial.
MutantdialValidated(r) ==
    /\ pc[r] = "dial"
    /\ \E ips \in Answers(host[r]) : dialed' = [dialed EXCEPT ![r] = ips[1]]
    /\ open' = open \cup {Upstream(r)}
    /\ Goto(r, IF method[r] = "CONNECT" THEN "hijack" ELSE "exchange")
    /\ UNCHANGED <<registryVars, serving, method, src, host, ident, addrs,
                   countVars, adminVars, events, moved>>

\* dialValidated: the first validated address that answers.
dialValidated(r) ==
    /\ pc[r] = "dial"
    /\ \E i \in DOMAIN addrs[r] : dialed' = [dialed EXCEPT ![r] = addrs[r][i]]
    /\ open' = open \cup {Upstream(r)}
    /\ Goto(r, IF method[r] = "CONNECT" THEN "hijack" ELSE "exchange")
    /\ UNCHANGED <<registryVars, serving, method, src, host, ident, addrs,
                   countVars, adminVars, events, moved>>

DialFails(r) ==
    /\ pc[r] = "dial"
    /\ refuse(r, ident[r], "denied", "destination_unreachable")
    /\ UNCHANGED <<registryVars, serving, method, src, host, ident, addrs, dialed,
                   open, allowed, adminVars, moved>>

-----------------------------------------------------------------------------
(* handleConnect, after the dial *)

Hijack(r) ==
    /\ pc[r] = "hijack"
    /\ open' = open \cup {Client(r)}
    /\ Goto(r, "trackClient")
    /\ UNCHANGED <<registryVars, serving, method, src, host, ident, addrs, dialed,
                   countVars, adminVars, events, moved>>

\* The writer is no Hijacker, which is refused, or Hijack fails, which is not.
HijackFails(r) ==
    /\ pc[r] = "hijack" /\ "hijack" \in Faults
    /\ open' = open \ {Upstream(r)}
    /\ \/ refuse(r, ident[r], "denied", "internal_error")
       \/ Goto(r, "done") /\ UNCHANGED <<denied, events>>
    /\ UNCHANGED <<registryVars, serving, method, src, host, ident, addrs, dialed,
                   allowed, adminVars, moved>>

TrackClient(r) ==
    /\ pc[r] = "trackClient" /\ Track(ident[r], Client(r))
    /\ Goto(r, "trackUpstream")
    /\ UNCHANGED <<serving, method, src, host, ident, addrs, dialed, open,
                   countVars, adminVars, events, moved>>

TrackClientFails(r) ==
    /\ pc[r] = "trackClient" /\ ~Tracks(ident[r])
    /\ open' = open \ {Client(r), Upstream(r)}
    /\ refuse(r, ident[r], "denied", "denied")
    /\ UNCHANGED <<registryVars, serving, method, src, host, ident, addrs, dialed,
                   allowed, adminVars, moved>>

TrackUpstream(r) ==
    /\ pc[r] = "trackUpstream" /\ Track(ident[r], Upstream(r))
    /\ Goto(r, "established")
    /\ UNCHANGED <<serving, method, src, host, ident, addrs, dialed, open,
                   countVars, adminVars, events, moved>>

\* Mutant: the upstream connection is left to the other end to close.
MutantTrackUpstreamFails(r) ==
    /\ pc[r] = "trackUpstream" /\ ~Tracks(ident[r])
    /\ open' = open \ {Client(r)}
    /\ denied' = denied + 1
    /\ Goto(r, "done")
    /\ UNCHANGED <<registryVars, serving, method, src, host, ident, addrs, dialed,
                   allowed, adminVars, events, moved>>

\* Counted as denied, and not recorded.
TrackUpstreamFails(r) ==
    /\ pc[r] = "trackUpstream" /\ ~Tracks(ident[r])
    /\ Release(ident[r], {Client(r)})
    /\ open' = open \ {Client(r), Upstream(r)}
    /\ denied' = denied + 1
    /\ Goto(r, "done")
    /\ UNCHANGED <<serving, method, src, host, ident, addrs, dialed, allowed,
                   adminVars, events, moved>>

\* The 200 is written to a client that is still open.
Establish(r) ==
    /\ pc[r] = "established" /\ Client(r) \in open
    /\ allowed' = allowed + 1
    /\ Goto(r, "pipe")
    /\ UNCHANGED <<registryVars, serving, method, src, host, ident, addrs, dialed,
                   open, denied, adminVars, events, moved>>

EstablishFails(r) ==
    /\ pc[r] = "established" /\ ("write" \in Faults \/ Client(r) \notin open)
    /\ Release(ident[r], {Client(r), Upstream(r)})
    /\ open' = open \ {Client(r), Upstream(r)}
    /\ Goto(r, "done")
    /\ UNCHANGED <<serving, method, src, host, ident, addrs, dialed, countVars,
                   adminVars, events, moved>>

\* pipe: bytes go out as long as the upstream is open.
Pipe(r) ==
    /\ pc[r] = "pipe" /\ Upstream(r) \in open
    /\ moved' = moved \cup {r}
    /\ UNCHANGED <<registryVars, serving, handlerVars, open, countVars, adminVars, events>>

\* Either direction stops (end of file, an error, the deadline, a closed
\* connection) and closes both ends.
PipeEnds(r) ==
    /\ pc[r] = "pipe"
    /\ open' = open \ {Client(r), Upstream(r)}
    /\ Goto(r, "closing")
    /\ UNCHANGED <<registryVars, serving, method, src, host, ident, addrs, dialed,
                   countVars, adminVars, events, moved>>

\* The closed event, then the deferred releases.
Closed(r) ==
    /\ pc[r] = "closing"
    /\ Recorded(Event(r, "closed", "closed")) \/ NotRecorded
    /\ Release(ident[r], {Client(r), Upstream(r)})
    /\ Goto(r, "done")
    /\ UNCHANGED <<serving, method, src, host, ident, addrs, dialed, open,
                   countVars, adminVars, moved>>

-----------------------------------------------------------------------------
(* handleHTTP, after the dial RoundTrip makes *)

\* The request goes out and the answer comes back.
Exchange(r) ==
    /\ pc[r] = "exchange" /\ Upstream(r) \in open
    /\ moved' = moved \cup {r}
    /\ UNCHANGED <<registryVars, serving, handlerVars, open, countVars, adminVars, events>>

\* RoundTrip fails after the dial.
RoundTripFails(r) ==
    /\ pc[r] = "exchange"
    /\ open' = open \ {Upstream(r)}
    /\ refuse(r, ident[r], "denied", "destination_unreachable")
    /\ UNCHANGED <<registryVars, serving, method, src, host, ident, addrs, dialed,
                   allowed, adminVars, moved>>

\* The response header has arrived; its body is copied until it ends.
RoundTrip(r) ==
    /\ pc[r] = "exchange" /\ r \in moved
    /\ allowed' = allowed + 1
    /\ Goto(r, "body")
    /\ UNCHANGED <<registryVars, serving, method, src, host, ident, addrs, dialed,
                   open, denied, adminVars, events, moved>>

BodyEnds(r) ==
    /\ pc[r] = "body"
    /\ open' = open \ {Upstream(r)}
    /\ Goto(r, "done")
    /\ UNCHANGED <<registryVars, serving, method, src, host, ident, addrs, dialed,
                   countVars, adminVars, events, moved>>

-----------------------------------------------------------------------------
(* The kill switch: POST /revoke *)

RevokeUnknown(o) ==
    /\ serving /\ opc[o] = "idle" /\ target[o] \notin byID
    /\ opc' = [opc EXCEPT ![o] = "failed"]
    /\ UNCHANGED <<registryVars, serving, handlerVars, open, countVars, target,
                   doomed, events, moved>>

\* The flag is set and the live connections collected under the lock.
Revoke(o) ==
    /\ serving /\ opc[o] = "idle" /\ target[o] \in byID \ revoked
    /\ doomed' = [doomed EXCEPT ![o] = conns[target[o]]]
    /\ RevokeFlag(target[o])
    /\ opc' = [opc EXCEPT ![o] = "closing"]
    /\ UNCHANGED <<serving, handlerVars, open, countVars, target, events, moved>>

\* A second call returns at once.
RevokeAgain(o) ==
    /\ serving /\ opc[o] = "idle" /\ target[o] \in revoked
    /\ opc' = [opc EXCEPT ![o] = "returned"]
    /\ UNCHANGED <<registryVars, serving, handlerVars, open, countVars, target,
                   doomed, events, moved>>

\* One Close after the other, outside the lock.
CloseDoomed(o, c) ==
    /\ opc[o] = "closing" /\ c \in doomed[o]
    /\ open' = open \ {c}
    /\ doomed' = [doomed EXCEPT ![o] = @ \ {c}]
    /\ UNCHANGED <<registryVars, serving, handlerVars, countVars, opc, target,
                   events, moved>>

\* Mutant: the collected connections are left to run down by themselves.
MutantRevokeReturns(o) ==
    /\ opc[o] = "closing"
    /\ opc' = [opc EXCEPT ![o] = "returned"]
    /\ UNCHANGED <<registryVars, serving, handlerVars, open, countVars, target,
                   doomed, events, moved>>

RevokeReturns(o) ==
    /\ opc[o] = "closing" /\ doomed[o] = {}
    /\ opc' = [opc EXCEPT ![o] = "returned"]
    /\ UNCHANGED <<registryVars, serving, handlerVars, open, countVars, target,
                   doomed, events, moved>>

\* The admin handler records the revocation and answers, whether or not the
\* record could be written.
RecordRevoked(o) ==
    /\ opc[o] = "returned"
    /\ \/ Recorded([req |-> o, name |-> "revoked", reason |-> "revoked", agent |-> target[o]])
       \/ NotRecorded
    /\ opc' = [opc EXCEPT ![o] = "answered"]
    /\ UNCHANGED <<registryVars, serving, handlerVars, open, countVars, target,
                   doomed, moved>>

-----------------------------------------------------------------------------
HandlerStep(r) ==
    \/ AuthorizeRefuses(r) \/ Authorize(r) \/ Resolve(r) \/ ResolveRefuses(r)
    \/ RecordAllow(r) \/ RecordAllowFails(r) \/ dialValidated(r) \/ DialFails(r)

ConnectStep(r) ==
    \/ Hijack(r) \/ HijackFails(r) \/ TrackClient(r) \/ TrackClientFails(r)
    \/ TrackUpstream(r) \/ TrackUpstreamFails(r) \/ Establish(r) \/ EstablishFails(r)
    \/ Pipe(r) \/ PipeEnds(r) \/ Closed(r)

HTTPStep(r) ==
    Exchange(r) \/ RoundTripFails(r) \/ RoundTrip(r) \/ BodyEnds(r)

AdminStep(o) ==
    \/ RevokeUnknown(o) \/ Revoke(o) \/ RevokeAgain(o) \/ RevokeReturns(o)
    \/ RecordRevoked(o)
    \/ \E c \in Conns : CloseDoomed(o, c)

Next ==
    \/ \E w \in Workloads, a \in Addrs : RegisterWorkload(w, a)
    \/ Serve
    \/ \E r \in Requests : HandlerStep(r) \/ ConnectStep(r) \/ HTTPStep(r)
    \/ \E o \in Operators : AdminStep(o)

Spec == Init /\ [][Next]_vars

(***************************************************************************)
(* Fairness.  Handlers and the admin handler keep running: calls return,   *)
(* with an answer or an error (DNS, the dial and the response header have  *)
(* timeouts).  A pipe is only assumed to end once one of its connections   *)
(* is closed, not by itself.                                               *)
(***************************************************************************)
Fairness ==
    /\ \A r \in Requests :
        /\ WF_vars(HandlerStep(r))
        /\ WF_vars(Hijack(r) \/ HijackFails(r) \/ TrackClient(r) \/ TrackClientFails(r)
                   \/ TrackUpstream(r) \/ TrackUpstreamFails(r)
                   \/ Establish(r) \/ EstablishFails(r) \/ Closed(r))
        /\ WF_vars(PipeEnds(r) /\ ~({Client(r), Upstream(r)} \subseteq open))
        /\ WF_vars(RoundTripFails(r) \/ RoundTrip(r))
    /\ \A o \in Operators :
        /\ WF_vars(RevokeReturns(o))
        /\ WF_vars(\E c \in Conns : CloseDoomed(o, c))
        /\ WF_vars(RecordRevoked(o))

FairSpec == Spec /\ Fairness

-----------------------------------------------------------------------------
(* Properties *)

TypeOK ==
    /\ byAddr \in [Addrs -> Workloads \cup {NoOne}]
    /\ revoked \subseteq Workloads
    /\ conns \in [Workloads -> SUBSET Conns]
    /\ serving \in BOOLEAN
    /\ pc \in [Requests -> {"idle", "resolve", "record", "dial", "hijack",
                            "trackClient", "trackUpstream", "established", "pipe",
                            "closing", "exchange", "body", "done"}]
    /\ method \in [Requests -> Methods] /\ src \in [Requests -> Addrs]
    /\ host \in [Requests -> Hosts \cup {Malformed}]
    /\ ident \in [Requests -> Workloads \cup {NoOne}]
    /\ addrs \in [Requests -> Seq(IPs)]
    /\ dialed \in [Requests -> IPs \cup {NoIP}]
    /\ open \subseteq Conns
    /\ allowed \in Nat /\ denied \in Nat
    /\ opc \in [Operators -> {"idle", "failed", "closing", "returned", "answered"}]
    /\ target \in [Operators -> Workloads]
    /\ doomed \in [Operators -> SUBSET Conns]
    /\ moved \subseteq Requests

\* The proxy has a connection to the destination, or had one and used it.
Reached(r) == Upstream(r) \in open \/ r \in moved

\* Nothing is reached before the evidence log has accepted the allow record
\* that names the workload (events.go: "written BEFORE the connection is made").
RecordedFirst ==
    ~FailOpenOnAuditError =>
        \A r \in Requests : Reached(r) => Event(r, "allowed", "allowed") \in events

\* What is reached is an address the guard lets through, for a destination the
\* policy allows to the workload that owns the source address, however DNS
\* answers and whenever it changes its mind.
OnlyPermitted ==
    \A r \in Requests : Reached(r) =>
        /\ dialed[r] \in IPs \ Refused
        /\ ident[r] = byAddr[src[r]]
        /\ <<ident[r], host[r]>> \in Allow

\* A revoked workload holds no tracked connection, and never gets one again:
\* a handler that passed authorize before the revocation cannot slip in.
RevokedHoldsNothing == \A w \in revoked : conns[w] = {}

\* A handler that is done has closed and released whatever it opened, on every
\* path; what is tracked is tracked for the workload that asked for it.
NothingLeaks ==
    /\ \A r \in Requests : pc[r] = "done" =>
        \A end \in {"client", "upstream"} :
            <<r, end>> \notin open /\ \A w \in Workloads : <<r, end>> \notin conns[w]
    /\ \A w \in Workloads : \A c \in conns[w] : ident[c[1]] = w

\* Once a call of Revoke has returned, nothing flows for its workload (Revoke:
\* "every live connection is closed").  True of tunnels and a single call; a
\* forwarded HTTP request is not tracked, and a second call does not wait for
\* the first.
RevokeCuts ==
    \A o \in Operators : opc[o] \in {"returned", "answered"} =>
        \A r \in Requests :
            ident[r] = target[o] /\ pc[r] \in {"pipe", "exchange", "body"} =>
                Upstream(r) \notin open

\* A revoked workload ends up with no connection at all, and stays so, even if
\* neither end of a tunnel ever stops by itself.
RevokedIsDisconnected ==
    \A w \in Workloads :
        w \in revoked ~>
            [](\A r \in Requests : ident[r] = w =>
                  Client(r) \notin open /\ Upstream(r) \notin open)

(***************************************************************************)
(* Why these hold, handler by handler: from authorize on the identity is   *)
(* the owner of the source address and the policy allows the destination;  *)
(* what is dialed was validated; a connection is open or tracked only      *)
(* between the steps that opened or tracked it and the ones that close and *)
(* release it.                                                             *)
(***************************************************************************)
Dialed == {"hijack", "trackClient", "trackUpstream", "established", "pipe",
           "closing", "exchange", "body"}
Authorized == {"resolve", "record", "dial"} \cup Dialed

HandlerOK(r) ==
    /\ pc[r] # "idle" => serving
    /\ pc[r] \in Authorized \/ Reached(r) =>
        /\ ident[r] \in Workloads /\ ident[r] = byAddr[src[r]]
        /\ <<ident[r], host[r]>> \in Allow
    /\ pc[r] = "dial" \/ pc[r] = "record" =>
        \A i \in DOMAIN addrs[r] : addrs[r][i] \in IPs \ Refused
    /\ pc[r] \in Dialed \/ Reached(r) => dialed[r] \in IPs \ Refused
    /\ pc[r] \in Dialed \cup {"dial"} \/ Reached(r) =>
        FailOpenOnAuditError \/ Event(r, "allowed", "allowed") \in events
    /\ r \in moved => pc[r] \in Dialed \cup {"done"}
    /\ Upstream(r) \in open => pc[r] \in Dialed \ {"closing"}
    /\ Client(r) \in open =>
        pc[r] \in {"trackClient", "trackUpstream", "established", "pipe"}

TrackingOK(r) ==
    \A w \in Workloads :
        /\ Client(r) \in conns[w] =>
            ident[r] = w /\ pc[r] \in {"trackUpstream", "established", "pipe", "closing"}
        /\ Upstream(r) \in conns[w] =>
            ident[r] = w /\ pc[r] \in {"established", "pipe", "closing"}

\* An open tunnel is tracked, or a call of Revoke is about to close it.
TunnelsTracked ==
    \A r \in Requests : pc[r] \in {"established", "pipe"} /\ Upstream(r) \in open =>
        \/ Upstream(r) \in conns[ident[r]]
        \/ \E o \in Operators : opc[o] = "closing" /\ Upstream(r) \in doomed[o]

ProxyInv ==
    /\ TypeOK /\ RevokedHoldsNothing
    /\ \A r \in Requests : HandlerOK(r) /\ TrackingOK(r)

\* With these, RevokeCuts for tunnels.
TunnelInv ==
    /\ TunnelsTracked
    /\ \A o \in Operators :
        opc[o] \in {"closing", "returned", "answered"} => target[o] \in revoked
    /\ \A r \in Requests : pc[r] \notin {"exchange", "body"}
=============================================================================
