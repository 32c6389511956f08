--------------------------------- MODULE Aat ----------------------------------
(***************************************************************************)
(* An evidence chain exported as an IETF agent audit trail: the conversion *)
(* (internal/aat/aat.go), the draft's own verifier (verify.go), which the  *)
(* export must pass, and the command around them (exportAAT in             *)
(* internal/cli/auditcli).                                                 *)
(*                                                                         *)
(* A hash is the record hashed.  A record's timestamp is the clock of the  *)
(* host that wrote it.                                                     *)
(***************************************************************************)
EXTENDS Naturals, Sequences, SequencesExt

\* The records the producers write: the event, its producer and its decision.
Entry(event, producer, decision) ==
    [event |-> event, producer |-> producer, decision |-> decision]
Entries ==
    {Entry("egress.allowed", "confine", "allow"), Entry("egress.denied", "confine", "deny"),
     Entry("egress.closed", "confine", "allow"), Entry("workload.registered", "confine", "allow"),
     Entry("workload.revoked", "confine", "deny"), Entry("refused_at_firewall", "confine", "deny"),
     Entry("tool.allowed", "mcp", "allow"), Entry("tools.changed", "mcp", "deny"),
     Entry("agent.activity", "recorder", "error"),
     Entry("agent.activity", "recorder", "would_deny")}

Lifecycle(r) == r.event \in {"workload.registered", "workload.revoked"}

actionOf(r) ==
    IF Lifecycle(r) THEN "lifecycle" ELSE IF r.producer = "recorder" THEN "tool_call" ELSE "decision"

outcomeOf(decision) ==
    CASE decision = "deny" -> "denied" [] decision = "error" -> "failure" [] OTHER -> "success"

phaseOf(r) ==
    IF r.event = "egress.closed" \/ r.producer = "recorder" THEN "post_execution"
    ELSE IF Lifecycle(r) THEN "concurrent" ELSE "pre_execution"

Null == <<>>

\* convertOne, before the links.
convertOne(r, session) ==
    [id |-> <<"record", r.seq>>, timestamp |-> r.timestamp, session |-> session,
     action |-> actionOf(r), detail |-> IF Lifecycle(r) THEN r.event ELSE "none",
     outcome |-> outcomeOf(r.decision), phase |-> phaseOf(r),
     denyReasons |-> outcomeOf(r.decision) = "denied",
     source |-> r, parent |-> Null, prev |-> Null]

recordHash(rec) == <<rec>>

\* Mutant: the hash is taken before the previous record has its own links.
MutantLinked(prev, rec) ==
    [rec EXCEPT !.parent = prev.id, !.prev = recordHash([prev EXCEPT !.prev = Null])]

Linked(prev, rec) == [rec EXCEPT !.parent = prev.id, !.prev = recordHash(prev)]

sessionOf(records) == <<"session", records[1]>>

\* The genesis record describes the export; it is dated by the first record.
genesis(records) ==
    [id |-> <<"genesis", records[1].seq>>, timestamp |-> records[1].timestamp,
     session |-> sessionOf(records), action |-> "lifecycle", detail |-> "session_start",
     outcome |-> "success", phase |-> "concurrent", denyReasons |-> FALSE,
     source |-> Null, parent |-> Null, prev |-> Null]

Convert(records) ==
    LET out[k \in 1..Len(records) + 1] ==
            IF k = 1 THEN genesis(records)
            ELSE Linked(out[k - 1], convertOne(records[k - 1], sessionOf(records)))
    IN out

actionTypes ==
    {"tool_call", "tool_response", "decision", "delegation", "escalation", "error", "lifecycle"}
outcomes == {"success", "failure", "timeout", "denied", "escalated"}
phases == {"pre_execution", "post_execution", "concurrent"}

\* What Check finds wrong with a file, by line.
CheckAat(out) ==
    {k \in 1..Len(out) :
        LET rec == out[k] IN
        \/ rec.action \notin actionTypes \/ rec.outcome \notin outcomes \/ rec.phase \notin phases
        \/ /\ k = 1
           /\ \/ rec.parent # Null \/ rec.prev # Null
              \/ rec.action # "lifecycle" \/ rec.detail # "session_start"
        \/ /\ k > 1
           /\ LET prev == out[k - 1] IN
              \/ rec.prev # recordHash(prev) \/ rec.parent # prev.id
              \/ rec.timestamp < prev.timestamp \/ rec.session # prev.session
        \/ rec.action = "decision" /\ rec.outcome = "denied" /\ rec.phase # "pre_execution"}

\* The file is verified, then read again: a running sink may have appended.  What
\* fails the draft's checks is not written.
exportAAT(key, verified, records) ==
    IF ~key THEN [err |-> "needs a key", out |-> <<>>]
    ELSE IF ~verified THEN [err |-> "does not verify", out |-> <<>>]
    ELSE IF records = <<>> THEN [err |-> "no records", out |-> <<>>]
    ELSE IF CheckAat(Convert(records)) # {} THEN [err |-> "internal error", out |-> <<>>]
    ELSE [err |-> "none", out |-> Convert(records)]

\* agw audit export: an audit trail is made of a whole chain; the other format is
\* the bundle of module Bundle.
ExportCommand(format, filtered, key, verified, records) ==
    CASE format = "bundle" -> [err |-> "bundle", out |-> <<>>]
      [] format = "aat" /\ ~filtered -> exportAAT(key, verified, records)
      [] OTHER -> [err |-> "refused", out |-> <<>>]
=============================================================================
