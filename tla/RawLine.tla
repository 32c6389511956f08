------------------------------- MODULE RawLine --------------------------------
(***************************************************************************)
(* Which bytes are a record, a checkpoint or malformed, decided twice:     *)
(* decodeLine with strict.go and internal/strictjson on the sink's side,   *)
(* classify on the auditor's (cmd/agw-verify).                             *)
(*                                                                         *)
(* A JSON object is the sequence of its members as written: a name, which  *)
(* may be spelled in another letter case than the defined one, and a value *)
(* of which only the kind matters.  Of the members of an event, one for    *)
(* each kind of value is enough.                                           *)
(***************************************************************************)
EXTENDS Naturals, Sequences, FiniteSets

\* A value: its kind, and its members if it is an object.  A "time" is a string
\* of the timestamp grammar; "uint64" does not fit an int64, "huge" not even a
\* uint64.
Scalar(t) == [t |-> t, m |-> <<>>]
Object(ms) == [t |-> "object", m |-> ms]
Scalars ==
    {"null", "string", "checkpoint", "time", "nat", "neg", "frac", "uint64", "huge",
     "true", "array"}
Strings == {"string", "checkpoint", "time"}

Member(n, exact, v) == [name |-> n, exact |-> exact, val |-> v]

recordMembers == {"v", "seq", "eventName", "timestamp", "event", "prevHash", "hash"}
checkpointMembers ==
    {"v", "type", "seq", "hash", "count", "issuedAt", "keyId", "signature"}
eventMemberNames == {"Decision", "HTTPStatus", "Federated", "StartedAt"}

recordKinds ==
    [v |-> "s", seq |-> "u", eventName |-> "s", timestamp |-> "t", event |-> "o",
     prevHash |-> "s", hash |-> "s"]
checkpointKinds ==
    [v |-> "s", type |-> "s", seq |-> "u", hash |-> "s", count |-> "u",
     issuedAt |-> "t", keyId |-> "s", signature |-> "s"]
eventKinds ==
    [Decision |-> "s", HTTPStatus |-> "i", Federated |-> "b", StartedAt |-> "t"]

Positions(ms) == 1..Len(ms)
Names(ms) == {ms[k].name : k \in {j \in Positions(ms) : ms[j].exact}}
LastOf(ms, at) ==
    IF at = {} THEN Scalar("absent") ELSE ms[CHOOSE k \in at : \A j \in at : j <= k].val

\* The member of that very name, as a map of raw members has it, and the one
\* encoding/json takes for a struct's field: the last, in any letter case.
Exact(ms, n) == LastOf(ms, {k \in Positions(ms) : ms[k].name = n /\ ms[k].exact})
Lenient(ms, n) == LastOf(ms, {k \in Positions(ms) : ms[k].name = n})

-----------------------------------------------------------------------------
(* decodeLine *)

Repeats(ms) ==
    \E j, k \in Positions(ms) :
        j # k /\ <<ms[j].name, ms[j].exact>> = <<ms[k].name, ms[k].exact>>

\* walk: no object at any depth names a member twice, and nothing follows.
NoDuplicates(l) ==
    /\ l.shape \notin {"broken", "trailing"}
    /\ ~Repeats(l.ms) /\ \A k \in Positions(l.ms) : ~Repeats(l.ms[k].val.m)

ExactNames(ms, defined) ==
    \A k \in Positions(ms) : ms[k].exact \/ ms[k].name \notin defined

checkKind(t, kind) ==
    CASE kind = "s" -> t \in Strings
      [] kind = "t" -> t = "time"
      [] kind = "u" -> t \in {"nat", "uint64"}
      [] kind = "i" -> t \in {"nat", "neg"}
      [] kind = "b" -> t = "true"
      [] kind = "o" -> t = "object"

\* Mutant: null stands for the zero value, as encoding/json has it.
MutantcheckKinds(ms, kinds, required) ==
    \A n \in Names(ms) \cap DOMAIN kinds :
        Exact(ms, n).t = "null" \/ checkKind(Exact(ms, n).t, kinds[n])

checkKinds(ms, kinds, required) ==
    \A n \in Names(ms) \cap DOMAIN kinds :
        IF Exact(ms, n).t = "null" THEN ~required ELSE checkKind(Exact(ms, n).t, kinds[n])

\* A line that is not an object has no map of members to look at.
IsMarked(ms) == "type" \in Names(ms) /\ Exact(ms, "type").t = "checkpoint"

decodeLine(l) ==
    IF ~NoDuplicates(l) \/ l.shape # "object" THEN "malformed"
    ELSE IF IsMarked(l.ms)
    THEN IF /\ checkpointMembers \subseteq Names(l.ms)
            /\ ExactNames(l.ms, checkpointMembers)
            /\ checkKinds(l.ms, checkpointKinds, TRUE)
         THEN "checkpoint" ELSE "malformed"
    ELSE IF /\ recordMembers \subseteq Names(l.ms)
            /\ ExactNames(l.ms, recordMembers \cup {"type"})
            /\ Exact(l.ms, "event").t \in {"object", "null"}
            /\ checkKinds(l.ms, recordKinds, TRUE)
            /\ ExactNames(Exact(l.ms, "event").m, eventMemberNames)
            /\ checkKinds(Exact(l.ms, "event").m, eventKinds, FALSE)
         THEN "record" ELSE "malformed"

-----------------------------------------------------------------------------
(* classify *)

\* noDuplicates reads one value and does not look behind it.
noDuplicates(l) ==
    /\ l.shape # "broken"
    /\ ~Repeats(l.ms) /\ \A k \in Positions(l.ms) : ~Repeats(l.ms[k].val.m)

\* Decoding into a *string, a json.Number or a map leaves null unset and takes a
\* member in any letter case.
decodes(ms, n, kind) ==
    \E k \in Positions(ms) :
        /\ ms[k].name = n
        /\ LET t == Lenient(ms, n).t IN
           CASE kind = "s" -> t \in Strings
             [] kind = "n" -> t \in {"nat", "neg", "frac", "uint64", "huge"}
             [] kind = "o" -> t = "object"

eventValue(ms, n, kind) ==
    \/ n \notin Names(ms) \/ Exact(ms, n).t = "null"
    \/ LET t == Exact(ms, n).t IN
       CASE kind = "s" -> t \in Strings
         [] kind = "i" -> t \in {"nat", "neg"}
         [] kind = "b" -> t = "true"
         [] kind = "t" -> t = "time"

parseCheckpoint(ms) ==
    /\ checkpointMembers \subseteq Names(ms)
    /\ ExactNames(ms, checkpointMembers)
    /\ \A n \in {"v", "type", "hash", "issuedAt", "keyId", "signature"} :
           Exact(ms, n).t \in Strings
    /\ \A n \in {"seq", "count"} : Exact(ms, n).t \in {"nat", "uint64"}
    /\ Exact(ms, "issuedAt").t = "time"

parseRecord(ms) ==
    /\ \A n \in {"v", "eventName", "timestamp", "prevHash", "hash"} : decodes(ms, n, "s")
    /\ decodes(ms, "seq", "n") /\ decodes(ms, "event", "o")
    /\ ExactNames(ms, recordMembers \cup {"type"})
    /\ ExactNames(Lenient(ms, "event").m, eventMemberNames)
    /\ Exact(ms, "seq").t \in {"nat", "uint64"}
    /\ Lenient(ms, "timestamp").t = "time"
    /\ \A n \in eventMemberNames : eventValue(Lenient(ms, "event").m, n, eventKinds[n])

classifyLine(l) ==
    IF ~noDuplicates(l) \/ l.shape # "object" THEN "malformed"
    ELSE IF IsMarked(l.ms) THEN IF parseCheckpoint(l.ms) THEN "checkpoint" ELSE "malformed"
    ELSE IF parseRecord(l.ms) THEN "record" ELSE "malformed"

-----------------------------------------------------------------------------
(* Lines: a record or a checkpoint as the sink writes it, with two members   *)
(* written otherwise, left out, or added.                                    *)

AsWritten(kind) ==
    CASE kind = "s" -> Scalar("string") [] kind = "u" -> Scalar("nat")
      [] kind = "i" -> Scalar("neg") [] kind = "b" -> Scalar("true")
      [] kind = "t" -> Scalar("time")

EventWritten ==
    <<Member("Decision", TRUE, AsWritten("s")), Member("HTTPStatus", TRUE, AsWritten("i")),
      Member("Federated", TRUE, AsWritten("b")), Member("StartedAt", TRUE, AsWritten("t"))>>
RecordWritten ==
    <<Member("v", TRUE, AsWritten("s")), Member("seq", TRUE, AsWritten("u")),
      Member("eventName", TRUE, AsWritten("s")), Member("timestamp", TRUE, AsWritten("t")),
      Member("event", TRUE, Object(EventWritten)), Member("prevHash", TRUE, AsWritten("s")),
      Member("hash", TRUE, AsWritten("s"))>>
CheckpointWritten ==
    <<Member("v", TRUE, AsWritten("s")), Member("type", TRUE, Scalar("checkpoint")),
      Member("seq", TRUE, AsWritten("u")), Member("hash", TRUE, AsWritten("s")),
      Member("count", TRUE, AsWritten("u")), Member("issuedAt", TRUE, AsWritten("t")),
      Member("keyId", TRUE, AsWritten("s")), Member("signature", TRUE, AsWritten("s"))>>

Without(ms, k) == SubSeq(ms, 1, k - 1) \o SubSeq(ms, k + 1, Len(ms))

Variants(ms) ==
    {[ms EXCEPT ![k].val = Scalar(t)] : k \in Positions(ms), t \in Scalars}
    \cup {[ms EXCEPT ![k].exact = FALSE] : k \in Positions(ms)}
    \cup {Without(ms, k) : k \in Positions(ms)}
    \cup {Append(ms, [ms[k] EXCEPT !.exact = e]) : k \in Positions(ms), e \in BOOLEAN}
    \cup {Append(ms, Member("type", e, Scalar(t))) :
              e \in BOOLEAN, t \in {"string", "checkpoint", "null"}}

EventVariants(ms) ==
    {Append(Without(ms, k), [ms[k] EXCEPT !.val = Object(v)]) :
        k \in {j \in Positions(ms) : ms[j].val.t = "object"}, v \in Variants(EventWritten)}

Written == Variants(RecordWritten) \cup Variants(CheckpointWritten)
=============================================================================
