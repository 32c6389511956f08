------------------------------ MODULE HashInput -------------------------------
(***************************************************************************)
(* What a record's hash and a checkpoint's signature cover, written twice: *)
(* canonicalRecordInput and canonicalCheckpointInput in pkg/evidence,      *)
(* hashInput and signingInput in cmd/agw-verify, with the two readings of  *)
(* a timestamp (ValidTimestamp and time.Format; ts).                       *)
(*                                                                         *)
(* An input is the sequence of the names of its fields: every field is     *)
(* length-prefixed, so it is read back in one way.  A timestamp is the     *)
(* numbers its grammar names; strict says whether the text is of it.       *)
(***************************************************************************)
EXTENDS Integers, Sequences, FiniteSetsExt

envelope == <<"seq", "prevHash", "eventName", "timestamp">>
v2Fields == <<"SourceTenant", "Federated", "TrustGrant", "Risk", "Producer">>

canonicalRecordInput(v) ==
    envelope
    \o <<"EventID", "TenantID", "AgentID", "KeyID", "DecisionID", "RequestID", "TraceID",
         "RouteID", "Action", "ResourceType", "ResourceID", "BackendID", "Decision",
         "ReasonCode", "HTTPStatus", "SourceIP", "UserAgent", "StartedAt", "FinishedAt",
         "LatencyMS">>
    \o IF v = "v1" THEN <<>> ELSE v2Fields

canonicalCheckpointInput == <<"seq", "hash", "count", "issuedAt", "keyId">>

\* The auditor keeps one list and cuts it for the first version.
eventFields ==
    <<"EventID", "TenantID", "AgentID", "KeyID", "DecisionID", "RequestID", "TraceID",
      "RouteID", "Action", "ResourceType", "ResourceID", "BackendID", "Decision",
      "ReasonCode", "HTTPStatus", "SourceIP", "UserAgent", "StartedAt", "FinishedAt",
      "LatencyMS">> \o v2Fields
v1FieldCount == 20

hashInput(v) ==
    envelope
    \o SubSeq(eventFields, 1, IF v = "v1" THEN v1FieldCount ELSE Len(eventFields))

signingInput == <<"seq", "hash", "count", "issuedAt", "keyId">>

-----------------------------------------------------------------------------
(* Timestamps *)

Leap(y) == y % 4 = 0 /\ (y % 100 # 0 \/ y % 400 = 0)
DaysIn(y, mo) ==
    CASE mo = 2 -> (IF Leap(y) THEN 29 ELSE 28) [] mo \in {4, 6, 9, 11} -> 30 [] OTHER -> 31

\* zone: <<>> is Z, else its sign, hours and minutes.
ValidTimestamp(t) ==
    /\ t.strict
    /\ t.mo \in 1..12 /\ t.d >= 1 /\ t.h <= 23 /\ t.mi <= 59 /\ t.s <= 59
    /\ t.d <= DaysIn(t.y, t.mo)
    /\ t.zone # <<>> => t.zone[2] <= 23 /\ t.zone[3] <= 59

Offset(t) == IF t.zone = <<>> THEN 0 ELSE t.zone[1] * (60 * t.zone[2] + t.zone[3])

DayBefore(y, mo, d) ==
    IF d > 1 THEN <<y, mo, d - 1>> ELSE IF mo > 1 THEN <<y, mo - 1, DaysIn(y, mo - 1)>>
    ELSE <<y - 1, 12, 31>>
DayAfter(y, mo, d) ==
    IF d < DaysIn(y, mo) THEN <<y, mo, d + 1>> ELSE IF mo < 12 THEN <<y, mo + 1, 1>>
    ELSE <<y + 1, 1, 1>>

\* An offset is less than a day.
UTC(t) ==
    LET m == 60 * t.h + t.mi - Offset(t)
        date == IF m < 0 THEN DayBefore(t.y, t.mo, t.d)
                ELSE IF m >= 1440 THEN DayAfter(t.y, t.mo, t.d) ELSE <<t.y, t.mo, t.d>>
    IN [date |-> date, min |-> m % 1440, s |-> t.s]

\* A fraction without its trailing zeros.
Trimmed(frac) ==
    SubSeq(frac, 1, Max({0} \cup {k \in 1..Len(frac) : frac[k] # 0}))

\* The digits of a year: time.Format writes at least four and a sign, %04d counts
\* the sign as one of the four.
formatYear(y) == <<y, IF -9999 <= y /\ y <= 9999 THEN 4 ELSE 5>>
sprintfYear(y) ==
    <<y, IF -999 <= y /\ y <= -1 THEN 3 ELSE IF -9999 <= y /\ y <= 9999 THEN 4 ELSE 5>>

TimeText(t, year) ==
    [year |-> year, date |-> UTC(t).date, min |-> UTC(t).min,
     s |-> UTC(t).s, frac |-> Trimmed(t.frac)]

\* What the sink's package hashes of a timestamp, and what the auditor's does: the
\* empty record if the timestamp is refused.
hashedTime(t) == IF ValidTimestamp(t) THEN TimeText(t, formatYear(UTC(t).date[1])) ELSE [year |-> <<>>]

ts(t) ==
    IF /\ t.strict
       /\ t.mo \in 1..12 /\ t.d >= 1 /\ t.h <= 23 /\ t.mi <= 59 /\ t.s <= 59
       /\ t.d <= DaysIn(t.y, t.mo)
       /\ t.zone # <<>> => t.zone[2] <= 23 /\ t.zone[3] <= 59
    THEN TimeText(t, sprintfYear(UTC(t).date[1])) ELSE [year |-> <<>>]
=============================================================================
