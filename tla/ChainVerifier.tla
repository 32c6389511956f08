---------------------------- MODULE ChainVerifier -----------------------------
(***************************************************************************)
(* The verifier of the evidence log (pkg/evidence/verify.go,               *)
(* VerifyWithAnchor), one step for each line it scans, on a log that may   *)
(* have been edited since the sink wrote it.                               *)
(*                                                                         *)
(* First a history is written as EvidenceSink writes it; then a bounded    *)
(* number of edits turns it into the log presented for verification; then  *)
(* an auditor verifies that log, with or without the public key and with   *)
(* or without a checkpoint kept from earlier.  Whoever edits can compute   *)
(* hashes and cannot sign: the signed checkpoints are those of the         *)
(* history.                                                                *)
(*                                                                         *)
(* A line is a body with the version it declares.  An event is a pair of   *)
(* the part every version's hash covers and the part only v2's covers.     *)
(***************************************************************************)
EXTENDS EvidenceChain, SequencesExt

CONSTANTS
    Mains, Extras,   \* the two parts of an event
    Key,             \* the sink's signing key
    OtherKey,        \* some other key
    None,
    MaxLines,        \* bound: lines of the history
    MaxEdits         \* bound: edits before verification

ASSUME VerifierAssumptions ==
    /\ Key # OtherKey
    /\ MaxLines \in Nat /\ MaxEdits \in Nat

VARIABLES
    phase,
    history, log, edits,
    pub, anchor,           \* is the key given; the checkpoint held out of band
    i,                     \* lines scanned
    lastSeq, expected,     \* res.HeadSeq and res.HeadHash are the same two
    seen,                  \* the sequences and hashes of the checkpoints, the last of
                           \* each sequence: a map as a set of pairs
    records, checkpoints, signedThrough, unanchored,
    intact, problems       \* res.Intact; the kinds of the problems found

inputVars == <<history, log, edits, pub, anchor>>
chainState == <<lastSeq, expected, records>>
vars == <<phase, inputVars, i, chainState, seen, checkpoints, signedThrough,
          unanchored, intact, problems>>

Events == Mains \X Extras

Line(v, body) == [v |-> v, body |-> body]
Garbage == Line("v2", [type |-> "malformed"])

\* canonicalRecordInput: the version a record declares is hashed with it and
\* selects what else is.
RecordHash(l) ==
    LET current == ComputeHash(l.body.seq, l.body.prevHash, l.body.ev) IN
    CASE l.v = "v1" -> <<"v1", l.body.seq, l.body.prevHash, l.body.ev[1]>>
      [] l.v = "v2" -> current
      [] OTHER -> <<l.v, current>>

\* VerifyCheckpoint under the sink's public key.
VerifyCheckpoint(c) == c.sig = <<Key, canonicalCheckpointInput(c.seq, c.hash)>>

Init ==
    /\ phase = "write" /\ history = <<>> /\ log = <<>> /\ edits = 0
    /\ pub = FALSE /\ anchor = None /\ i = 0
    /\ lastSeq = 0 /\ expected = GenesisHash /\ seen = {}
    /\ records = 0 /\ checkpoints = 0 /\ signedThrough = 0 /\ unanchored = 0
    /\ intact = TRUE /\ problems = {}

-----------------------------------------------------------------------------
(* The history, and the edits *)

Bodies(s) == [k \in 1..Len(s) |-> s[k].body]

WriteLine(body) ==
    /\ phase = "write" /\ Len(history) < MaxLines
    /\ Continues(Bodies(history), body)
    /\ history' = Append(history, Line("v2", body))
    /\ UNCHANGED <<phase, log, edits, pub, anchor, i, chainState, seen, checkpoints,
                   signedThrough, unanchored, intact, problems>>

WriteRecord ==
    LET next == Len(history) + 1 IN
    \E ev \in Events : WriteLine(Link(ev, SeqBefore(Bodies(history), next) + 1,
                                      HashBefore(Bodies(history), next)))

WriteCheckpoint ==
    LET next == Len(history) + 1 IN
    WriteLine(SignCheckpointWith(Key, SeqBefore(Bodies(history), next),
                                 HashBefore(Bodies(history), next)))

Present ==
    /\ phase = "write" /\ history # <<>>
    /\ phase' = "edit" /\ log' = history
    /\ UNCHANGED <<history, edits, pub, anchor, i, chainState, seen, checkpoints,
                   signedThrough, unanchored, intact, problems>>

EditTo(s) ==
    /\ phase = "edit" /\ edits < MaxEdits
    /\ edits' = edits + 1 /\ log' = s
    /\ UNCHANGED <<phase, history, pub, anchor, i, chainState, seen, checkpoints,
                   signedThrough, unanchored, intact, problems>>

IsRec(l) == l.body.type = "record"
IsCp(l) == l.body.type = "checkpoint"

\* A record of a version with the hash its contents compute to.
Relinked(v, ev, seq, prev) ==
    LET l == Line(v, Link(ev, seq, prev)) IN [l EXCEPT !.body.hash = RecordHash(l)]

RecordsAbove(s, j) == {m \in 1..(j - 1) : IsRec(s[m])}

\* Record k gets another event or version, and it and every record after it the
\* sequence, previous hash and hash that fit: a rewrite from k on.
Rewritten(s, k, v, ev) ==
    LET t[j \in 1..Len(s)] ==
            IF j < k \/ ~IsRec(s[j]) THEN s[j]
            ELSE LET above == RecordsAbove(s, j)
                     prev == IF above = {} THEN GenesisHash ELSE t[Max(above)].body.hash
                 IN Relinked(IF j = k THEN v ELSE s[j].v,
                             IF j = k THEN ev ELSE s[j].body.ev,
                             Cardinality(above) + 1, prev)
    IN t

RemoveLine == \E k \in 1..Len(log) : EditTo(RemoveAt(log, k))
Truncate == \E k \in 0..(Len(log) - 1) : EditTo(SubSeq(log, 1, k))
Repeat == \E k \in 1..Len(log) : EditTo(InsertAt(log, k, log[k]))
Reorder ==
    \E k \in 1..(Len(log) - 1) :
        EditTo([log EXCEPT ![k] = log[k + 1], ![k + 1] = log[k]])
Garble == \E k \in 1..Len(log) : EditTo([log EXCEPT ![k] = Garbage])
Relabel ==
    \E k \in 1..Len(log), v \in {"v1", "v3"} : EditTo([log EXCEPT ![k].v = v])
Alter ==
    \E k \in 1..Len(log), ev \in Events :
        IsRec(log[k]) /\ EditTo([log EXCEPT ![k].body.ev = ev])
Rewrite ==
    \E k \in 1..Len(log), v \in {"v1", "v2"}, ev \in Events :
        IsRec(log[k]) /\ EditTo(Rewritten(log, k, v, ev))
\* A checkpoint for record k under a key that is not the sink's.
Counterfeit ==
    \E k \in 1..Len(log) :
        /\ IsRec(log[k])
        /\ EditTo(InsertAt(log, k + 1,
               Line("v2", SignCheckpointWith(OtherKey, log[k].body.seq, log[k].body.hash))))

-----------------------------------------------------------------------------
(* VerifyWithAnchor *)

\* The last checkpoint of a log, which is what a copy of it is good for.
ReadAnchor(s) ==
    LET cps == {n \in 1..Len(s) : IsCp(s[n])} IN
    IF cps = {} THEN None ELSE s[Max(cps)].body

\* What an auditor who copied the log at some time holds.
Kept == {ReadAnchor(SubSeq(history, 1, k)) : k \in 1..Len(history)} \ {None}

\* An auditor may hold a checkpoint of the history, or be handed one that
\* nobody signed.
Begin ==
    /\ phase = "edit" /\ phase' = "scan"
    /\ pub' \in BOOLEAN
    /\ anchor' \in {None, SignCheckpointWith(OtherKey, 1, GenesisHash)} \cup Kept
    /\ UNCHANGED <<history, log, edits, i, chainState, seen, checkpoints,
                   signedThrough, unanchored, intact, problems>>

line == log[i + 1]
Scanning == phase = "scan" /\ i < Len(log)

\* decodeLine fails.
ScanMalformed ==
    /\ Scanning /\ line.body.type = "malformed"
    /\ i' = i + 1 /\ intact' = FALSE /\ problems' = problems \cup {"malformed"}
    /\ UNCHANGED <<phase, inputVars, chainState, seen, checkpoints, signedThrough,
                   unanchored>>

\* seen[cp.Seq] = cp.Hash
Noted(heads, c) == {h \in heads : h[1] # c.seq} \cup {<<c.seq, c.hash>>}

verifyCheckpointAgainst(l) ==
    /\ l.v = "v2" /\ l.body.seq = lastSeq /\ l.body.hash = expected
    /\ pub => VerifyCheckpoint(l.body)

ScanCheckpoint ==
    /\ Scanning /\ IsCp(line)
    /\ i' = i + 1 /\ checkpoints' = checkpoints + 1
    /\ seen' = Noted(seen, line.body)
    /\ IF verifyCheckpointAgainst(line)
       THEN /\ signedThrough' = IF pub THEN line.body.seq ELSE signedThrough
            /\ UNCHANGED <<intact, problems>>
       ELSE /\ intact' = FALSE /\ problems' = problems \cup {"checkpoint"}
            /\ UNCHANGED signedThrough
    /\ UNCHANGED <<phase, inputVars, chainState, unanchored>>

\* A record of a version nobody knows is reported and otherwise ignored.
ScanUnknownVersion ==
    /\ Scanning /\ IsRec(line) /\ line.v \notin {"v1", "v2"}
    /\ i' = i + 1 /\ intact' = FALSE /\ problems' = problems \cup {"version"}
    /\ UNCHANGED <<phase, inputVars, chainState, seen, checkpoints, signedThrough,
                   unanchored>>

\* Mutant: the record's own hash is taken on trust.
MutantBreaks(l) ==
    (IF l.body.seq # lastSeq + 1 THEN {"sequence"} ELSE {}) \cup
    (IF l.body.prevHash # expected THEN {"chain"} ELSE {})

\* What breaks at this record: a gap, a link, or its contents.
Breaks(l) ==
    (IF l.body.seq # lastSeq + 1 THEN {"sequence"} ELSE {}) \cup
    (IF l.body.prevHash # expected THEN {"chain"} ELSE {}) \cup
    (IF RecordHash(l) # l.body.hash THEN {"content"} ELSE {})

ScanRecord ==
    /\ Scanning /\ IsRec(line) /\ line.v \in {"v1", "v2"}
    /\ i' = i + 1
    /\ intact' = (intact /\ Breaks(line) = {})
    /\ problems' = problems \cup Breaks(line)
                   \cup (IF line.v = "v1" THEN {"superseded_format"} ELSE {})
    /\ records' = records + 1
    /\ lastSeq' = line.body.seq /\ expected' = line.body.hash
    /\ UNCHANGED <<phase, inputVars, seen, checkpoints, signedThrough, unanchored>>

\* The anchor against the log, once the log has been read.
AnchorProblem ==
    IF anchor = None THEN {}
    ELSE IF pub /\ ~VerifyCheckpoint(anchor) THEN {"anchor_invalid"}
    ELSE IF lastSeq < anchor.seq THEN {"rollback"}
    ELSE IF \A h \in seen : h[1] # anchor.seq THEN {"missing_anchor"}
    ELSE IF <<anchor.seq, anchor.hash>> \notin seen THEN {"forked"}
    ELSE {}

Unanchored == IF pub /\ checkpoints = 0 /\ records > 0 THEN {"unanchored"} ELSE {}

Finish ==
    /\ phase = "scan" /\ i = Len(log) /\ phase' = "done"
    /\ unanchored' = IF pub /\ lastSeq > signedThrough THEN lastSeq - signedThrough ELSE 0
    /\ intact' = (intact /\ AnchorProblem \cup Unanchored = {})
    /\ problems' = problems \cup AnchorProblem \cup Unanchored
    /\ UNCHANGED <<inputVars, i, chainState, seen, checkpoints, signedThrough>>

Edit ==
    \/ RemoveLine \/ Truncate \/ Repeat \/ Reorder \/ Garble \/ Relabel \/ Alter
    \/ Rewrite \/ Counterfeit

Scan ==
    ScanMalformed \/ ScanCheckpoint \/ ScanUnknownVersion \/ ScanRecord \/ Finish

Next == WriteRecord \/ WriteCheckpoint \/ Present \/ Edit \/ Begin \/ Scan

Spec == Init /\ [][Next]_vars

-----------------------------------------------------------------------------
(* Properties *)

TypeOK ==
    /\ phase \in {"write", "edit", "scan", "done"}
    /\ edits \in 0..MaxEdits /\ i \in 0..Len(log)
    /\ lastSeq \in Nat /\ records \in Nat /\ checkpoints \in Nat
    /\ signedThrough \in Nat /\ unanchored \in Nat
    /\ pub \in BOOLEAN /\ intact \in BOOLEAN

Done == phase = "done"

\* The records of a log up to a sequence number.
RecordsThrough(s, n) == {l \in LinesOf(s) : IsRec(l) /\ l.body.seq <= n}

\* No two records of a log share a sequence number and each is above the ones with
\* higher ones, so that two such logs with the same records have them in the same
\* order and as often.
InOrder(s) ==
    \A m, n \in 1..Len(s) :
        m < n /\ IsRec(s[m]) /\ IsRec(s[n]) => s[m].body.seq < s[n].body.seq

\* If the verifier says the log is intact under the sink's key, its records up
\* to SignedThrough are the ones the sink wrote, every field, in their order,
\* none missing and none added (Checkpoint: "History before a checkpoint cannot
\* be rewritten").
SignedHolds ==
    Done /\ pub /\ intact =>
        /\ InOrder(log)
        /\ RecordsThrough(log, signedThrough) = RecordsThrough(history, signedThrough)

\* If it says intact against a checkpoint kept from the history, the log still
\* holds everything that checkpoint covers, with the key or without it
\* (VerifyWithAnchor: an auditor "can detect the rollback").
AnchorHolds ==
    Done /\ intact /\ anchor \in Kept =>
        /\ InOrder(log) /\ lastSeq >= anchor.seq
        /\ RecordsThrough(log, anchor.seq) = RecordsThrough(history, anchor.seq)

\* A log that verifies is the sink's as far as the key or the anchor reaches:
\* whatever was edited, reordered, cut or added before that point is noticed.
TamperEvident == TypeOK /\ InOrder(history) /\ SignedHolds /\ AnchorHolds

\* A log nobody edited verifies without a problem, against any checkpoint that
\* was kept, as soon as it has one to verify.
HonestVerifies ==
    Done /\ edits = 0 /\ anchor \in Kept \cup {None} /\ (pub => Kept # {}) =>
        intact /\ problems = {}
=============================================================================
