-------------------------------- MODULE Bundle --------------------------------
(***************************************************************************)
(* What an auditor is given and told: the bundle export extracts from a    *)
(* log and verify-bundle checks (pkg/evidence/export.go), and the verdicts *)
(* of the two verifying commands (auditcli.go, agw-verify's run).          *)
(*                                                                         *)
(* The log is the one ChainVerifier presents, edited or not.  Records have *)
(* no time in that model: a filter's From and To are the set of sequences  *)
(* whose timestamps lie between them, any set, because clocks are set.     *)
(***************************************************************************)
EXTENDS AgwVerify

-----------------------------------------------------------------------------
(* Export *)

Filters ==
    [tenant : {None} \cup Mains \cup Extras, agent : {None} \cup Mains,
     during : SUBSET (1..MaxLines)]

\* The tenant is the record's own or, of a federated one, the issuing one.
matchesFilter(r, f) ==
    /\ f.tenant = None \/ f.tenant \in {r.ev[1], r.ev[2]}
    /\ f.agent = None \/ f.agent = r.ev[1]
    /\ r.seq \in f.during

\* The lines of s at the positions in I, in their order.
Picked(s, I) ==
    LET Rank(p) == Cardinality({q \in I : q <= p}) IN
    [n \in 1..Cardinality(I) |-> s[CHOOSE p \in I : Rank(p) = n]]

\* Mutant: without the checkpoint that follows the range.
MutantrelevantCheckpoints(all, recs) ==
    IF recs = <<>> THEN <<>>
    ELSE Picked(all, {n \in 1..Len(all) : /\ all[n].body.seq + 1 >= recs[1].body.seq
                                          /\ all[n].body.seq <= Last(recs).body.seq})

\* Those within the range or right before it, and the first one after it, where
\* the loop stops.
relevantCheckpoints(all, recs) ==
    IF recs = <<>> THEN <<>>
    ELSE LET Later(n) == all[n].body.seq > Last(recs).body.seq
             Within(n) == ~Later(n) /\ all[n].body.seq + 1 >= recs[1].body.seq
         IN Picked(all, {n \in 1..Len(all) : /\ Within(n) \/ Later(n)
                                             /\ \A m \in 1..(n - 1) : ~Later(m)})

\* Export refuses a log with a malformed line (readAll).
Export(s, f) ==
    IF \E n \in 1..Len(s) : ~IsRec(s[n]) /\ ~IsCp(s[n]) THEN None
    ELSE LET recs == Picked(s, {n \in 1..Len(s) : IsRec(s[n]) /\ matchesFilter(s[n].body, f)})
             cps == Picked(s, {n \in 1..Len(s) : IsCp(s[n])})
         IN
         [records |-> recs,
          checkpoints |-> relevantCheckpoints(cps, recs),
          prevHash |-> IF recs = <<>> THEN None ELSE recs[1].body.prevHash,
          complete |-> \A n \in 2..Len(recs) :
                           recs[n].body.seq = recs[n - 1].body.seq + 1]

\* Mutant: a record's hash is taken from the bundle.
MutantVerifyBundle(b, key) ==
    {k \in {"chain", "checkpoint"} :
        \/ k = "chain" /\ b.complete /\ \E n \in 1..Len(b.records) :
               b.records[n].body.prevHash #
                   (IF n = 1 THEN b.prevHash ELSE b.records[n - 1].body.hash)
        \/ k = "checkpoint" /\ key /\ \E n \in 1..Len(b.checkpoints) :
               ~VerifyCheckpoint(b.checkpoints[n].body)}

\* The kinds of problems: each record's content; the links, if the bundle says
\* it is contiguous; the checkpoints' signatures, if the key is given.
VerifyBundle(b, key) ==
    {k \in {"content", "chain", "checkpoint"} :
        \/ k = "content" /\ \E n \in 1..Len(b.records) :
               RecordHash(b.records[n]) # b.records[n].body.hash
        \/ k = "chain" /\ b.complete /\ \E n \in 1..Len(b.records) :
               b.records[n].body.prevHash #
                   (IF n = 1 THEN b.prevHash ELSE b.records[n - 1].body.hash)
        \/ k = "checkpoint" /\ key /\ \E n \in 1..Len(b.checkpoints) :
               ~VerifyCheckpoint(b.checkpoints[n].body)}

-----------------------------------------------------------------------------
(* The commands *)

\* The verdict of verify-bundle.
BundleVerdict(b, key) ==
    CASE VerifyBundle(b, key) # {} -> "TAMPERING DETECTED"
      [] VerifyBundle(b, key) = {} /\ b.records = <<>> -> "EMPTY"
      [] VerifyBundle(b, key) = {} /\ b.records # <<>> /\ ~key -> "VERIFIED (content only)"
      [] OTHER -> IF b.complete THEN "VERIFIED" ELSE "VERIFIED (filtered extract)"

onlyUnanchored(kinds) == kinds = {"unanchored"}

\* Mutant: the tail no checkpoint covers is not looked at.
MutantVerdict ==
    CASE intact /\ records = 0 -> "EMPTY"
      [] intact /\ records > 0 /\ ~pub -> "VERIFIED (chain only)"
      [] intact /\ records > 0 /\ pub -> "VERIFIED"
      [] OTHER -> IF onlyUnanchored(problems) THEN "NOT VERIFIED" ELSE "TAMPERING DETECTED"

\* The verdict of audit verify, which exits with 2 on the last two.
Verdict ==
    CASE intact /\ records = 0 -> "EMPTY"
      [] intact /\ records > 0 /\ ~pub -> "VERIFIED (chain only)"
      [] intact /\ records > 0 /\ pub ->
             IF unanchored > 0 THEN "VERIFIED THROUGH" ELSE "VERIFIED"
      [] OTHER -> IF onlyUnanchored(problems) THEN "NOT VERIFIED" ELSE "TAMPERING DETECTED"

ExitCode == IF intact THEN 0 ELSE 2

\* agw-verify's, from its own result.
agwVerdict(res, key) ==
    IF ~res.intact THEN "NOT VERIFIED"
    ELSE IF res.records = 0 THEN "EMPTY"
    ELSE IF ~key THEN "VERIFIED (chain only)"
    ELSE IF res.unanchored > 0 THEN "VERIFIED THROUGH" ELSE "VERIFIED"

agwExitCode(res) == IF res.intact THEN 0 ELSE 2

-----------------------------------------------------------------------------
(* Properties *)

Presented == phase = "edit"

\* How many records of a log come after a sequence number.
RecordsAfter(s, n) == Cardinality({p \in 1..Len(s) : IsRec(s[p]) /\ s[p].body.seq > n})

\* What the two commands print is true and the same.  A flat VERIFIED under the
\* key: every record is the sink's.  VERIFIED THROUGH: the records it counts as
\* removable are those after the last good signature.  Nobody is accused over a
\* log nobody edited, which verifies as soon as it has something to verify.
VerdictSound ==
    /\ HonestVerifies
    /\ Done =>
        LET res == agwVerify(log, pub, anchor) IN
        /\ agwExitCode(res) = ExitCode
        /\ ExitCode = 0 => agwVerdict(res, pub) = Verdict
        /\ Verdict = "VERIFIED" =>
               /\ RecordsAfter(log, lastSeq) = 0
               /\ RecordsThrough(log, lastSeq) = RecordsThrough(history, lastSeq)
        /\ Verdict = "VERIFIED THROUGH" =>
               unanchored = RecordsAfter(log, signedThrough)
        /\ edits = 0 /\ anchor \in Kept \cup {None} => Verdict # "TAMPERING DETECTED"

\* A bundle of a log nobody edited verifies, says truthfully whether it is
\* contiguous, and carries a checkpoint that covers its last record whenever the
\* log has one (relevantCheckpoints: "which is what anchors the final records").
HonestBundle ==
    Presented /\ edits = 0 =>
        \A f \in Filters :
            LET b == Export(log, f)
                seqs == {b.records[n].body.seq : n \in 1..Len(b.records)}
                last == Last(b.records).body.seq
            IN b.records # <<>> =>
                /\ VerifyBundle(b, TRUE) = {}
                /\ b.complete <=> seqs = b.records[1].body.seq..last
                /\ (\E c \in Kept : c.seq >= last) =>
                       \E n \in 1..Len(b.checkpoints) : b.checkpoints[n].body.seq >= last
                /\ \A c \in Kept : c.seq \in seqs =>
                       \E n \in 1..Len(b.checkpoints) : b.checkpoints[n].body = c

\* From whatever log it was extracted, a contiguous bundle that verifies is the
\* sink's record for record as far as a checkpoint in it names the hash of one
\* of its records.
BundlePinned ==
    Presented =>
        \A f \in {g \in Filters : g.tenant = None /\ g.agent = None} :
            LET b == Export(log, f) IN
            b # None /\ VerifyBundle(b, TRUE) = {} /\ b.complete =>
                \A n \in 1..Len(b.records), m \in 1..Len(b.checkpoints) :
                    b.records[n].body.hash = b.checkpoints[m].body.hash =>
                        {b.records[k] : k \in 1..n} =
                            {l \in LinesOf(history) : IsRec(l)
                                /\ l.body.seq \in b.records[1].body.seq..b.records[n].body.seq}
=============================================================================
