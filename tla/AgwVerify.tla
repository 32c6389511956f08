------------------------------ MODULE AgwVerify -------------------------------
(***************************************************************************)
(* The second implementation of log verification: the standalone auditor's *)
(* tool (cmd/agw-verify/main.go, Verify), written from RFC-0009 and not    *)
(* from pkg/evidence.  It is a function of the lines of the log, where     *)
(* ChainVerifier is a loop with one step for each.                         *)
(***************************************************************************)
EXTENDS ChainVerifier

\* signatureValid, under the given key.
signatureValid(c) == VerifyCheckpoint(c)

\* res.Problems and res.Intact: every problem but one clears intact.
fail(st, kinds) ==
    [st EXCEPT !.problems = @ \cup kinds,
               !.intact = @ /\ kinds \subseteq {"superseded_format"}]

\* The switch over a checkpoint line.
classifiedCheckpoint(st, l, key) ==
    LET read == [st EXCEPT !.checkpoints = @ + 1, !.seen = Noted(@, l.body)] IN
    CASE l.v # "v2" \/ l.body.seq # st.lastSeq -> fail(read, {"checkpoint"})
      [] l.v = "v2" /\ l.body.seq = st.lastSeq /\ l.body.hash # st.expected ->
             fail(read, {"checkpoint"})
      [] OTHER ->
             IF ~key THEN read
             ELSE IF signatureValid(l.body) THEN [read EXCEPT !.signedThrough = l.body.seq]
             ELSE fail(read, {"checkpoint"})

\* Mutant: the head stays where it was when the record does not verify.
MutantclassifiedRecord(st, l) ==
    IF l.body.seq # st.lastSeq + 1 THEN fail(st, {"sequence"})
    ELSE [fail(st, (IF l.v = "v1" THEN {"superseded_format"} ELSE {})
                   \cup (IF l.body.prevHash # st.expected THEN {"chain"} ELSE {})
                   \cup (IF RecordHash(l) # l.body.hash THEN {"content"} ELSE {}))
            EXCEPT !.records = @ + 1, !.lastSeq = l.body.seq, !.expected = l.body.hash]

\* A record: its problems, then the head moves to it whatever they were.
classifiedRecord(st, l) ==
    LET kinds == {k \in {"superseded_format", "sequence", "chain", "content"} :
                    \/ k = "superseded_format" /\ l.v = "v1"
                    \/ k = "sequence" /\ l.body.seq # st.lastSeq + 1
                    \/ k = "chain" /\ l.body.prevHash # st.expected
                    \/ k = "content" /\ RecordHash(l) # l.body.hash}
    IN [fail(st, kinds) EXCEPT !.records = @ + 1, !.lastSeq = l.body.seq,
                               !.expected = l.body.hash]

classify(st, l, key) ==
    CASE IsCp(l) -> classifiedCheckpoint(st, l, key)
      [] IsRec(l) /\ l.v \in {"v1", "v2"} -> classifiedRecord(st, l)
      [] IsRec(l) /\ l.v \notin {"v1", "v2"} -> fail(st, {"version"})
      [] OTHER -> fail(st, {"malformed"})

Fresh ==
    [intact |-> TRUE, problems |-> {}, records |-> 0, checkpoints |-> 0,
     signedThrough |-> 0, lastSeq |-> 0, expected |-> GenesisHash,
     seen |-> {}, unanchored |-> 0]

\* The loop of Verify: what it has gathered after n lines.
scanned(s, key) ==
    LET st[n \in 0..Len(s)] == IF n = 0 THEN Fresh ELSE classify(st[n - 1], s[n], key)
    IN st

\* The end of Verify: the anchor, then a log nothing pins.
agwVerify(s, key, held) ==
    LET st == scanned(s, key)[Len(s)]
        usable == held # None /\ (key => signatureValid(held))
        kinds == {k \in {"anchor_invalid", "rollback", "missing_anchor", "forked",
                         "unanchored"} :
            \/ k = "anchor_invalid" /\ held # None /\ ~usable
            \/ k = "rollback" /\ usable /\ st.lastSeq < held.seq
            \/ k = "missing_anchor" /\ usable /\ st.lastSeq >= held.seq
               /\ \A h \in st.seen : h[1] # held.seq
            \/ k = "forked" /\ usable /\ st.lastSeq >= held.seq
               /\ \E h \in st.seen : h[1] = held.seq
               /\ <<held.seq, held.hash>> \notin st.seen
            \/ k = "unanchored" /\ key /\ st.checkpoints = 0 /\ st.records > 0}
        tail == IF key /\ st.lastSeq > st.signedThrough
                THEN st.lastSeq - st.signedThrough ELSE 0
    IN [fail(st, kinds) EXCEPT !.unanchored = tail]

\* The two implementations agree on every log: the verdict, the problems, the
\* counts and how far the signatures reach.
ImplementationsAgree ==
    Done =>
        LET res == agwVerify(log, pub, anchor) IN
        /\ <<res.intact, res.problems>> = <<intact, problems>>
        /\ <<res.records, res.checkpoints, res.lastSeq>> = <<records, checkpoints, lastSeq>>
        /\ <<res.signedThrough, res.unanchored>> = <<signedThrough, unanchored>>
=============================================================================
