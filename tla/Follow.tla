-------------------------------- MODULE Follow --------------------------------
(***************************************************************************)
(* Reading a log that is being written: agw audit show, which reads it     *)
(* once, and agw audit show --follow, which reads on as it grows           *)
(* (internal/cli/auditcli/auditcli.go and follow.go).                      *)
(*                                                                         *)
(* A file is the sequence of its pieces.  A line is three pieces: two of   *)
(* its text and its newline.  The sink writes through a buffer, and a      *)
(* reader may find any number of them.                                     *)
(***************************************************************************)
EXTENDS Integers, Sequences, SequencesExt

\* A line's kind is record, checkpoint, blank, garbage, or loose: what decodes as a
\* record with encoding/json but is none to decodeLine.
Piece(line, k) == [line |-> line, end |-> k = 3, k |-> k]
Pieces(lines) == FlattenSeq([i \in 1..Len(lines) |-> [k \in 1..3 |-> Piece(lines[i], k)]])

\* The line that pieces up to its newline, or up to the end of the file, make.
Assembled(pieces) ==
    LET text == SelectSeq(pieces, LAMBDA p : ~p.end) IN
    IF \A p \in ToSet(text) : p.line.kind = "blank" THEN [kind |-> "blank"]
    ELSE IF text = [k \in 1..2 |-> Piece(text[1].line, k)] THEN text[1].line
    ELSE [kind |-> "garbage"]

-----------------------------------------------------------------------------
(* The filter *)

\* The flags --would-deny and --denied, in this order, take the place of --decision.
decisionFilter(flags) ==
    IF flags.denied THEN "deny" ELSE IF flags.wouldDeny THEN "would_deny" ELSE flags.decision

\* A duration counts back from now; 0 is no limit.
parseSince(since, now) ==
    CASE since.kind = "none" -> 0
      [] since.kind = "duration" -> now - since.v
      [] since.kind = "time" -> since.v

match(filter, rec) ==
    /\ filter.decision # "" => rec.decision = filter.decision
    /\ filter.since # 0 => rec.time >= filter.since

-----------------------------------------------------------------------------
(* Reading once *)

\* What follows the last newline is read as a line too.
linesOf(file) ==
    LET ends == {k \in 1..Len(file) : file[k].end}
        start(k) == Max({0} \cup {j \in ends : j < k}) + 1
        whole == SetToSortSeq(ends, <)
        tail == SubSeq(file, Max({0} \cup ends) + 1, Len(file))
    IN [i \in 1..Len(whole) |-> Assembled(SubSeq(file, start(whole[i]), whole[i]))]
       \o (IF tail = <<>> THEN <<>> ELSE <<Assembled(tail)>>)

\* ReadRecords fails on a line that is neither a record nor a checkpoint.
ReadRecords(file) ==
    LET lines == linesOf(file) IN
    IF \E k \in 1..Len(lines) : lines[k].kind \in {"garbage", "loose"}
    THEN [err |-> TRUE, records |-> <<>>]
    ELSE [err |-> FALSE, records |-> SelectSeq(lines, LAMBDA l : l.kind = "record")]

Show(file, filter) ==
    LET r == ReadRecords(file) IN
    [err |-> r.err, printed |-> SelectSeq(r.records, LAMBDA rec : match(filter, rec))]

-----------------------------------------------------------------------------
(* Following *)

Opened == [offset |-> 0, pending |-> <<>>, printed |-> <<>>, shrank |-> FALSE]

\* One complete line taken off what is pending.
takeLine(s, filter) ==
    LET i == Min({k \in 1..Len(s.pending) : s.pending[k].end})
        line == Assembled(SubSeq(s.pending, 1, i))
    IN [s EXCEPT !.pending = SubSeq(@, i + 1, Len(@)),
                 !.printed = IF line.kind \in {"record", "loose"} /\ match(filter, line)
                             THEN Append(@, line) ELSE @]

\* Mutant: what is pending is read as a line whether or not its newline has come.
MutantreadLines(s, filter) ==
    LET whole == Cardinality({k \in 1..Len(s.pending) : s.pending[k].end}) IN
    [FoldLeft(LAMBDA t, k : takeLine(t, filter), s, [k \in 1..whole |-> k]) EXCEPT !.pending = <<>>]

\* Every complete line that is pending.
readLines(s, filter) ==
    LET whole == Cardinality({k \in 1..Len(s.pending) : s.pending[k].end}) IN
    FoldLeft(LAMBDA t, k : takeLine(t, filter), s, [k \in 1..whole |-> k])

\* The loop up to its pause, with the file that was opened and the file now at the
\* path: read to the end of the one, then compare the length of the other.
poll(s, now, filter) ==
    IF s.shrank THEN s
    ELSE LET read == [s EXCEPT !.pending = @ \o SubSeq(now.open, s.offset + 1, Len(now.open)),
                               !.offset = IF Len(now.open) > @ THEN Len(now.open) ELSE @]
             after == readLines(read, filter)
         IN [after EXCEPT !.shrank = Len(now.path) < after.offset]

\* follow, over what the polls find.
follow(polls, filter) ==
    FoldLeft(LAMBDA s, now : poll(s, now, filter), Opened, polls)
=============================================================================
