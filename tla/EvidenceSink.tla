----------------------------- MODULE EvidenceSink -----------------------------
(***************************************************************************)
(* EvidenceSink (pkg/evidence/sink.go): the hash-chained, checkpointed     *)
(* decision log, with its writers, its checkpoint ticker, Close, failing   *)
(* disks and signers, crashes and restarts.                                *)
(*                                                                         *)
(* `log' is the stream of lines handed to the JSON encoder.  `written' of  *)
(* them have reached the operating system (the rest sits in the bufio      *)
(* buffer) and `durable' of those have been covered by an fsync.  A crash  *)
(* keeps some prefix between the two, and may cut one more line.           *)
(*                                                                         *)
(* Sections under `mu' take no other lock, so each is one step.  `syncMu'  *)
(* is held across an fsync and is modelled as a lock.                      *)
(***************************************************************************)
EXTENDS EvidenceChain, FiniteSetsExt

CONSTANTS
    Writers,          \* goroutines that call Write
    Events,           \* what a record says
    Key,              \* the checkpoint signing key
    Signed,           \* whether a Signer is configured
    CheckpointEvery,  \* cfg.CheckpointEvery
    Faults,           \* which of "encode", "flush", "sync", "sign" may fail
    Tears,            \* how a crash may cut a line: "body", "newline"
    MaxSeq,           \* bound: records in the log
    MaxCrashes        \* bound: crashes or exits

ASSUME SinkAssumptions ==
    /\ Signed \in BOOLEAN
    /\ CheckpointEvery \in Nat \ {0}
    /\ Faults \subseteq {"encode", "flush", "sync", "sign"}
    /\ Tears \subseteq {"body", "newline"}
    /\ MaxSeq \in Nat /\ MaxCrashes \in Nat
    /\ Writers \cap {"ticker", "closer", "free"} = {}

VARIABLES
    \* The file and the buffer in front of it.
    log,           \* lines encoded so far, oldest first
    written,       \* lines flushed to the operating system
    durable,       \* lines an fsync has covered
    unterminated,  \* lines whose newline a crash cut off
    fragments,     \* lines after which a crash left part of a line's body
    failed,        \* the line whose Encode failed half-way, if any
    \* The sink's fields.
    status,        \* "down", "running" or "refused" (NewEvidenceSink failed)
    open,          \* s.f is open
    broken,        \* the sticky error of s.bw and s.enc
    seq, head, sinceLastCP, recordsAtCP, syncedSeq,
    cpErr,         \* s.cpErr # nil
    backoff,       \* now is before s.cpRetryAt
    \* Goroutines.
    syncMu,        \* holder of s.syncMu, or "free"
    pc,            \* where each goroutine is
    rec,           \* the record each writer is committing
    target,        \* the local `target' of syncThrough and Checkpoint
    \* History.
    acked,         \* records whose Write returned them without an error
    crashes

diskVars == <<log, written, durable, unterminated, fragments, failed>>
chainVars == <<seq, head, sinceLastCP, recordsAtCP>>
cpVars == <<cpErr, backoff>>
goVars == <<syncMu, pc, rec, target>>
vars == <<diskVars, status, open, broken, chainVars, syncedSeq, cpVars,
          goVars, acked, crashes>>

Checkpointers == {"ticker", "closer"}
Threads == Writers \cup Checkpointers
NoRecord == [type |-> "none"]

Init ==
    /\ log = <<>> /\ written = 0 /\ durable = 0
    /\ unterminated = {} /\ fragments = {} /\ failed = {}
    /\ status = "down" /\ open = FALSE /\ broken = FALSE
    /\ seq = 0 /\ head = GenesisHash
    /\ sinceLastCP = 0 /\ recordsAtCP = 0 /\ syncedSeq = 0
    /\ cpErr = FALSE /\ backoff = FALSE
    /\ syncMu = "free"
    /\ pc = [t \in Threads |-> "idle"]
    /\ rec = [w \in Writers |-> NoRecord]
    /\ target = [t \in Threads |-> 0]
    /\ acked = {} /\ crashes = 0

-----------------------------------------------------------------------------
(* Opening and resuming *)

RecordIndices(lines) == {i \in 1..Len(lines) : IsRecord(lines[i])}
LastRecord(lines) ==
    lines[CHOOSE i \in RecordIndices(lines) :
              \A j \in RecordIndices(lines) : j <= i]

\* Mutant: a line cut short is skipped instead of refused.
MutantMalformed == \E i \in unterminated : i < Len(log)

\* decodeLine fails on a line cut in its body, and on one that holds two
\* JSON values because the first lost its newline.
Malformed == fragments # {} \/ \E i \in unterminated : i < Len(log)

resumeChain ==
    IF RecordIndices(log) = {} THEN [seq |-> 0, hash |-> GenesisHash]
    ELSE [seq |-> LastRecord(log).seq, hash |-> LastRecord(log).hash]

\* Mutant: the interval is consulted only inside Write, there is no ticker.
MutantStarted == [t \in Threads |-> IF t = "ticker" THEN "done" ELSE "idle"]

\* The goroutines of a fresh process; the ticker runs only with a signer.
Started == [t \in Threads |-> IF t = "ticker" /\ ~Signed THEN "done" ELSE "idle"]

\* Mutant: every start begins a new chain.
MutantNewChain ==
    /\ status = "down" /\ ~Malformed
    /\ status' = "running" /\ open' = TRUE /\ broken' = FALSE
    /\ seq' = 0 /\ head' = GenesisHash
    /\ recordsAtCP' = 0 /\ sinceLastCP' = 0
    /\ syncedSeq' = 0 /\ cpErr' = FALSE /\ backoff' = FALSE
    /\ pc' = Started
    /\ UNCHANGED <<diskVars, syncMu, rec, target, acked, crashes>>

NewEvidenceSink ==
    /\ status = "down" /\ ~Malformed
    /\ status' = "running" /\ open' = TRUE /\ broken' = FALSE
    /\ seq' = resumeChain.seq /\ head' = resumeChain.hash
    /\ recordsAtCP' = resumeChain.seq /\ sinceLastCP' = 0
    /\ syncedSeq' = 0 /\ cpErr' = FALSE /\ backoff' = FALSE
    /\ pc' = Started
    /\ UNCHANGED <<diskVars, syncMu, rec, target, acked, crashes>>

NewEvidenceSinkRefuses ==
    /\ status = "down" /\ Malformed
    /\ status' = "refused"
    /\ UNCHANGED <<diskVars, open, broken, chainVars, syncedSeq, cpVars,
                   goVars, acked, crashes>>

-----------------------------------------------------------------------------
(* The encoder and the buffer *)

\* Encoding may overflow the 64 KiB buffer, which hands everything before
\* the new lines to the operating system, and possibly the new lines too.
Encode(lines) ==
    /\ log' = log \o lines
    /\ written' \in {written} \cup
          (IF open THEN Len(log)..(Len(log) + Len(lines)) ELSE {})
    /\ UNCHANGED <<durable, unterminated, fragments>>

\* A failed write of the buffer leaves a prefix of it in the file.
FailWrite ==
    /\ broken' = TRUE
    /\ written' \in written..Len(log')

\* An empty buffer flushes even into a closed file.
FlushSucceeds == ~broken /\ (open \/ written = Len(log))
FlushFails == ~broken /\ ("flush" \in Faults \/ ~open)
EncodeFails == ~broken /\ ("encode" \in Faults \/ ~open)

\* checkpointDue reads the clock: the interval may have passed or not.
checkpointDue(due) ==
    /\ due \in BOOLEAN
    /\ due => Signed /\ ~(cpErr /\ backoff)
    /\ (Signed /\ ~(cpErr /\ backoff) /\ sinceLastCP + 1 >= CheckpointEvery) => due

-----------------------------------------------------------------------------
(* Write: append under mu, then syncThrough *)

\* The record could not be encoded: nothing is chained, Write returns an
\* error.  (Once the error is sticky, Write fails without any effect.)
WriteEncodeFails(w, ev) ==
    /\ status = "running" /\ pc[w] = "idle" /\ EncodeFails
    /\ failed' = {Link(ev, seq + 1, head)}
    /\ log' = log
    /\ FailWrite
    /\ UNCHANGED <<durable, unterminated, fragments, status, open, chainVars,
                   syncedSeq, cpVars, goVars, acked, crashes>>

\* The record is chained.  A checkpoint that is due follows it in the same
\* section; its failure is kept in cpErr and does not fail the Write.
Write(w, ev) ==
    LET r  == Link(ev, seq + 1, head)
        cp == SignCheckpointWith(Key, r.seq, r.hash)
    IN
    /\ status = "running" /\ pc[w] = "idle" /\ ~broken
    /\ seq < MaxSeq
    /\ seq' = r.seq /\ head' = r.hash
    /\ rec' = [rec EXCEPT ![w] = r]
    /\ pc' = [pc EXCEPT ![w] = "sync"]
    /\ \E due \in BOOLEAN :
        /\ checkpointDue(due)
        /\ \/ /\ ~due
              /\ Encode(<<r>>)
              /\ sinceLastCP' = sinceLastCP + 1
              /\ UNCHANGED <<recordsAtCP, cpVars, broken, failed>>
           \/ /\ due
              /\ Encode(<<r, cp>>)
              /\ sinceLastCP' = 0 /\ recordsAtCP' = r.seq
              /\ cpErr' = FALSE
              /\ UNCHANGED <<backoff, broken, failed>>
           \/ /\ due /\ "sign" \in Faults
              /\ Encode(<<r>>)
              /\ sinceLastCP' = sinceLastCP + 1
              /\ cpErr' = TRUE /\ backoff' = TRUE
              /\ UNCHANGED <<recordsAtCP, broken, failed>>
           \/ /\ due /\ EncodeFails
              /\ log' = Append(log, r) /\ failed' = {cp}
              /\ FailWrite
              /\ sinceLastCP' = sinceLastCP + 1
              /\ cpErr' = TRUE /\ backoff' = TRUE
              /\ UNCHANGED <<durable, unterminated, fragments, recordsAtCP>>
    /\ UNCHANGED <<status, open, syncedSeq, syncMu, target, acked, crashes>>

\* cpRetryAt passes.
BackoffElapses ==
    /\ status = "running" /\ backoff /\ backoff' = FALSE
    /\ UNCHANGED <<diskVars, status, open, broken, chainVars, syncedSeq, cpErr,
                   goVars, acked, crashes>>

\* Write returns, with the record or with an error.
Return(w, ok) ==
    /\ pc' = [pc EXCEPT ![w] = "idle"]
    /\ rec' = [rec EXCEPT ![w] = NoRecord]
    /\ acked' = IF ok THEN acked \cup {rec[w]} ELSE acked

\* syncThrough: another caller's sync already covered this record.
SyncCovered(w) ==
    /\ pc[w] = "sync" /\ syncMu = "free"
    /\ syncedSeq >= rec[w].seq
    /\ Return(w, TRUE)
    /\ UNCHANGED <<diskVars, status, open, broken, chainVars, syncedSeq, cpVars,
                   syncMu, target, crashes>>

\* syncThrough takes syncMu, then reads seq and flushes under mu.
SyncFlush(w) ==
    /\ pc[w] = "sync" /\ syncMu = "free"
    /\ syncedSeq < rec[w].seq
    /\ FlushSucceeds
    /\ written' = Len(log)
    /\ target' = [target EXCEPT ![w] = seq]
    /\ syncMu' = w
    /\ pc' = [pc EXCEPT ![w] = "fsync"]
    /\ UNCHANGED <<log, durable, unterminated, fragments, failed, status, open,
                   broken, chainVars, syncedSeq, cpVars, rec, acked, crashes>>

\* The flush fails now, or failed before and the error is sticky.
SyncFlushFails(w) ==
    /\ pc[w] = "sync" /\ syncMu = "free"
    /\ syncedSeq < rec[w].seq
    /\ \/ broken /\ UNCHANGED <<written, broken>>
       \/ FlushFails /\ log' = log /\ FailWrite
    /\ Return(w, FALSE)
    /\ UNCHANGED <<log, durable, unterminated, fragments, failed, status, open,
                   chainVars, syncedSeq, cpVars, syncMu, target, crashes>>

\* Mutant: syncedSeq is set from s.seq as it is after the fsync.
MutantSyncDone(w) ==
    /\ pc[w] = "fsync" /\ open
    /\ durable' = written
    /\ syncedSeq' = seq
    /\ syncMu' = "free"
    /\ Return(w, TRUE)
    /\ UNCHANGED <<log, written, unterminated, fragments, failed, status, open,
                   broken, chainVars, cpVars, target, crashes>>

\* f.Sync covers every byte the operating system has.
SyncDone(w) ==
    /\ pc[w] = "fsync" /\ open
    /\ durable' = written
    /\ syncedSeq' = target[w]
    /\ syncMu' = "free"
    /\ Return(w, TRUE)
    /\ UNCHANGED <<log, written, unterminated, fragments, failed, status, open,
                   broken, chainVars, cpVars, target, crashes>>

\* Mutant: an fsync error is dropped.
MutantSyncFailsIgnored(w) ==
    /\ pc[w] = "fsync"
    /\ "sync" \in Faults \/ ~open
    /\ syncMu' = "free"
    /\ Return(w, TRUE)
    /\ UNCHANGED <<diskVars, status, open, broken, chainVars, syncedSeq, cpVars,
                   target, crashes>>

\* Mutant: the error path returns without unlocking syncMu.
MutantSyncFailsLocked(w) ==
    /\ pc[w] = "fsync"
    /\ "sync" \in Faults \/ ~open
    /\ Return(w, FALSE)
    /\ UNCHANGED <<diskVars, status, open, broken, chainVars, syncedSeq, cpVars,
                   syncMu, target, crashes>>

SyncFails(w) ==
    /\ pc[w] = "fsync"
    /\ "sync" \in Faults \/ ~open
    /\ syncMu' = "free"
    /\ Return(w, FALSE)
    /\ UNCHANGED <<diskVars, status, open, broken, chainVars, syncedSeq, cpVars,
                   target, crashes>>

-----------------------------------------------------------------------------
(* Checkpoint, called by the ticker and by Close *)

\* Where Checkpoint returns to.
AfterSuccess(t) == IF t = "ticker" THEN "idle" ELSE "final"
AfterError(t) == IF t = "ticker" THEN "idle" ELSE "done"

AtCheckpoint(t) ==
    /\ status = "running"
    /\ pc[t] = IF t = "ticker" THEN "idle" ELSE "checkpoint"

\* The checkpoint is signed, encoded and flushed under mu.
Checkpoint(t) ==
    /\ AtCheckpoint(t) /\ Signed /\ sinceLastCP > 0 /\ ~broken /\ open
    /\ log' = Append(log, SignCheckpointWith(Key, seq, head))
    /\ written' = Len(log')
    /\ sinceLastCP' = 0 /\ recordsAtCP' = seq /\ cpErr' = FALSE
    /\ target' = [target EXCEPT ![t] = seq]
    /\ pc' = [pc EXCEPT ![t] = "fsync"]
    /\ UNCHANGED <<durable, unterminated, fragments, failed, status, open, broken,
                   seq, head, syncedSeq, backoff, syncMu, rec, acked, crashes>>

\* The checkpoint reaches the buffer and the flush fails.
CheckpointFlushFails(t) ==
    /\ AtCheckpoint(t) /\ Signed /\ sinceLastCP > 0 /\ FlushFails
    /\ log' = Append(log, SignCheckpointWith(Key, seq, head))
    /\ FailWrite
    /\ sinceLastCP' = 0 /\ recordsAtCP' = seq /\ cpErr' = FALSE
    /\ pc' = [pc EXCEPT ![t] = AfterError(t)]
    /\ UNCHANGED <<durable, unterminated, fragments, failed, status, open,
                   seq, head, syncedSeq, backoff, syncMu, rec, target,
                   acked, crashes>>

\* Signing fails, or the encoder does: cpErr is set, without a backoff.
CheckpointFails(t) ==
    /\ AtCheckpoint(t) /\ Signed /\ sinceLastCP > 0
    /\ \/ "sign" \in Faults /\ UNCHANGED <<written, broken, failed>>
       \/ broken /\ UNCHANGED <<written, broken, failed>>
       \/ /\ EncodeFails
          /\ failed' = {SignCheckpointWith(Key, seq, head)}
          /\ log' = log /\ FailWrite
    /\ cpErr' = TRUE
    /\ pc' = [pc EXCEPT ![t] = AfterError(t)]
    /\ UNCHANGED <<log, durable, unterminated, fragments, status, open, chainVars,
                   syncedSeq, backoff, syncMu, rec, target, acked, crashes>>

CheckpointSynced(t) ==
    /\ pc[t] = "fsync" /\ open
    /\ durable' = written
    /\ pc' = [pc EXCEPT ![t] = "publish"]
    /\ UNCHANGED <<log, written, unterminated, fragments, failed, status, open,
                   broken, chainVars, syncedSeq, cpVars, syncMu, rec, target,
                   acked, crashes>>

CheckpointSyncFails(t) ==
    /\ pc[t] = "fsync" /\ "sync" \in Faults
    /\ pc' = [pc EXCEPT ![t] = AfterError(t)]
    /\ UNCHANGED <<diskVars, status, open, broken, chainVars, syncedSeq, cpVars,
                   syncMu, rec, target, acked, crashes>>

\* Only now is syncMu taken, to raise syncedSeq.
CheckpointPublish(t) ==
    /\ pc[t] = "publish" /\ syncMu = "free"
    /\ syncedSeq' = IF target[t] > syncedSeq THEN target[t] ELSE syncedSeq
    /\ pc' = [pc EXCEPT ![t] = AfterSuccess(t)]
    /\ UNCHANGED <<diskVars, status, open, broken, chainVars, cpVars,
                   syncMu, rec, target, acked, crashes>>

-----------------------------------------------------------------------------
(* Close *)

\* close(stopTicker); with no ticker there is nothing to wait for.
Close ==
    /\ status = "running" /\ pc["closer"] = "idle"
    /\ pc' = [pc EXCEPT !["closer"] = IF Signed THEN "stopping" ELSE "checkpoint"]
    /\ UNCHANGED <<diskVars, status, open, broken, chainVars, syncedSeq, cpVars,
                   syncMu, rec, target, acked, crashes>>

\* The ticker sees stopTicker between two checkpoints and Close goes on.
TickerDone ==
    /\ status = "running"
    /\ pc["closer"] = "stopping" /\ pc["ticker"] = "idle"
    /\ pc' = [pc EXCEPT !["ticker"] = "done", !["closer"] = "checkpoint"]
    /\ UNCHANGED <<diskVars, status, open, broken, chainVars, syncedSeq, cpVars,
                   syncMu, rec, target, acked, crashes>>

\* Checkpoint has nothing to cover.
CloseNoCheckpoint ==
    /\ AtCheckpoint("closer") /\ (~Signed \/ sinceLastCP = 0)
    /\ pc' = [pc EXCEPT !["closer"] = "final"]
    /\ UNCHANGED <<diskVars, status, open, broken, chainVars, syncedSeq, cpVars,
                   syncMu, rec, target, acked, crashes>>

\* Flush, Sync and Close in one section under mu.
CloseFile ==
    /\ pc["closer"] = "final" /\ ~broken
    /\ written' = Len(log) /\ durable' = Len(log)
    /\ open' = FALSE
    /\ pc' = [pc EXCEPT !["closer"] = "done"]
    /\ UNCHANGED <<log, unterminated, fragments, failed, status, broken, chainVars,
                   syncedSeq, cpVars, syncMu, rec, target, acked, crashes>>

\* Either call may fail; the file is then left open.
CloseFileFails ==
    /\ pc["closer"] = "final"
    /\ \/ broken /\ UNCHANGED <<written, broken>>
       \/ FlushFails /\ log' = log /\ FailWrite
       \/ ~broken /\ "sync" \in Faults /\ written' = Len(log) /\ UNCHANGED broken
    /\ pc' = [pc EXCEPT !["closer"] = "done"]
    /\ UNCHANGED <<log, durable, unterminated, fragments, failed, status, open,
                   chainVars, syncedSeq, cpVars, syncMu, rec, target,
                   acked, crashes>>

-----------------------------------------------------------------------------
(* Crashes *)

\* The bytes that may lie in the file after its first k whole lines.
NextLine(k) == IF k < Len(log) THEN {log[k + 1]} ELSE failed

\* The process or the machine stops.  k whole lines survive: all that was
\* written if only the process died, no fewer than the durable ones in any
\* case.  The line after them may survive in part.
Crash(k) ==
    /\ status = "running" /\ crashes < MaxCrashes
    /\ \/ /\ log' = SubSeq(log, 1, k)
          /\ unterminated' = unterminated \cap 1..k
          /\ fragments' = fragments \cap 0..k
       \/ /\ "body" \in Tears /\ NextLine(k) # {}
          /\ log' = SubSeq(log, 1, k)
          /\ unterminated' = unterminated \cap 1..k
          /\ fragments' = (fragments \cap 0..k) \cup {k}
       \/ /\ "newline" \in Tears
          /\ \E line \in NextLine(k) : log' = Append(SubSeq(log, 1, k), line)
          /\ unterminated' = (unterminated \cap 1..k) \cup {k + 1}
          /\ fragments' = fragments \cap 0..k
    /\ written' = Len(log')
    /\ failed' = {}
    /\ status' = "down" /\ open' = FALSE /\ broken' = FALSE
    /\ seq' = 0 /\ head' = GenesisHash /\ sinceLastCP' = 0 /\ recordsAtCP' = 0
    /\ syncedSeq' = 0 /\ cpErr' = FALSE /\ backoff' = FALSE
    /\ syncMu' = "free"
    /\ pc' = [t \in Threads |-> "idle"]
    /\ rec' = [w \in Writers |-> NoRecord]
    /\ target' = [t \in Threads |-> 0]
    /\ crashes' = crashes + 1
    /\ UNCHANGED <<durable, acked>>

-----------------------------------------------------------------------------
WriterStep(w) ==
    \/ \E ev \in Events : Write(w, ev) \/ WriteEncodeFails(w, ev)
    \/ SyncCovered(w) \/ SyncFlush(w) \/ SyncFlushFails(w)
    \/ SyncDone(w) \/ SyncFails(w)

CheckpointStep(t) ==
    \/ Checkpoint(t) \/ CheckpointFlushFails(t) \/ CheckpointFails(t)
    \/ CheckpointSynced(t) \/ CheckpointSyncFails(t) \/ CheckpointPublish(t)

CloseStep ==
    Close \/ TickerDone \/ CloseNoCheckpoint \/ CloseFile \/ CloseFileFails

Next ==
    \/ NewEvidenceSink \/ NewEvidenceSinkRefuses
    \/ \E w \in Writers : WriterStep(w)
    \/ BackoffElapses
    \/ \E t \in Checkpointers : CheckpointStep(t)
    \/ CloseStep
    \/ \E k \in durable..written : Crash(k)

Spec == Init /\ [][Next]_vars

(***************************************************************************)
(* Fairness.  Goroutines keep running; sync.Mutex hands the lock over to   *)
(* a waiter that has starved for a millisecond, hence strong fairness for  *)
(* the steps that take syncMu.  The ticker ticks for ever, and a signer    *)
(* that is asked again and again answers at least sometimes.               *)
(***************************************************************************)
Fairness ==
    /\ WF_vars(NewEvidenceSink)
    /\ \A w \in Writers :
        /\ SF_vars(SyncCovered(w) \/ SyncFlush(w) \/ SyncFlushFails(w))
        /\ WF_vars(SyncDone(w) \/ SyncFails(w))
    /\ \A t \in Checkpointers :
        /\ WF_vars(CheckpointSynced(t) \/ CheckpointSyncFails(t))
        /\ SF_vars(CheckpointPublish(t))
    /\ SF_vars(Checkpoint("ticker"))

FairSpec == Spec /\ Fairness

-----------------------------------------------------------------------------
(* Properties *)

FlagsOK == {open, broken, cpErr, backoff} \subseteq BOOLEAN

TypeOK ==
    /\ log \in Seq(LinesOf(log))
    /\ \A line \in LinesOf(log) \cup failed :
        /\ line.type \in {"record", "checkpoint"} /\ line.seq \in Nat
        /\ IsRecord(line) => line.seq > 0
    /\ written \in 0..Len(log) /\ durable \in 0..written
    /\ unterminated \subseteq 1..Len(log) /\ fragments \subseteq 0..Len(log)
    /\ status \in {"down", "running", "refused"}
    /\ FlagsOK
    /\ seq \in Nat /\ sinceLastCP \in Nat /\ recordsAtCP \in Nat
    /\ syncedSeq \in Nat
    /\ syncMu \in Threads \cup {"free"}
    /\ pc \in [Threads -> {"idle", "sync", "fsync", "publish", "stopping",
                           "checkpoint", "final", "done"}]
    /\ rec \in [Writers -> LinesOf(log) \cup {NoRecord}]
    /\ target \in [Threads -> Nat]
    /\ crashes \in Nat

\* A Write that returned its record without an error made it durable: no
\* crash, at any point of any later interleaving, takes it out of the file.
\* (sink.go, Write: "Durability before reporting success".)
AckedDurable == \A r \in acked : \E i \in 1..durable : log[i] = r

\* Such a record can also be read back: it stands on a line of its own.
OnOwnLine(i) ==
    /\ i - 1 \notin unterminated \cup fragments
    /\ i \in unterminated => i = Len(log)

AckedReadable ==
    \A r \in acked : \E i \in 1..Len(log) : log[i] = r /\ OnOwnLine(i)

\* The file is one chain across every crash and restart, each checkpoint in
\* it commits to the head right above it, and a running sink continues the
\* chain exactly where the file ends.
ChainIntact ==
    /\ ChainLinked(log)
    /\ status = "running" => [seq |-> seq, hash |-> head] = resumeChain

\* Why ChainIntact holds: the sink's fields name the end of the stream, a
\* checkpoint is only due after a record, and a line whose Encode failed would
\* have continued the chain, since nothing is encoded after it.
ChainInv ==
    /\ WellFormed(log)
    /\ status = "running" =>
        /\ seq = SeqBefore(log, Len(log) + 1)
        /\ head = HashBefore(log, Len(log) + 1)
        /\ sinceLastCP > 0 => Len(log) > 0 /\ IsRecord(log[Len(log)])
    /\ \A line \in failed : broken /\ status = "running" /\ Continues(log, line)

\* Every record up to sequence n is among the first k lines.
Covered(n, k) ==
    \A i \in 1..Len(log) : IsRecord(log[i]) /\ log[i].seq <= n => i <= k

\* syncedSeq never runs ahead of the disk.
SyncedIsDurable == Covered(syncedSeq, durable)

\* The group commit, goroutine by goroutine: what a writer is committing is
\* in the log, a target read before an fsync is covered by what was flushed,
\* and by what is durable once the fsync is done.
GroupCommit ==
    /\ syncedSeq <= seq
    /\ \A w \in Writers :
        pc[w] \in {"sync", "fsync"} => IsRecord(rec[w]) /\ rec[w].seq <= seq
    /\ \A w \in Writers : pc[w] = "fsync" => rec[w].seq <= target[w]
    /\ \A t \in Threads :
        /\ pc[t] \in {"fsync", "publish"} => target[t] <= seq
        /\ pc[t] = "fsync" => Covered(target[t], written)
        /\ pc[t] = "publish" => Covered(target[t], durable)

\* Why AckedDurable holds: it is inductive together with these.
DurabilityInv == TypeOK /\ SyncedIsDurable /\ AckedDurable /\ GroupCommit

\* What is durable is never rewritten, by any step, crashes included.
DurablePrefixStable ==
    [][ /\ durable' >= durable
        /\ durable <= Len(log')
        /\ \A i \in 1..durable : log'[i] = log[i] ]_vars

\* The sink as the abstract log: its chain is the records of the stream, and what
\* was promised is the highest sequence a Write returned.
Highest(recs) == Max({0} \cup {r.seq : r \in recs})
Promised == Highest(acked)
Abstract == INSTANCE EvidenceLog WITH recs <- RecordsOf(log), promised <- Promised

\* The sink implements the abstract log: no step appends out of order,
\* rewrites a record, or loses one whose Write had returned.
ImplementsEvidenceLog == Abstract!Spec

\* Every Write returns, or its process dies.
WritesReturn == \A w \in Writers : pc[w] # "idle" ~> pc[w] = "idle"

\* A quiet log gets anchored: the ticker eventually covers every record by a
\* durable checkpoint, unless the sink stops, is closed or its file fails.
Anchored(n) ==
    \E i \in 1..durable : IsCheckpoint(log[i]) /\ log[i].seq >= n
TailAnchored ==
    \A n \in 1..MaxSeq :
        status = "running" /\ seq >= n
            ~> Anchored(n) \/ status # "running" \/ broken \/ pc["closer"] # "idle"

=============================================================================
