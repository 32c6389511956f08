-------------------------------- MODULE Watch ---------------------------------
(***************************************************************************)
(* agw watch (cmd/agw/watch.go): the OTLP receiver (internal/recorder) and *)
(* the sink it records to, from the choice of the checkpoint key           *)
(* (checkpointkey.go) to the end of the process, with the signer in this   *)
(* process or behind the signing daemon (pkg/ags1/signer/separated.go).    *)
(*                                                                         *)
(* The sink is the one EvidenceSink models in detail; here it is a log of  *)
(* lines with a buffer, a lock held while a checkpoint is signed, and a    *)
(* sync that every Write waits for.  An export has no more than MaxSpans   *)
(* spans; what a span is recorded as is Telemetry's matter.                *)
(***************************************************************************)
EXTENDS SigningDaemon, Sequences, SequencesExt

CONSTANTS
    HttpExports, GrpcExports, MaxSpans, CheckpointEvery,
    MaxFaults                 \* bound: how often the disk fails

VARIABLES
    custody,     \* "file" or "daemon": what --key names
    starter,     \* the progress of resolveCheckpointKey, here and in another agw
    keyFile,     \* the default key file: None, "empty" or a key
    pub,         \* the public key each start has loaded or learned
    phase,       \* where runWatch is
    export,      \* the exports and how far each is
    sink,        \* log, flushed, since, owner of its lock, cpErr, file open
    call,        \* the sink's signature in the making
    ticker,      \* checkpointLoop runs
    stats,       \* spans, recorded, rejected
    faults,
    overrun      \* a handler may outlive the servers: Shutdown gave up, or Serve failed

watchVars ==
    <<custody, starter, keyFile, pub, phase, export, sink, call, ticker, stats, faults, overrun>>
vars == <<daemonVars, watchVars>>

Exports == HttpExports \cup GrpcExports
Starts == {"watch", "rival"}

ASSUME WatchAssumptions ==
    /\ IsFiniteSet(Exports) /\ HttpExports \cap GrpcExports = {}
    /\ Exports \cap {"main", "ticker"} = {}
    /\ None \notin Exports \cup {"main", "ticker"}
    /\ None \notin Keys \cup Starts \cup {"earlier", "empty"}
    /\ {MaxSpans, CheckpointEvery, MaxFaults} \subseteq Nat

-----------------------------------------------------------------------------
(* resolveCheckpointKey *)

\* The default key of two commands that start at the same time.
KeyOf(p) == p

\* writeKeypair opens with O_EXCL: the second to come fails.
writeKeypair(p) ==
    /\ starter[p] = "create"
    /\ keyFile' = IF keyFile = None THEN "empty" ELSE keyFile
    /\ starter' = [starter EXCEPT ![p] = IF keyFile = None THEN "write" ELSE "failed"]

ResolveFile(p) ==
    /\ custody = "file"
    /\ \/ /\ starter[p] = "stat"
          /\ starter' = [starter EXCEPT ![p] = IF keyFile = None THEN "create" ELSE "load"]
          /\ UNCHANGED <<keyFile, pub>>
       \/ writeKeypair(p) /\ UNCHANGED pub
       \/ /\ starter[p] = "write"
          /\ keyFile' = KeyOf(p) /\ starter' = [starter EXCEPT ![p] = "load"] /\ UNCHANGED pub
       \/ /\ starter[p] = "load"      \* an empty file does not decode
          /\ starter' = [starter EXCEPT ![p] = IF keyFile = "empty" THEN "failed" ELSE "ready"]
          /\ pub' = [pub EXCEPT ![p] = IF keyFile = "empty" THEN None ELSE keyFile]
          /\ UNCHANGED keyFile

\* Connect asks the daemon to describe itself; a closed signer has no public key.
ResolveDaemon ==
    /\ custody = "daemon" /\ starter["watch"] = "stat"
    /\ starter' = [starter EXCEPT !["watch"] =
                      IF daemon.listening /\ ~daemon.zeroed THEN "ready" ELSE "failed"]
    /\ pub' = [pub EXCEPT !["watch"] = IF daemon.listening THEN daemon.key ELSE None]
    /\ UNCHANGED keyFile

\* Either of the two commands may be killed while it starts.
StartKilled(p) ==
    /\ custody = "file" /\ starter[p] \notin {"ready", "failed"}
    /\ starter' = [starter EXCEPT ![p] = "failed"] /\ UNCHANGED <<keyFile, pub>>

Resolve ==
    /\ \/ \E p \in Starts : ResolveFile(p) \/ StartKilled(p)
       \/ ResolveDaemon
    /\ phase' = CASE starter'["watch"] = "ready" /\ phase = "start" -> "serving"
                  [] starter'["watch"] = "failed" -> "exited"
                  [] OTHER -> phase
    /\ UNCHANGED <<daemonVars, custody, export, sink, call, ticker, stats, faults, overrun>>

-----------------------------------------------------------------------------
(* The sink's signatures: SeparatedSigner.Sign, or the key in this process *)

Rec(e, k) == [kind |-> "rec", e |-> e, k |-> k, key |-> None]
Checkpoint(key) == [kind |-> "cp", e |-> None, k |-> 0, key |-> key]

\* The places of the records, and of one export's, in the first n lines of a log.
Recs(log, n) == {k \in 1..n : log[k].kind = "rec"}
RecsOf(log, n, e) == {k \in Recs(log, n) : log[k].e = e}

NoCall == [st |-> "none", slot |-> None]
Calling == [st |-> "dial", slot |-> None]

\* Mutant: what the daemon returns is taken for a signature.
MutantVerifies(sig) == sig # None

\* The result is verified against the key learned when connecting.
Verifies(sig) == sig # None /\ sig = pub["watch"]

\* Who asked goes on: a Write with its record, a Checkpoint with its sync.
Unlocked(s, sig, synced) ==
    LET unlocked == [s EXCEPT !.owner = None, !.cpErr = ~Verifies(sig)]
        written == [unlocked EXCEPT !.log = Append(@, Checkpoint(sig)), !.since = 0]
    IN CASE ~Verifies(sig) -> unlocked
         [] Verifies(sig) /\ (s.owner \in Exports \/ ~synced) -> written
         [] OTHER -> [written EXCEPT !.flushed = Len(written.log)]

\* Close returns early when its checkpoint or a sync fails: the file stays open.
AfterMain(ok) ==
    IF sink.owner # "main" THEN phase
    ELSE IF phase = "final" THEN "stats"
    ELSE IF ok THEN "file" ELSE "exit"

Signed(sig) ==
    \E synced \in IF Verifies(sig) /\ sink.owner \notin Exports /\ faults < MaxFaults
                 THEN BOOLEAN ELSE {TRUE} :
        /\ sink' = Unlocked(sink, sig, synced)
        /\ faults' = IF synced THEN faults ELSE faults + 1
        /\ call' = NoCall
        /\ phase' = AfterMain(Verifies(sig) /\ synced)
        /\ export' = IF sink.owner \in Exports THEN [export EXCEPT ![sink.owner].st = "syncing"]
                     ELSE export
        /\ UNCHANGED <<custody, starter, keyFile, pub, ticker, stats, overrun>>

SignInProcess ==
    custody = "file" /\ call.st = "dial" /\ Signed(pub["watch"]) /\ UNCHANGED daemonVars

DialDaemon ==
    /\ custody = "daemon" /\ call.st = "dial"
    /\ \/ ~daemon.listening /\ Signed(None) /\ UNCHANGED daemonVars
       \/ \E s \in Slots :
             /\ Accept(s, "sink", CheckpointInput)
             /\ call' = [st |-> "wait", slot |-> s]
             /\ UNCHANGED <<now, daemon, bucket, granted, signed, strangers>>
             /\ UNCHANGED <<custody, starter, keyFile, pub, phase, export, sink, ticker, stats,
                            faults, overrun>>

TakeAnswer ==
    /\ call.st = "wait" /\ slot[call.slot].st = "answered"
    /\ Signed(slot[call.slot].sig)
    /\ slot' = [slot EXCEPT ![call.slot] = Free]
    /\ UNCHANGED <<now, daemon, bucket, granted, signed, strangers>>

\* Three seconds without an answer: the handler at the other end goes on.
SignTimeout ==
    /\ \/ call.st = "wait" /\ slot' = [slot EXCEPT ![call.slot].from = "gone"]
       \/ call.st = "dial" /\ custody = "daemon" /\ UNCHANGED slot
    /\ Signed(None)
    /\ UNCHANGED <<now, daemon, bucket, granted, signed, strangers>>

-----------------------------------------------------------------------------
(* The receiver *)

Active(e) == export[e].st \notin {"idle", "answered", "refused", "cut"}
Up == phase \notin {"start", "exited"}
Open(e) == IF e \in HttpExports THEN phase = "serving" ELSE phase \in {"serving", "shutdown"}

Set(e, x) == export' = [export EXCEPT ![e] = x]

Arrive(e) ==
    /\ Open(e) /\ export[e].st = "idle"
    /\ \E n \in 1..MaxSpans : Set(e, [st |-> "reading", n |-> n, done |-> 0, failed |-> 0])
    /\ UNCHANGED <<daemonVars, custody, starter, keyFile, pub, phase, sink, call, ticker, stats,
                   faults, overrun>>

\* handleTraces and Export: no token, a body that cannot be read or does not parse,
\* an unknown type, or an export to ingest.
Read(e) ==
    /\ Up /\ export[e].st = "reading"
    /\ \/ Set(e, [export[e] EXCEPT !.st = "refused"])
          /\ stats' = [stats EXCEPT !.rejected = @ + 1]
       \/ Set(e, [export[e] EXCEPT !.st = "span"]) /\ UNCHANGED stats
    /\ UNCHANGED <<daemonVars, custody, starter, keyFile, pub, phase, sink, call, ticker,
                   faults, overrun>>

\* Mutant: a span the sink refused is counted with the others.
MutantNextSpan(x, ok) ==
    [x EXCEPT !.done = @ + 1, !.st = IF x.done + 1 = x.n THEN "answer" ELSE "span"]

NextSpan(x, ok) ==
    [x EXCEPT !.done = @ + 1, !.failed = IF ok THEN @ ELSE @ + 1,
              !.st = IF x.done + 1 = x.n THEN "answer" ELSE "span"]

\* After a failed checkpoint the write path waits before it tries again.
checkpointDue(s) ==
    IF s.since < CheckpointEvery THEN {FALSE} ELSE IF s.cpErr THEN BOOLEAN ELSE {TRUE}

\* ingest, one span: Sink.Write up to its unlock or to the signer.  Nothing can be
\* written to a closed file.
WriteSpan(e) ==
    /\ Up /\ export[e].st = "span" /\ sink.owner = None
    /\ stats' = [stats EXCEPT !.spans = @ + 1]
    /\ \/ /\ ~sink.open \/ faults < MaxFaults
          /\ faults' = IF sink.open THEN faults + 1 ELSE faults
          /\ Set(e, NextSpan(export[e], FALSE))
          /\ UNCHANGED <<sink, call>>
       \/ /\ sink.open
          /\ LET s == [sink EXCEPT !.log = Append(@, Rec(e, export[e].done + 1)), !.since = @ + 1]
             IN \E due \in checkpointDue(s) :
                   /\ sink' = IF due THEN [s EXCEPT !.owner = e] ELSE s
                   /\ call' = IF due THEN Calling ELSE call
                   /\ Set(e, [export[e] EXCEPT !.st = IF due THEN "locked" ELSE "syncing"])
          /\ UNCHANGED faults
    /\ UNCHANGED <<daemonVars, custody, starter, keyFile, pub, phase, ticker, overrun>>

\* syncThrough: what is in the buffer by now, for everyone.
Sync(e) ==
    /\ Up /\ export[e].st = "syncing" /\ sink.owner = None
    /\ \/ /\ ~sink.open \/ faults < MaxFaults
          /\ faults' = IF sink.open THEN faults + 1 ELSE faults
          /\ Set(e, NextSpan(export[e], FALSE))
          /\ UNCHANGED <<sink, stats>>
       \/ /\ sink.open
          /\ sink' = [sink EXCEPT !.flushed = Len(sink.log)]
          /\ Set(e, NextSpan(export[e], TRUE))
          /\ stats' = [stats EXCEPT !.recorded = @ + 1]
          /\ UNCHANGED faults
    /\ UNCHANGED <<daemonVars, custody, starter, keyFile, pub, phase, call, ticker, overrun>>

\* The answer says how many spans were not recorded.
Answer(e) ==
    /\ Up /\ export[e].st = "answer"
    /\ Set(e, [export[e] EXCEPT !.st = "answered"])
    /\ UNCHANGED <<daemonVars, custody, starter, keyFile, pub, phase, sink, call, ticker, stats,
                   faults, overrun>>

-----------------------------------------------------------------------------
(* checkpointLoop, and the end of runWatch *)

TickerCheckpoint ==
    /\ Up /\ ticker /\ sink.owner = None /\ sink.since > 0
    /\ sink' = [sink EXCEPT !.owner = "ticker"] /\ call' = Calling
    /\ UNCHANGED <<daemonVars, custody, starter, keyFile, pub, phase, export, ticker, stats,
                   faults, overrun>>

\* Mutant: the gRPC server is not waited for.
MutantGracefulStop == phase = "grpcstop" /\ phase' = "final" /\ UNCHANGED overrun

GracefulStop ==
    /\ phase = "grpcstop" /\ \A e \in GrpcExports : ~Active(e)
    /\ phase' = "final" /\ UNCHANGED overrun

\* Mutant: Shutdown without a deadline.
MutantShutdown ==
    /\ phase = "shutdown" /\ \A e \in HttpExports : ~Active(e)
    /\ phase' = "grpcstop" /\ UNCHANGED overrun

\* No more than five seconds for the HTTP exports in progress.
Shutdown ==
    /\ phase = "shutdown" /\ phase' = "grpcstop"
    /\ overrun' = (overrun \/ \E e \in HttpExports : Active(e))

\* The last checkpoint, printed if it fails, and the one in Close, which first
\* stops the ticker and waits for it.
MainCheckpoint ==
    /\ phase \in {"final", "close"} /\ sink.owner = None
    /\ ticker' = (ticker /\ phase = "final")
    /\ IF sink.since = 0
       THEN /\ phase' = IF phase = "final" THEN "stats" ELSE "file"
            /\ UNCHANGED <<sink, call>>
       ELSE /\ sink' = [sink EXCEPT !.owner = "main"] /\ call' = Calling
            /\ UNCHANGED phase
    /\ UNCHANGED <<daemonVars, custody, starter, keyFile, pub, export, stats, faults, overrun>>

Stop ==
    /\ \/ Shutdown \/ GracefulStop
       \/ phase = "stats" /\ phase' = "close" /\ UNCHANGED overrun
    /\ UNCHANGED <<daemonVars, custody, starter, keyFile, pub, export, sink, call, ticker, stats,
                   faults>>

\* A signal, or a server that stops serving: that ends the command, and its
\* handlers with it.
Told ==
    /\ phase = "serving"
    /\ \/ phase' = "shutdown" /\ UNCHANGED overrun
       \/ phase' = "close" /\ overrun' = TRUE
    /\ UNCHANGED <<daemonVars, custody, starter, keyFile, pub, export, sink, call, ticker, stats,
                   faults>>

CloseFile ==
    /\ phase = "file" /\ sink.owner = None
    /\ \/ /\ sink' = [sink EXCEPT !.flushed = Len(sink.log), !.open = FALSE]
          /\ UNCHANGED faults
       \/ faults < MaxFaults /\ faults' = faults + 1 /\ UNCHANGED sink
    /\ phase' = "exit"
    /\ UNCHANGED <<daemonVars, custody, starter, keyFile, pub, export, call, ticker, stats, overrun>>

\* The process is gone, and its connections: what the buffer holds may be lost.
Ended(kept) ==
    /\ phase' = "exited" /\ ticker' = FALSE /\ call' = NoCall
    /\ sink' = [sink EXCEPT !.log = SubSeq(@, 1, kept), !.owner = None, !.open = FALSE]
    /\ export' = [e \in Exports |-> IF Active(e) THEN [export[e] EXCEPT !.st = "cut"] ELSE export[e]]
    /\ slot' = IF call.st # "wait" THEN slot ELSE [slot EXCEPT ![call.slot].from = "gone"]
    /\ UNCHANGED <<now, daemon, bucket, granted, signed, strangers>>
    /\ UNCHANGED <<custody, starter, keyFile, pub, stats, faults>>

Exit == phase = "exit" /\ UNCHANGED overrun /\ \E n \in sink.flushed..Len(sink.log) : Ended(n)

Killed == Up /\ overrun' = TRUE /\ \E n \in sink.flushed..Len(sink.log) : Ended(n)

-----------------------------------------------------------------------------

Init ==
    /\ DaemonInit
    /\ custody \in {"file", "daemon"}
    /\ starter = [p \in Starts |-> "stat"]
    /\ keyFile \in {None, KeyOf("earlier")}
    /\ custody = "daemon" => keyFile = None
    /\ custody = "file" => daemon.key = CHOOSE k \in Keys : TRUE
    /\ pub = [p \in Starts |-> None]
    /\ phase = "start"
    /\ export = [e \in Exports |-> [st |-> "idle", n |-> 0, done |-> 0, failed |-> 0]]
    /\ sink = [log |-> <<>>, flushed |-> 0, since |-> 0, owner |-> None, cpErr |-> FALSE,
               open |-> TRUE]
    /\ call = NoCall /\ ticker = TRUE /\ faults = 0 /\ overrun = FALSE
    /\ stats = [spans |-> 0, recorded |-> 0, rejected |-> 0]

Handler(e) == WriteSpan(e) \/ Sync(e) \/ Answer(e)
Main == Stop \/ MainCheckpoint \/ CloseFile \/ Exit
SignCall == SignInProcess \/ DialDaemon \/ TakeAnswer \/ SignTimeout
Daemon == custody = "daemon" /\ DaemonNext /\ UNCHANGED watchVars

Next ==
    \/ Resolve
    \/ \E e \in Exports : Arrive(e) \/ Read(e) \/ Handler(e)
    \/ SignCall \/ TickerCheckpoint
    \/ Told \/ Main \/ Killed
    \/ Daemon

\* The steps of the process are taken, a deadline passes, a lock many wait for
\* comes to everyone (sync.Mutex hands it over after a millisecond), and a gRPC
\* client sends the export it began.  An HTTP client may stall.
Fairness ==
    /\ WF_vars(SignCall) /\ SF_vars(Main)
    /\ \A e \in Exports : SF_vars(Handler(e))
    /\ \A e \in GrpcExports : WF_vars(Read(e))

Spec == Init /\ [][Next]_vars /\ Fairness

-----------------------------------------------------------------------------
(* Properties *)

\* An exporter that is told its spans were recorded will not send them again: they
\* are in the file, whenever the process is killed, as is everything the summary
\* counts as recorded.
AckedRecorded ==
    /\ \A e \in Exports :
          export[e].st = "answered" =>
              Cardinality(RecsOf(sink.log, Len(sink.log), e)) >= export[e].n - export[e].failed
    /\ stats.recorded <= Cardinality(Recs(sink.log, Len(sink.log)))

\* The checkpoints in a log are signed by the one key that was loaded or learned at
\* the start, the one the command to verify the log names: not by another the
\* daemon was restarted with, nor a key another agw generated at the same time.
KeyPinned ==
    /\ \A k \in 1..Len(sink.log) : sink.log[k].kind = "cp" => sink.log[k].key = pub["watch"]
    /\ custody = "file" =>
          \A p \in Starts : starter[p] = "ready" => pub[p] = keyFile

\* A log that is closed in order ends in a checkpoint over all its records: only an
\* HTTP export that outlived the five seconds, a server that failed, a kill, a disk
\* or a signer that failed leaves records nothing anchors.
ClosedAnchored ==
    phase = "exited" /\ ~overrun /\ faults = 0 /\ ~sink.cpErr /\ sink.log # <<>>
        => Last(sink.log).kind = "cp"

\* Once told to stop, agw watch ends: neither an HTTP client that stalls nor a
\* signing daemon that does not answer keeps it.
WatchStops == phase = "shutdown" ~> phase = "exited"
=============================================================================
