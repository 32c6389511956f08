-------------------------------- MODULE AgwRun --------------------------------
(***************************************************************************)
(* The supervisor of `agw run` (cmd/agw/run.go): it starts the refusal     *)
(* watcher (netns/dropwatch_linux.go) and the kill switch, runs the        *)
(* workload, drains the watcher, pins the chain and exits.                 *)
(*                                                                         *)
(* The evidence sink is what EvidenceSink promises of it: a sequence of    *)
(* acknowledged records, here their number and how many of them the latest *)
(* checkpoint covers.  The proxy is one tunnel, whose closing is recorded  *)
(* by a goroutine of its own.  The firewall counts what it refuses, by     *)
(* category.                                                               *)
(***************************************************************************)
EXTENDS Naturals, FiniteSets

CONSTANTS
    Categories,    \* of refused packets
    Faults,        \* "nft": reading the counters may fail; "audit": Sink.Write
                   \* may; "slow": the drain may time out; "exit": the workload
                   \* may exit with a status other than 0
    MaxRefused     \* bound: packets refused in each category

ASSUME RunAssumptions ==
    /\ Faults \subseteq {"nft", "audit", "slow", "exit"}
    /\ MaxRefused \in Nat

VARIABLES
    \* The main goroutine.
    spc, status,
    \* The workload: its process, and whether cmd.Process is set.
    proc, process, tunnel,
    \* The firewall's counters and the watcher.
    refused, wpc, cancelled, baseline, previous, current, pending,
    \* The kill switch.
    revoked, kpc, report,
    \* The evidence; refusalSeq is the sequence number of the last refusal record.
    seq, signed, recorded, refusalSeq,
    \* Ghost: what has happened that the properties depend on.  The faults, and
    \* "baseline": the workload started before the watcher had read its baseline;
    \* "early": a revocation arrived before cmd.Process was set.
    happened

mainVars == <<spc, status>>
workVars == <<proc, process, tunnel>>
watchVars == <<wpc, baseline, previous, current, pending>>
killVars == <<revoked, kpc, report>>
chainVars == <<seq, signed>>
refusals == <<recorded, refusalSeq, happened>>
vars == <<mainVars, workVars, refused, cancelled, watchVars, killVars, chainVars, refusals>>

Zero == [c \in Categories |-> 0]

Init ==
    /\ spc = "setup" /\ status = 0
    /\ proc = "none" /\ process = FALSE /\ tunnel = "none"
    /\ refused = Zero /\ cancelled = FALSE
    /\ wpc = "spawned" /\ baseline = Zero /\ previous = Zero
    /\ current = Zero /\ pending = {}
    /\ revoked = FALSE /\ kpc = "idle" /\ report = "none"
    /\ seq = 0 /\ signed = 0 /\ recorded = Zero /\ refusalSeq = 0 /\ happened = {}

Exited == spc = "exited"
Gone == {"dead", "killed"}

Happens(fault) == fault \in Faults /\ happened' = happened \cup {fault}

\* Sink.Write, until sink.Close or the end of the process.
Write == seq' = seq + 1 /\ UNCHANGED <<signed, happened>>
WriteFails == Happens("audit") /\ UNCHANGED chainVars

-----------------------------------------------------------------------------
(* WatchRefusals *)

\* Refusals read once, before the loop.
ReadBaseline ==
    /\ ~Exited /\ wpc = "spawned"
    /\ baseline' = refused /\ previous' = refused /\ wpc' = "polling"
    /\ UNCHANGED <<mainVars, workVars, refused, cancelled, current, pending,
                   killVars, chainVars, refusals>>

\* emit: reads the counters, on a tick, or once more when cancelled.
Increased == {c \in Categories : refused[c] > previous[c]}

Emit ==
    /\ ~Exited /\ wpc = "polling"
    /\ current' = refused /\ pending' = Increased
    /\ wpc' \in {"tick"} \cup (IF cancelled THEN {"final"} ELSE {})
    /\ UNCHANGED <<mainVars, workVars, refused, cancelled, baseline, previous,
                   killVars, chainVars, refusals>>

\* The counters cannot be read: the watcher ends.
ReadFails ==
    /\ ~Exited /\ Happens("nft") /\ wpc \in {"spawned", "polling"}
    /\ wpc' = "stopped"
    /\ UNCHANGED <<mainVars, workVars, refused, cancelled, baseline, previous, current,
                   pending, killVars, chainVars, recorded, refusalSeq>>

\* The handler: one record for each category that increased.  A record that
\* cannot be written is only reported to the operator.
Handle(c) ==
    /\ ~Exited /\ wpc \in {"tick", "final"} /\ c \in pending
    /\ pending' = pending \ {c}
    /\ \/ /\ Write /\ refusalSeq' = seq + 1
          /\ recorded' = [recorded EXCEPT ![c] = @ + current[c] - previous[c]]
       \/ WriteFails /\ UNCHANGED <<recorded, refusalSeq>>
    /\ UNCHANGED <<mainVars, workVars, refused, cancelled, wpc, baseline, previous,
                   current, killVars>>

\* Mutant: the snapshot is not kept.
MutantEmitted ==
    /\ ~Exited /\ wpc \in {"tick", "final"} /\ pending = {}
    /\ wpc' = IF wpc = "final" THEN "done" ELSE "polling"
    /\ UNCHANGED <<mainVars, workVars, refused, cancelled, baseline, previous, current,
                   pending, killVars, chainVars, refusals>>

Emitted ==
    /\ ~Exited /\ wpc \in {"tick", "final"} /\ pending = {}
    /\ previous' = current
    /\ wpc' = IF wpc = "final" THEN "done" ELSE "polling"
    /\ UNCHANGED <<mainVars, workVars, refused, cancelled, baseline, current, pending,
                   killVars, chainVars, refusals>>

-----------------------------------------------------------------------------
(* The workload *)

\* The firewall refuses a packet and counts it.
Refuse(c) ==
    /\ ~Exited /\ proc = "running" /\ refused[c] < MaxRefused
    /\ refused' = [refused EXCEPT ![c] = @ + 1]
    /\ UNCHANGED <<mainVars, workVars, cancelled, watchVars, killVars, chainVars, refusals>>

\* A tunnel through the proxy, recorded before it is opened.
OpenTunnel ==
    /\ ~Exited /\ proc = "running" /\ tunnel = "none" /\ ~revoked
    /\ tunnel' = "open" /\ Write
    /\ UNCHANGED <<mainVars, proc, process, refused, cancelled, watchVars, killVars, recorded,
                   refusalSeq>>

\* Its goroutine records the end whenever it gets there.
CloseTunnel ==
    /\ ~Exited /\ tunnel = "open"
    /\ tunnel' = "closed" /\ (Write \/ WriteFails)
    /\ UNCHANGED <<mainVars, proc, process, refused, cancelled, watchVars, killVars, recorded,
                   refusalSeq>>

\* The workload ends by itself, or is killed by a signal to agw.
WorkloadEnds ==
    /\ proc = "running" /\ proc' = "dead"
    /\ UNCHANGED <<mainVars, process, tunnel, refused, cancelled, watchVars, killVars,
                   chainVars, refusals>>

-----------------------------------------------------------------------------
(* The kill switch: POST /revoke with run.go's onRevoke *)

Revoke ==
    /\ spc \in {"admin", "forked", "started", "drain", "checkpoint", "exiting"}
    /\ kpc = "idle" /\ revoked' = TRUE /\ kpc' = "kill"
    /\ happened' = IF process THEN happened ELSE happened \cup {"early"}
    /\ UNCHANGED <<mainVars, workVars, refused, cancelled, watchVars, report, chainVars,
                   recorded, refusalSeq>>

\* Mutant: only a graceful signal is sent.
MutantkillGroup ==
    /\ ~Exited /\ kpc = "kill" /\ kpc' = "record" /\ report' = "killed"
    /\ UNCHANGED <<mainVars, workVars, refused, cancelled, watchVars, revoked, chainVars,
                   refusals>>

\* killGroup: nil when there is no process yet; an error when the group is gone.
killGroup ==
    /\ ~Exited /\ kpc = "kill" /\ kpc' = "record"
    /\ \/ ~process /\ report' = "killed" /\ UNCHANGED proc
       \/ process /\ proc = "running" /\ report' = "killed" /\ proc' = "killed"
       \/ process /\ proc \in Gone /\ report' = "kill_failed" /\ UNCHANGED proc
    /\ UNCHANGED <<mainVars, process, tunnel, refused, cancelled, watchVars, revoked,
                   chainVars, refusals>>

RecordRevoked ==
    /\ ~Exited /\ kpc = "record" /\ kpc' = "answered"
    /\ Write \/ WriteFails
    /\ UNCHANGED <<mainVars, workVars, refused, cancelled, watchVars, revoked, report,
                   recorded, refusalSeq>>

-----------------------------------------------------------------------------
(* runRun *)

StartAdmin ==
    /\ spc = "setup" /\ spc' = "admin"
    /\ UNCHANGED <<status, workVars, refused, cancelled, watchVars, killVars, chainVars,
                   refusals>>

\* Its environment, the command or the admin socket is refused.
SetupFails ==
    /\ spc = "setup" /\ spc' = "returning" /\ cancelled' = TRUE
    /\ UNCHANGED <<status, workVars, refused, watchVars, killVars, chainVars, refusals>>

\* cmd.Start: the process runs before cmd.Process is set.
Fork ==
    /\ spc = "admin" /\ spc' = "forked" /\ proc' = "running"
    /\ happened' = IF wpc # "spawned" THEN happened ELSE happened \cup {"baseline"}
    /\ UNCHANGED <<status, process, tunnel, refused, cancelled, watchVars, killVars,
                   chainVars, recorded, refusalSeq>>

StartFails ==
    /\ spc = "admin" /\ spc' = "drain" /\ cancelled' = TRUE
    /\ UNCHANGED <<status, workVars, refused, watchVars, killVars, chainVars, refusals>>

StartReturns ==
    /\ spc = "forked" /\ spc' = "started" /\ process' = TRUE
    /\ UNCHANGED <<status, proc, tunnel, refused, cancelled, watchVars, killVars,
                   chainVars, refusals>>

\* cmd.Run returns and the watcher is cancelled.
RunReturns ==
    /\ spc = "started" /\ proc \in Gone /\ spc' = "drain" /\ cancelled' = TRUE
    /\ \/ status' = 0 /\ proc = "dead"
       \/ status' = 1 /\ (proc = "killed" \/ "exit" \in Faults)
    /\ UNCHANGED <<workVars, refused, watchVars, killVars, chainVars, refusals>>

\* The watcher is done, or five seconds have passed.
Drain ==
    /\ spc = "drain" /\ spc' = "checkpoint"
    /\ \/ wpc \in {"done", "stopped"} /\ UNCHANGED happened
       \/ wpc \notin {"done", "stopped"} /\ Happens("slow")
    /\ UNCHANGED <<status, workVars, refused, cancelled, watchVars, killVars, chainVars,
                   recorded, refusalSeq>>

\* The final checkpoint; that it failed is only reported.
Checkpoint ==
    /\ spc = "checkpoint" /\ spc' = "exiting" /\ UNCHANGED seq
    /\ (signed' = seq /\ UNCHANGED happened) \/ (Happens("audit") /\ UNCHANGED signed)
    /\ UNCHANGED <<status, workVars, refused, cancelled, watchVars, killVars, recorded,
                   refusalSeq>>

\* os.Exit, or a return through the deferred calls, sink.Close among them,
\* which checkpoints again.
Exit ==
    /\ spc \in {"exiting", "returning"} /\ spc' = "exited"
    /\ signed' = (IF status = 0 THEN seq ELSE signed) /\ UNCHANGED seq
    /\ UNCHANGED <<status, workVars, refused, cancelled, watchVars, killVars, refusals>>

Watcher ==
    \/ ReadBaseline \/ Emit \/ ReadFails \/ Emitted
    \/ \E c \in Categories : Handle(c)

Workload ==
    OpenTunnel \/ CloseTunnel \/ WorkloadEnds \/ \E c \in Categories : Refuse(c)

KillSwitch == Revoke \/ killGroup \/ RecordRevoked

Main ==
    \/ StartAdmin \/ SetupFails \/ Fork \/ StartFails \/ StartReturns \/ RunReturns
    \/ Drain \/ Checkpoint \/ Exit

Next == Watcher \/ Workload \/ KillSwitch \/ Main

Spec == Init /\ [][Next]_vars

(***************************************************************************)
(* Fairness: the goroutines of agw keep running.  The workload owes        *)
(* nothing.  The ticker alone does not hold up the final read: once the    *)
(* context is cancelled, select takes that case sooner or later.           *)
(***************************************************************************)
Fairness ==
    /\ WF_vars(Main)
    /\ WF_vars(Watcher)
    /\ SF_vars(Emit /\ wpc' = "final")
    /\ WF_vars(killGroup) /\ WF_vars(RecordRevoked)

FairSpec == Spec /\ Fairness

-----------------------------------------------------------------------------
(* Properties *)

Counts == [Categories -> 0..MaxRefused]

TypeOK ==
    /\ spc \in {"setup", "admin", "forked", "started", "drain", "checkpoint",
                "exiting", "returning", "exited"}
    /\ status \in {0, 1}
    /\ proc \in {"none", "running"} \cup Gone /\ process \in BOOLEAN
    /\ tunnel \in {"none", "open", "closed"}
    /\ wpc \in {"spawned", "polling", "tick", "final", "done", "stopped"}
    /\ refused \in Counts /\ baseline \in Counts /\ previous \in Counts
    /\ current \in Counts /\ pending \subseteq Categories /\ cancelled \in BOOLEAN
    /\ revoked \in BOOLEAN /\ kpc \in {"idle", "kill", "record", "answered"}
    /\ report \in {"none", "killed", "kill_failed"}
    /\ seq \in Nat /\ signed \in 0..seq /\ refusalSeq \in 0..seq
    /\ recorded \in [Categories -> Nat]
    /\ happened \subseteq Faults \cup {"baseline", "early"}

\* What the evidence says was refused in a category is at most what the firewall
\* counted since the baseline, and exactly that up to the last snapshot when every
\* write succeeded (WatchRefusals).
RecordedOnce ==
    \A c \in Categories :
        /\ recorded[c] <= refused[c] - baseline[c]
        /\ /\ "audit" \notin happened /\ c \notin pending
           /\ wpc \in {"polling", "done", "stopped"}
           => recorded[c] = previous[c] - baseline[c]

\* When agw exits, every refusal of the workload is in the evidence, and under
\* a checkpoint, whatever the workload's status, unless the counters could not be
\* read, the log failed, the drain timed out or the workload started before the
\* baseline was read (run.go: "so refusals in the last interval are in the chain
\* rather than lost").
NoRefusalLost ==
    Exited /\ happened \cap {"nft", "audit", "slow", "baseline"} = {} =>
        recorded = refused /\ refusalSeq <= signed

\* No refusal is recorded twice, and none is lost: at any point of the watcher's
\* polls, and when agw exits.
RefusalsAccounted == TypeOK /\ RecordedOnce /\ NoRefusalLost

\* When the kill switch has reported the workload killed, it is not running
\* (run.go: "and then kills the workload's whole process group").
KilledIsDead ==
    kpc = "answered" /\ report = "killed" => proc # "running"

\* A workload that is suspended is dead when the operator is told so, agw exits
\* once its workload is dead, and the kill switch alone makes that happen, even if
\* the workload never ends by itself; all of a revocation that arrives once
\* cmd.Process is set.
SuspendEnds ==
    /\ []("early" \notin happened => KilledIsDead)
    /\ (proc \in Gone) ~> Exited
    /\ (revoked /\ "early" \notin happened) ~> Exited
=============================================================================
