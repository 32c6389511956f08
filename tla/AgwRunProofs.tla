----------------------------- MODULE AgwRunProofs -----------------------------
(***************************************************************************)
(* Proofs about AgwRun for any categories of refused packets, any number   *)
(* of them and any faults: what the evidence says was refused is what the  *)
(* firewall refused, and a workload reported killed is dead.               *)
(***************************************************************************)
EXTENDS AgwRun, TLAPS

-----------------------------------------------------------------------------
(* The inductive invariant *)

Emitting == wpc \in {"tick", "final"}

\* The watcher's snapshots, in the order it took them; a category is pending when
\* the snapshot being handled is above the one before.
Snapshots ==
    /\ \A c \in Categories :
        /\ baseline[c] <= previous[c] /\ previous[c] <= refused[c]
        /\ Emitting => previous[c] <= current[c] /\ current[c] <= refused[c]
        /\ c \in pending => current[c] > previous[c]
    /\ pending # {} => Emitting
    /\ wpc = "spawned" => baseline = Zero /\ previous = Zero

\* Up to which snapshot the refusals of c are in the evidence.
Reached(c) == IF Emitting /\ c \notin pending THEN current[c] ELSE previous[c]

\* They are recorded at most once, and once if every write succeeded.
Recorded ==
    \A c \in Categories :
        /\ recorded[c] <= Reached(c) - baseline[c]
        /\ "audit" \notin happened => recorded[c] = Reached(c) - baseline[c]

\* The workload starts once, after the setup; before it nothing is refused; while
\* the watcher is cancelled it no longer runs.
Stage ==
    /\ spc \in {"setup", "admin", "returning"} => proc = "none"
    /\ spc \in {"setup", "admin", "forked"} => ~process
    /\ proc = "running" => ~cancelled /\ ~Exited
    /\ cancelled <=> spc \in {"drain", "checkpoint", "exiting", "returning", "exited"}
    /\ proc = "none" => refused = Zero /\ refusalSeq = 0
    /\ proc # "none" /\ "baseline" \notin happened => wpc # "spawned"
    /\ "baseline" \notin happened => baseline = Zero
    /\ spc \in {"setup", "returning"} => status = 0

\* The final read sees everything that was refused, and the drain waits for it.
Drained ==
    /\ wpc = "final" => cancelled /\ current = refused
    /\ wpc = "done" => cancelled /\ previous = refused
    /\ wpc = "stopped" => "nft" \in happened
    /\ spc \in {"checkpoint", "exiting"} /\ "slow" \notin happened =>
        wpc \in {"done", "stopped"}
    /\ spc = "exiting" /\ happened \cap {"nft", "audit", "slow"} = {} => refusalSeq <= signed

\* A revocation that finds cmd.Process set kills what it finds running.
Killed ==
    "early" \notin happened =>
        /\ kpc # "idle" => process
        /\ kpc \in {"record", "answered"} => proc # "running"

RunInv == TypeOK /\ Snapshots /\ Recorded /\ Stage /\ Drained /\ NoRefusalLost /\ Killed
-----------------------------------------------------------------------------
(* Each part is kept by each step *)

\* The types are kept: a snapshot is never below the one before it, so what a
\* record adds is a natural number.
LEMMA TypeStep ==
    ASSUME RunInv, Next
    PROVE  TypeOK'
  <1> USE DEF RunInv, TypeOK, Next, Watcher, Workload, KillSwitch, Main, ReadBaseline, Emit,
         ReadFails, Emitted, Handle, Refuse, OpenTunnel, CloseTunnel, WorkloadEnds, Revoke,
         killGroup, RecordRevoked, StartAdmin, SetupFails, Fork, StartFails, StartReturns,
         RunReturns, Drain, Checkpoint, Exit, mainVars, workVars, watchVars, killVars,
         chainVars, refusals
  <1>1. /\ spc' \in {"setup", "admin", "forked", "started", "drain", "checkpoint",
                     "exiting", "returning", "exited"}
        /\ status' \in {0, 1}
    BY Zenon
  <1>2. /\ proc' \in {"none", "running"} \cup Gone /\ process' \in BOOLEAN
        /\ tunnel' \in {"none", "open", "closed"}
    BY DEF Gone
  <1>3. /\ wpc' \in {"spawned", "polling", "tick", "final", "done", "stopped"}
        /\ pending' \subseteq Categories /\ cancelled' \in BOOLEAN
    BY DEF Increased
  <1>4. /\ refused' \in Counts /\ baseline' \in Counts /\ previous' \in Counts
        /\ current' \in Counts
    BY RunAssumptions DEF Counts
  <1>5. /\ revoked' \in BOOLEAN /\ kpc' \in {"idle", "kill", "record", "answered"}
        /\ report' \in {"none", "killed", "kill_failed"}
    OBVIOUS
  <1>6. seq' \in Nat /\ signed' \in 0..seq' /\ refusalSeq' \in 0..seq'
    BY DEF Write, WriteFails
  <1>7. recorded' \in [Categories -> Nat]
    BY DEF Counts, Snapshots, Emitting
  <1>8. happened' \subseteq Faults \cup {"baseline", "early"}
    BY DEF Write, WriteFails, Happens
  <1> QED BY <1>1, <1>2, <1>3, <1>4, <1>5, <1>6, <1>7, <1>8 DEF TypeOK

\* A snapshot is at least the one before it, and at most what has been refused.
LEMMA SnapshotsStep ==
    ASSUME RunInv, Next
    PROVE  Snapshots'
  <1> USE RunAssumptions DEF RunInv, TypeOK, Counts, Snapshots, Emitting, Zero, Exited,
        mainVars, workVars, watchVars, killVars, chainVars, refusals
  <1>1. CASE ReadBaseline
    BY <1>1 DEF ReadBaseline
  <1>2. CASE Emit
    BY <1>2 DEF Emit, Increased
  <1>3. CASE ReadFails
    BY <1>3 DEF ReadFails, Happens
  <1>4. CASE \E c \in Categories : Handle(c)
    BY <1>4 DEF Handle, Write, WriteFails, Happens
  <1>5. CASE Emitted
    BY <1>5 DEF Emitted
  <1>6. CASE \E c \in Categories : Refuse(c)
    BY <1>6 DEF Refuse
  <1>7. CASE OpenTunnel \/ CloseTunnel
    BY <1>7 DEF OpenTunnel, CloseTunnel, Write, WriteFails, Happens
  <1>8. CASE WorkloadEnds
    BY <1>8 DEF WorkloadEnds, Gone
  <1>9. CASE Revoke
    BY <1>9 DEF Revoke
  <1>10. CASE killGroup
    BY <1>10 DEF killGroup, Gone
  <1>11. CASE RecordRevoked
    BY <1>11 DEF RecordRevoked, Write, WriteFails, Happens
  <1>12. CASE StartAdmin \/ SetupFails \/ StartFails \/ StartReturns
    BY <1>12 DEF StartAdmin, SetupFails, StartFails, StartReturns
  <1>13. CASE Fork
    BY <1>13 DEF Fork
  <1>14. CASE RunReturns
    BY <1>14 DEF RunReturns, Gone
  <1>15. CASE Drain
    BY <1>15 DEF Drain, Happens
  <1>16. CASE Checkpoint
    BY <1>16 DEF Checkpoint, Happens
  <1>17. CASE Exit
    BY <1>17 DEF Exit
  <1> QED
    BY <1>1, <1>2, <1>3, <1>4, <1>5, <1>6, <1>7, <1>8, <1>9, <1>10, <1>11, <1>12,
       <1>13, <1>14, <1>15, <1>16, <1>17
      DEF Next, Watcher, Workload, KillSwitch, Main

\* Handling a category moves what is recorded of it from one snapshot to the next;
\* a write that fails leaves it behind for good.
LEMMA RecordedStep ==
    ASSUME RunInv, Next
    PROVE  Recorded'
  <1> USE RunAssumptions DEF RunInv, TypeOK, Counts, Snapshots, Recorded, Reached, Emitting,
        Zero, Exited, mainVars, workVars, watchVars, killVars, chainVars, refusals
  <1>1. CASE ReadBaseline
    BY <1>1 DEF ReadBaseline
  <1>2. CASE Emit
    BY <1>2 DEF Emit, Increased
  <1>3. CASE ReadFails
    BY <1>3 DEF ReadFails, Happens
  <1>4. CASE \E c \in Categories : Handle(c)
    BY <1>4 DEF Handle, Write, WriteFails, Happens
  <1>5. CASE Emitted
    BY <1>5 DEF Emitted
  <1>6. CASE \E c \in Categories : Refuse(c)
    BY <1>6 DEF Refuse
  <1>7. CASE OpenTunnel \/ CloseTunnel
    BY <1>7 DEF OpenTunnel, CloseTunnel, Write, WriteFails, Happens
  <1>8. CASE WorkloadEnds
    BY <1>8 DEF WorkloadEnds, Gone
  <1>9. CASE Revoke
    BY <1>9 DEF Revoke
  <1>10. CASE killGroup
    BY <1>10 DEF killGroup, Gone
  <1>11. CASE RecordRevoked
    BY <1>11 DEF RecordRevoked, Write, WriteFails, Happens
  <1>12. CASE StartAdmin \/ SetupFails \/ StartFails \/ StartReturns
    BY <1>12 DEF StartAdmin, SetupFails, StartFails, StartReturns
  <1>13. CASE Fork
    BY <1>13 DEF Fork
  <1>14. CASE RunReturns
    BY <1>14 DEF RunReturns, Gone
  <1>15. CASE Drain
    BY <1>15 DEF Drain, Happens
  <1>16. CASE Checkpoint
    BY <1>16 DEF Checkpoint, Happens
  <1>17. CASE Exit
    BY <1>17 DEF Exit
  <1> QED
    BY <1>1, <1>2, <1>3, <1>4, <1>5, <1>6, <1>7, <1>8, <1>9, <1>10, <1>11, <1>12,
       <1>13, <1>14, <1>15, <1>16, <1>17
      DEF Next, Watcher, Workload, KillSwitch, Main

\* Nothing is refused before the workload starts or once the watcher is cancelled.
LEMMA StageStep ==
    ASSUME RunInv, Next
    PROVE  Stage'
  <1> USE RunAssumptions DEF RunInv, TypeOK, Counts, Snapshots, Stage, Emitting, Zero, Exited,
        mainVars, workVars, watchVars, killVars, chainVars, refusals
  <1>1. CASE ReadBaseline
    BY <1>1 DEF ReadBaseline
  <1>2. CASE Emit
    BY <1>2 DEF Emit, Increased
  <1>3. CASE ReadFails
    BY <1>3 DEF ReadFails, Happens
  <1>4. CASE \E c \in Categories : Handle(c)
    BY <1>4 DEF Handle, Write, WriteFails, Happens
  <1>5. CASE Emitted
    BY <1>5 DEF Emitted
  <1>6. CASE \E c \in Categories : Refuse(c)
    BY <1>6 DEF Refuse
  <1>7. CASE OpenTunnel \/ CloseTunnel
    BY <1>7 DEF OpenTunnel, CloseTunnel, Write, WriteFails, Happens
  <1>8. CASE WorkloadEnds
    BY <1>8 DEF WorkloadEnds, Gone
  <1>9. CASE Revoke
    BY <1>9 DEF Revoke
  <1>10. CASE killGroup
    BY <1>10 DEF killGroup, Gone
  <1>11. CASE RecordRevoked
    BY <1>11 DEF RecordRevoked, Write, WriteFails, Happens
  <1>12. CASE StartAdmin \/ SetupFails \/ StartFails \/ StartReturns
    BY <1>12 DEF StartAdmin, SetupFails, StartFails, StartReturns
  <1>13. CASE Fork
    BY <1>13 DEF Fork
  <1>14. CASE RunReturns
    BY <1>14 DEF RunReturns, Gone
  <1>15. CASE Drain
    BY <1>15 DEF Drain, Happens
  <1>16. CASE Checkpoint
    BY <1>16 DEF Checkpoint, Happens
  <1>17. CASE Exit
    BY <1>17 DEF Exit
  <1> QED
    BY <1>1, <1>2, <1>3, <1>4, <1>5, <1>6, <1>7, <1>8, <1>9, <1>10, <1>11, <1>12,
       <1>13, <1>14, <1>15, <1>16, <1>17
      DEF Next, Watcher, Workload, KillSwitch, Main

\* The last snapshot is taken after the cancellation, so it is the last word, and
\* the checkpoint comes after its records.
LEMMA DrainedStep ==
    ASSUME RunInv, Next
    PROVE  Drained'
  <1> USE RunAssumptions DEF RunInv, TypeOK, Counts, Snapshots, Stage, Drained, Emitting,
        Zero, Exited, mainVars, workVars, watchVars, killVars, chainVars, refusals
  <1>1. CASE ReadBaseline
    BY <1>1 DEF ReadBaseline
  <1>2. CASE Emit
    BY <1>2 DEF Emit, Increased
  <1>3. CASE ReadFails
    BY <1>3 DEF ReadFails, Happens
  <1>4. CASE \E c \in Categories : Handle(c)
    BY <1>4 DEF Handle, Write, WriteFails, Happens
  <1>5. CASE Emitted
    BY <1>5 DEF Emitted
  <1>6. CASE \E c \in Categories : Refuse(c)
    BY <1>6 DEF Refuse
  <1>7. CASE OpenTunnel \/ CloseTunnel
    BY <1>7 DEF OpenTunnel, CloseTunnel, Write, WriteFails, Happens
  <1>8. CASE WorkloadEnds
    BY <1>8 DEF WorkloadEnds, Gone
  <1>9. CASE Revoke
    BY <1>9 DEF Revoke
  <1>10. CASE killGroup
    BY <1>10 DEF killGroup, Gone
  <1>11. CASE RecordRevoked
    BY <1>11 DEF RecordRevoked, Write, WriteFails, Happens
  <1>12. CASE StartAdmin \/ SetupFails \/ StartFails \/ StartReturns
    BY <1>12 DEF StartAdmin, SetupFails, StartFails, StartReturns
  <1>13. CASE Fork
    BY <1>13 DEF Fork
  <1>14. CASE RunReturns
    BY <1>14 DEF RunReturns, Gone
  <1>15. CASE Drain
    BY <1>15 DEF Drain, Happens
  <1>16. CASE Checkpoint
    BY <1>16 DEF Checkpoint, Happens
  <1>17. CASE Exit
    BY <1>17 DEF Exit
  <1> QED
    BY <1>1, <1>2, <1>3, <1>4, <1>5, <1>6, <1>7, <1>8, <1>9, <1>10, <1>11, <1>12,
       <1>13, <1>14, <1>15, <1>16, <1>17
      DEF Next, Watcher, Workload, KillSwitch, Main

\* Whatever way agw exits, nothing is missing.
LEMMA LostStep ==
    ASSUME RunInv, Next
    PROVE  NoRefusalLost'
  <1> USE RunAssumptions DEF RunInv, TypeOK, Counts, Snapshots, Recorded, Reached, Stage,
        Drained, NoRefusalLost, Emitting, Zero, Exited,
        mainVars, workVars, watchVars, killVars, chainVars, refusals
  <1>1. CASE ReadBaseline
    BY <1>1 DEF ReadBaseline
  <1>2. CASE Emit
    BY <1>2 DEF Emit, Increased
  <1>3. CASE ReadFails
    BY <1>3 DEF ReadFails, Happens
  <1>4. CASE \E c \in Categories : Handle(c)
    BY <1>4 DEF Handle, Write, WriteFails, Happens
  <1>5. CASE Emitted
    BY <1>5 DEF Emitted
  <1>6. CASE \E c \in Categories : Refuse(c)
    BY <1>6 DEF Refuse
  <1>7. CASE OpenTunnel \/ CloseTunnel
    BY <1>7 DEF OpenTunnel, CloseTunnel, Write, WriteFails, Happens
  <1>8. CASE WorkloadEnds
    BY <1>8 DEF WorkloadEnds, Gone
  <1>9. CASE Revoke
    BY <1>9 DEF Revoke
  <1>10. CASE killGroup
    BY <1>10 DEF killGroup, Gone
  <1>11. CASE RecordRevoked
    BY <1>11 DEF RecordRevoked, Write, WriteFails, Happens
  <1>12. CASE StartAdmin \/ SetupFails \/ StartFails \/ StartReturns
    BY <1>12 DEF StartAdmin, SetupFails, StartFails, StartReturns
  <1>13. CASE Fork
    BY <1>13 DEF Fork
  <1>14. CASE RunReturns
    BY <1>14 DEF RunReturns, Gone
  <1>15. CASE Drain
    BY <1>15 DEF Drain, Happens
  <1>16. CASE Checkpoint
    BY <1>16 DEF Checkpoint, Happens
  <1>17. CASE Exit
    BY <1>17 DEF Exit
  <1> QED
    BY <1>1, <1>2, <1>3, <1>4, <1>5, <1>6, <1>7, <1>8, <1>9, <1>10, <1>11, <1>12,
       <1>13, <1>14, <1>15, <1>16, <1>17
      DEF Next, Watcher, Workload, KillSwitch, Main

\* After killGroup the workload is gone, and cmd.Start is never called again.
LEMMA KilledStep ==
    ASSUME RunInv, Next
    PROVE  Killed'
  <1> USE RunAssumptions DEF RunInv, TypeOK, Stage, Killed, Exited,
        mainVars, workVars, watchVars, killVars, chainVars, refusals
  <1>1. CASE ReadBaseline
    BY <1>1 DEF ReadBaseline
  <1>2. CASE Emit
    BY <1>2 DEF Emit, Increased
  <1>3. CASE ReadFails
    BY <1>3 DEF ReadFails, Happens
  <1>4. CASE \E c \in Categories : Handle(c)
    BY <1>4 DEF Handle, Write, WriteFails, Happens
  <1>5. CASE Emitted
    BY <1>5 DEF Emitted
  <1>6. CASE \E c \in Categories : Refuse(c)
    BY <1>6 DEF Refuse
  <1>7. CASE OpenTunnel \/ CloseTunnel
    BY <1>7 DEF OpenTunnel, CloseTunnel, Write, WriteFails, Happens
  <1>8. CASE WorkloadEnds
    BY <1>8 DEF WorkloadEnds, Gone
  <1>9. CASE Revoke
    BY <1>9 DEF Revoke
  <1>10. CASE killGroup
    BY <1>10 DEF killGroup, Gone
  <1>11. CASE RecordRevoked
    BY <1>11 DEF RecordRevoked, Write, WriteFails, Happens
  <1>12. CASE StartAdmin \/ SetupFails \/ StartFails \/ StartReturns
    BY <1>12 DEF StartAdmin, SetupFails, StartFails, StartReturns
  <1>13. CASE Fork
    BY <1>13 DEF Fork
  <1>14. CASE RunReturns
    BY <1>14 DEF RunReturns, Gone
  <1>15. CASE Drain
    BY <1>15 DEF Drain, Happens
  <1>16. CASE Checkpoint
    BY <1>16 DEF Checkpoint, Happens
  <1>17. CASE Exit
    BY <1>17 DEF Exit
  <1> QED
    BY <1>1, <1>2, <1>3, <1>4, <1>5, <1>6, <1>7, <1>8, <1>9, <1>10, <1>11, <1>12,
       <1>13, <1>14, <1>15, <1>16, <1>17
      DEF Next, Watcher, Workload, KillSwitch, Main

-----------------------------------------------------------------------------
(* Theorems *)

\* Nothing has happened at the start.
LEMMA RunInitOK ==
    ASSUME Init
    PROVE  RunInv
  <1>1. Zero \in Counts /\ Zero \in [Categories -> Nat]
    BY RunAssumptions DEF Zero, Counts
  <1>2. TypeOK
    <2>1. signed \in 0..seq /\ refusalSeq \in 0..seq /\ seq \in Nat /\ status \in {0, 1}
      BY DEF Init
    <2> QED BY <1>1, <2>1 DEF Init, TypeOK
  <1>3. Snapshots /\ Recorded
    BY DEF Init, Snapshots, Recorded, Reached, Emitting, Zero
  <1>4. Stage /\ Drained /\ NoRefusalLost /\ Killed
    BY DEF Init, Stage, Drained, NoRefusalLost, Killed, Exited
  <1> QED BY <1>2, <1>3, <1>4 DEF RunInv

\* The inductive invariant of a run: what the watcher has seen and recorded, and
\* where the run is.
THEOREM RunInvHolds == Spec => []RunInv
  <1>1. RunInv /\ UNCHANGED vars => RunInv'
    BY DEF vars, mainVars, workVars, watchVars, killVars, chainVars, refusals, RunInv,
       TypeOK, Counts, Snapshots, Recorded, Reached, Stage, Drained, NoRefusalLost, Killed,
       Emitting, Exited
  <1>2. RunInv /\ Next => RunInv'
    BY TypeStep, SnapshotsStep, RecordedStep, StageStep, DrainedStep, LostStep, KilledStep
    DEF RunInv
  <1> QED BY <1>1, <1>2, RunInitOK, PTL DEF Spec

\* No refusal is recorded twice, and when agw exits every refusal of the workload is
\* in the evidence and under a checkpoint, unless the counters or the log failed, the
\* drain timed out or the workload outran the baseline (WatchRefusals, runRun).
THEOREM RefusalsAccountedHolds == Spec => []RefusalsAccounted
  <1>1. RunInv => RecordedOnce
    <2> SUFFICES ASSUME RunInv, NEW c \in Categories
                 PROVE  /\ recorded[c] <= refused[c] - baseline[c]
                        /\ /\ "audit" \notin happened /\ c \notin pending
                           /\ wpc \in {"polling", "done", "stopped"}
                           => recorded[c] = previous[c] - baseline[c]
      BY DEF RecordedOnce
    <2> QED BY DEF RunInv, TypeOK, Counts, Snapshots, Recorded, Reached, Emitting
  <1>2. RunInv => RefusalsAccounted
    BY <1>1 DEF RunInv, RefusalsAccounted
  <1> QED BY <1>2, RunInvHolds, PTL

\* When `agw suspend` is told that the workload was killed, the workload is not
\* running, for a revocation that arrives once cmd.Process is set (killGroup).
THEOREM SuspendedIsDead == Spec => []("early" \notin happened => KilledIsDead)
  <1>1. RunInv => ("early" \notin happened => KilledIsDead)
    BY DEF RunInv, Killed, KilledIsDead
  <1> QED BY <1>1, RunInvHolds, PTL

\* An account that is in the evidence stays there: no step lowers what is recorded
\* of a category, or takes a signature back (WatchRefusals, Sink).
THEOREM EvidenceOnlyGrows ==
    Spec => [][/\ \A c \in Categories : recorded'[c] >= recorded[c]
               /\ seq' >= seq /\ signed' >= signed]_vars
  <1>1. ASSUME RunInv, Next
        PROVE  /\ \A c \in Categories : recorded'[c] >= recorded[c]
               /\ seq' >= seq /\ signed' >= signed
    <2> USE DEF RunInv, TypeOK, Next, Watcher, Workload, KillSwitch, Main, ReadBaseline, Emit,
          ReadFails, Emitted, Handle, Refuse, OpenTunnel, CloseTunnel, WorkloadEnds, Revoke,
          killGroup, RecordRevoked, StartAdmin, SetupFails, Fork, StartFails, StartReturns,
          RunReturns, Drain, Checkpoint, Exit, mainVars, workVars, watchVars, killVars,
          chainVars, refusals
    <2>1. \A c \in Categories : recorded'[c] >= recorded[c]
      BY <1>1 DEF Counts, Snapshots, Emitting
    <2>2. seq' >= seq /\ signed' >= signed
      BY <1>1 DEF Write, WriteFails
    <2> QED BY <2>1, <2>2
  <1> QED BY <1>1, RunInvHolds, PTL DEF Spec
=============================================================================
