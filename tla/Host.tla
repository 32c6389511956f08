--------------------------------- MODULE Host ---------------------------------
(***************************************************************************)
(* Several agw processes on one host (cmd/agw/run.go, cmd/agw/proxy.go).   *)
(* `agw run` makes its sandbox, opens its kill switch, runs the workload,  *)
(* and takes both down in the opposite order, unless it leaves through     *)
(* os.Exit or is killed.  `agw proxy` has a kill switch alone.  They share *)
(* the names of the kernel objects and, by default, the path of the        *)
(* socket.                                                                 *)
(***************************************************************************)
EXTENDS Sandbox, AdminSocket

ASSUME HostAssumptions == Runs \subseteq Procs

Proxies == Procs \ Runs

vars == <<sandboxVars, adminVars>>

Init == SandboxInit /\ AdminInit

AdminDown(p) == apc[p] \in {"idle", "inUse", "failed", "exited"}

-----------------------------------------------------------------------------
(* agw run *)

Creates(r) == Create(r) /\ UNCHANGED adminVars

\* The kill switch opens once the sandbox is there.
OpensAdmin(r) == pc[r] = "ready" /\ startAdmin(r) /\ UNCHANGED sandboxVars

Starts(r) == apc[r] = "serving" /\ Start(r) /\ UNCHANGED adminVars

\* Both os.Exit.
CannotStart(r) == apc[r] = "serving" /\ StartFails(r) /\ Abandon(r)
ExitsAtOnce(r) == WorkloadExits(r, "exited") /\ Abandon(r)

\* The key, the sink, the listener or the kill switch fails.
GivesUp(r) == AdminDown(r) /\ SetupFails(r) /\ UNCHANGED adminVars

Returns(r) == WorkloadExits(r, "delTable") /\ UNCHANGED adminVars

\* The deferred calls: the kill switch first, the sandbox last.
ClosesAdmin(r) == pc[r] = "delTable" /\ StopAdmin(r) /\ UNCHANGED sandboxVars
Destroys(r) == AdminDown(r) /\ Destroy(r) /\ UNCHANGED adminVars

Killed(r) == CrashRun(r) /\ Abandon(r)
ProcessesEnd(r) == SurvivorsEnd(r) /\ UNCHANGED adminVars

-----------------------------------------------------------------------------
(* agw proxy *)

ProxyAdmin(p) == (startAdmin(p) \/ StopAdmin(p)) /\ UNCHANGED sandboxVars

ProxyKilled(p) ==
    /\ ~AdminDown(p) /\ "crash" \in Faults
    /\ Abandon(p) /\ UNCHANGED sandboxVars

Run(r) ==
    \/ Creates(r) \/ OpensAdmin(r) \/ Starts(r) \/ CannotStart(r) \/ ExitsAtOnce(r)
    \/ GivesUp(r) \/ Returns(r) \/ ClosesAdmin(r) \/ Destroys(r) \/ Killed(r)
    \/ ProcessesEnd(r)

Next ==
    \/ \E r \in Runs : Run(r)
    \/ \E p \in Proxies : ProxyAdmin(p) \/ ProxyKilled(p)

Spec == Init /\ [][Next]_vars

\* The types of both, and a workload runs only under a kill switch: from its
\* start to its end agw listens (runRun opens it before cmd.Run).
TypeOK ==
    /\ SandboxTypeOK /\ AdminTypeOK
    /\ \A r \in Runs : pc[r] = "running" => r \in listening

\* What earlier runs left behind, killed or not, never stops the next, every run that
\* returned has taken its own down, and no workload runs without its kill switch.
HostStaysUsable == TypeOK /\ NeverWedged /\ NothingLeft
=============================================================================
