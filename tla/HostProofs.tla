------------------------------ MODULE HostProofs ------------------------------
(***************************************************************************)
(* Proofs about Host for any number of `agw run` and `agw proxy` processes *)
(* on one host, whatever commands fail, whichever agw is killed, however   *)
(* long processes of a workload survive, and however runs overlap.         *)
(***************************************************************************)
EXTENDS Host, TLAPS

-----------------------------------------------------------------------------
(* The inductive invariants *)

\* A run between the first command of Create and its end.
Active(r) == pc[r] \notin Ended \cup {"idle"}

\* Runs that do not overlap are active one at a time.
OneActive == \A r, q \in Runs : Active(r) /\ Active(q) => r = q

\* The stages up to the start of the workload, and those of Destroy.
Creating == {"sweepTable", "sweepNs", "sweepLink", "addNs", "addLink", "movePeer",
             "configure", "applyRules", "ready"}
Failing == {"failTable", "failNs", "failLink"}
Destroying == {"delTable", "delNs", "delLink"}

\* Without overlap or survivors, processes are in a namespace only while their
\* workload runs or once its agw is gone, no other run is then active, and the
\* table is loaded from before they start until after they end.
ContainInv ==
    happened \cap {"overlap", "survivors"} = {} =>
        /\ OneActive
        /\ \A r \in Runs : pc[r] = "ready" => table
        /\ \A r \in Runs : ns[r] # None =>
            /\ table /\ pc[r] \in {"running", "exited"}
            /\ \A q \in Runs \ {r} : ~Active(q)

\* Without overlap or failing commands, Create works on an empty host, finds
\* what its own earlier commands made, and nothing else.
WedgeInv ==
    happened \cap {"overlap", "cmd"} = {} =>
        /\ OneActive
        /\ \A r \in Runs :
            /\ pc[r] \notin Failing \cup {"failed"}
            /\ pc[r] \in Creating => \A q \in Runs : ns[q] = None
            /\ pc[r] \in {"sweepLink", "addNs"} => named = None
            /\ pc[r] \in {"addNs", "addLink"} => veth = None
            /\ pc[r] \in {"addLink", "movePeer", "configure"} => named = r
            /\ pc[r] = "movePeer" => veth = "host"
            /\ pc[r] = "configure" => veth = r

\* The stages that have the removal of each object before them, and the one
\* that has left for good.
OwesTable == {"ready", "running", "delTable", "exited"}
OwesName == {"addLink", "movePeer", "configure", "applyRules", "ready", "running",
             "failTable", "failNs", "delTable", "delNs", "exited"}
OwesLink == (OwesName \ {"addLink"}) \cup {"failLink", "delLink"}

\* While the commands work, every object has a run that will still remove it, or
\* that left through os.Exit or a crash.
LeftInv ==
    "cmd" \notin happened =>
        /\ table => \E r \in Runs : pc[r] \in OwesTable
        /\ named # None => \E r \in Runs : pc[r] \in OwesName
        /\ veth # None => \E r \in Runs : pc[r] \in OwesLink

\* The workload runs only while its kill switch serves.
ServedInv == \A r \in Runs : pc[r] = "running" => apc[r] = "serving"

\* Processes that start and stop one at a time: while one does, no other serves,
\* and a socket at the path belongs to the process that made it last.
AdminInv ==
    ~raced =>
        /\ \A p \in Procs : apc[p] \notin Settled => Alone(p)
        /\ \A p \in Procs : apc[p] \notin Settled =>
            \A q \in Procs : apc[q] # "serving"
        /\ \A p \in Procs : apc[p] \in {"listen", "chmod", "serving"} => file = p

HostInv ==
    SandboxTypeOK /\ AdminTypeOK /\ ContainInv /\ WedgeInv /\ LeftInv /\ ServedInv /\ AdminInv

-----------------------------------------------------------------------------
(* The steps of a sandbox and of a kill switch *)

\* Any step of run r that touches the kernel or its stage.
SandboxStep(r) ==
    \/ Create(r) \/ Destroy(r) \/ Start(r) \/ StartFails(r) \/ SetupFails(r)
    \/ WorkloadExits(r, "exited") \/ WorkloadExits(r, "delTable")
    \/ CrashRun(r) \/ SurvivorsEnd(r)

AdminStep(p) == startAdmin(p) \/ StopAdmin(p) \/ Abandon(p)

\* A step of the host is a step of one sandbox, of one kill switch, or of both.
LEMMA HostSteps ==
    ASSUME Next
    PROVE  /\ (\E r \in Runs : SandboxStep(r)) \/ UNCHANGED sandboxVars
           /\ (\E p \in Procs : AdminStep(p)) \/ UNCHANGED adminVars
  BY HostAssumptions
  DEF Next, Run, SandboxStep, AdminStep, Creates, OpensAdmin, Starts, CannotStart,
      ExitsAtOnce, GivesUp, Returns, ClosesAdmin, Destroys, Killed, ProcessesEnd,
      ProxyAdmin, ProxyKilled, Proxies

\* Create, command by command, and Destroy.
LEMMA SandboxSteps ==
    ASSUME NEW r \in Runs, SandboxStep(r)
    PROVE  \/ Begin(r)
           \/ (SweepTable(r) \/ FailTable(r) \/ DelTable(r))
           \/ (SweepNs(r) \/ FailNs(r) \/ DelNs(r))
           \/ (SweepLink(r) \/ FailLink(r) \/ DelLink(r))
           \/ AddNs(r) \/ AddLink(r) \/ MovePeer(r) \/ Configure(r) \/ applyRules(r)
           \/ CreateFails(r)
           \/ Start(r) \/ (StartFails(r) \/ SetupFails(r) \/ CrashRun(r))
           \/ (WorkloadExits(r, "exited") \/ WorkloadExits(r, "delTable"))
           \/ SurvivorsEnd(r)
  BY DEF SandboxStep, Create, Destroy

\* Goto keeps the stages.
LEMMA GotoTyped ==
    ASSUME SandboxTypeOK, NEW r \in Runs, NEW from, NEW to \in Stages, Goto(r, from, to)
    PROVE  pc' \in [Runs -> Stages]
  BY DEF SandboxTypeOK, Goto

\* Every command keeps the types, and the link is up only inside a namespace.
LEMMA SandboxTypeStep ==
    ASSUME SandboxTypeOK, NEW r \in Runs, SandboxStep(r)
    PROVE  SandboxTypeOK'
  <1>1. pc' \in [Runs -> Stages]
    BY SandboxSteps, GotoTyped DEF SandboxTypeOK, Begin, SweepTable, FailTable, DelTable, SweepNs, FailNs,
         DelNs, SweepLink, FailLink, DelLink, AddNs, AddLink, MovePeer, Configure,
         applyRules, CreateFails, Start, StartFails, SetupFails, CrashRun, WorkloadExits,
         SurvivorsEnd, Stages, Ended
  <1>2. table' \in BOOLEAN /\ happened' \subseteq Faults
    BY SandboxSteps DEF SandboxTypeOK, Begin, SweepTable, FailTable, DelTable, SweepNs, FailNs,
         DelNs, SweepLink, FailLink, DelLink, AddNs, AddLink, MovePeer, Configure,
         applyRules, CreateFails, Start, StartFails, SetupFails, CrashRun, WorkloadExits,
         SurvivorsEnd, NftDelete, NetnsDel, LinkDel, Happens, kernel
  <1>3. named' \in Runs \cup {None} /\ ns' \in [Runs -> Runs \cup {None}]
    BY SandboxSteps DEF SandboxTypeOK, Begin, SweepTable, FailTable, DelTable, SweepNs, FailNs,
         DelNs, SweepLink, FailLink, DelLink, AddNs, AddLink, MovePeer, Configure,
         applyRules, CreateFails, Start, StartFails, SetupFails, CrashRun, WorkloadExits,
         SurvivorsEnd, NftDelete, NetnsDel, LinkDel, Leave, kernel
  <1>4. up' \in BOOLEAN /\ veth' \in Runs \cup {None, "host"} /\ (up' => veth' \in Runs)
    BY SandboxSteps DEF SandboxTypeOK, Begin, SweepTable, FailTable, DelTable, SweepNs, FailNs,
         DelNs, SweepLink, FailLink, DelLink, AddNs, AddLink, MovePeer, Configure,
         applyRules, CreateFails, Start, StartFails, SetupFails, CrashRun, WorkloadExits,
         SurvivorsEnd, NftDelete, NetnsDel, LinkDel, Leave, Vanishes, kernel
  <1> QED
    BY <1>1, <1>2, <1>3, <1>4 DEF SandboxTypeOK

-----------------------------------------------------------------------------
(* The firewall *)

\* Each step keeps processes behind the table: only an active run removes it, and
\* no run but the workload's own is active while its processes live.
LEMMA ContainStep ==
    ASSUME SandboxTypeOK, ContainInv, NEW r \in Runs, SandboxStep(r)
    PROVE  ContainInv'
  <1> SUFFICES ASSUME happened' \cap {"overlap", "survivors"} = {}
               PROVE  ContainInv'
    BY DEF ContainInv
  <1> USE DEF SandboxTypeOK, ContainInv, OneActive, Active, Ended
  <1>1. CASE Begin(r)
    BY <1>1 DEF Begin, Goto, Happens, kernel, occupied
  <1>2. CASE SweepTable(r) \/ FailTable(r) \/ DelTable(r)
    BY <1>2 DEF SweepTable, FailTable, DelTable, NftDelete, Goto, Happens
  <1>3. CASE SweepNs(r) \/ FailNs(r) \/ DelNs(r)
    BY <1>3 DEF SweepNs, FailNs, DelNs, NetnsDel, Goto, Happens
  <1>4. CASE SweepLink(r) \/ FailLink(r) \/ DelLink(r)
    BY <1>4 DEF SweepLink, FailLink, DelLink, LinkDel, Goto, Happens
  <1>5. CASE AddNs(r) \/ AddLink(r) \/ MovePeer(r) \/ Configure(r) \/ applyRules(r)
    BY <1>5 DEF AddNs, AddLink, MovePeer, Configure, applyRules, Goto
  <1>6. CASE CreateFails(r)
    BY <1>6 DEF CreateFails, Happens, kernel
  <1>7. CASE Start(r) \/ StartFails(r) \/ SetupFails(r) \/ CrashRun(r)
    BY <1>7 DEF Start, StartFails, SetupFails, CrashRun, Goto, Happens, kernel
  <1>8. CASE WorkloadExits(r, "exited") \/ WorkloadExits(r, "delTable")
    BY <1>8 DEF WorkloadExits, Leave, Goto, Happens
  <1>9. CASE SurvivorsEnd(r)
    BY <1>9 DEF SurvivorsEnd, Leave
  <1> QED
    BY <1>1, <1>2, <1>3, <1>4, <1>5, <1>6, <1>7, <1>8, <1>9, SandboxSteps

-----------------------------------------------------------------------------
(* What a run leaves behind *)

\* Each step of Create finds its objects absent, or made by the step before.
LEMMA WedgeStep ==
    ASSUME SandboxTypeOK, WedgeInv, NEW r \in Runs, SandboxStep(r)
    PROVE  WedgeInv'
  <1> SUFFICES ASSUME happened' \cap {"overlap", "cmd"} = {}
               PROVE  WedgeInv'
    BY DEF WedgeInv
  <1> USE DEF SandboxTypeOK, WedgeInv, OneActive, Active, Ended, Creating, Failing
  <1>1. CASE Begin(r)
    BY <1>1 DEF Begin, Goto, Happens, kernel, occupied
  <1>2. CASE SweepTable(r) \/ FailTable(r) \/ DelTable(r)
    BY <1>2 DEF SweepTable, FailTable, DelTable, NftDelete, Goto, Happens
  <1>3. CASE SweepNs(r) \/ FailNs(r) \/ DelNs(r)
    BY <1>3 DEF SweepNs, FailNs, DelNs, NetnsDel, Vanishes, Goto, Happens
  <1>4. CASE SweepLink(r) \/ FailLink(r) \/ DelLink(r)
    BY <1>4 DEF SweepLink, FailLink, DelLink, LinkDel, Goto, Happens
  <1>5. CASE AddNs(r) \/ AddLink(r) \/ MovePeer(r) \/ Configure(r) \/ applyRules(r)
    BY <1>5 DEF AddNs, AddLink, MovePeer, Configure, applyRules, Goto
  <1>6. CASE CreateFails(r)
    BY <1>6, SandboxAssumptions DEF CreateFails, Happens, kernel
  <1>7. CASE Start(r) \/ StartFails(r) \/ SetupFails(r) \/ CrashRun(r)
    BY <1>7 DEF Start, StartFails, SetupFails, CrashRun, Goto, Happens, kernel
  <1>8. CASE WorkloadExits(r, "exited") \/ WorkloadExits(r, "delTable")
    BY <1>8 DEF WorkloadExits, Leave, Vanishes, Goto, Happens
  <1>9. CASE SurvivorsEnd(r)
    BY <1>9 DEF SurvivorsEnd, Leave, Vanishes
  <1> QED
    BY <1>1, <1>2, <1>3, <1>4, <1>5, <1>6, <1>7, <1>8, <1>9, SandboxSteps

\* Only the run that made an object, or one that removes it, passes the stages
\* that owe its removal.
LEMMA LeftStep ==
    ASSUME SandboxTypeOK, LeftInv, NEW r \in Runs, SandboxStep(r)
    PROVE  LeftInv'
  <1> SUFFICES ASSUME "cmd" \notin happened'
               PROVE  LeftInv'
    BY DEF LeftInv
  <1> USE DEF SandboxTypeOK, LeftInv, OwesTable, OwesName, OwesLink
  <1>1. CASE Begin(r)
    BY <1>1 DEF Begin, Goto, Happens, kernel
  <1>2. CASE SweepTable(r) \/ FailTable(r) \/ DelTable(r)
    BY <1>2 DEF SweepTable, FailTable, DelTable, NftDelete, Goto, Happens
  <1>3. CASE SweepNs(r) \/ FailNs(r) \/ DelNs(r)
    BY <1>3 DEF SweepNs, FailNs, DelNs, NetnsDel, Vanishes, Goto, Happens
  <1>4. CASE SweepLink(r) \/ FailLink(r) \/ DelLink(r)
    BY <1>4 DEF SweepLink, FailLink, DelLink, LinkDel, Goto, Happens
  <1>5. CASE AddNs(r) \/ AddLink(r) \/ MovePeer(r) \/ Configure(r) \/ applyRules(r)
    BY <1>5 DEF AddNs, AddLink, MovePeer, Configure, applyRules, Goto
  <1>6. CASE CreateFails(r)
    BY <1>6 DEF CreateFails, Happens, kernel
  <1>7. CASE Start(r) \/ StartFails(r) \/ SetupFails(r) \/ CrashRun(r)
    BY <1>7 DEF Start, StartFails, SetupFails, CrashRun, Goto, Happens, kernel
  <1>8. CASE WorkloadExits(r, "exited") \/ WorkloadExits(r, "delTable")
    BY <1>8 DEF WorkloadExits, Leave, Vanishes, Goto, Happens
  <1>9. CASE SurvivorsEnd(r)
    BY <1>9 DEF SurvivorsEnd, Leave, Vanishes
  <1> QED
    BY <1>1, <1>2, <1>3, <1>4, <1>5, <1>6, <1>7, <1>8, <1>9, SandboxSteps

-----------------------------------------------------------------------------
(* The kill switch *)

\* Each step of startAdmin and of the clean-up keeps the types: a process listens
\* from net.Listen until its listener is closed or it is gone.
LEMMA AdminTypeStep ==
    ASSUME AdminTypeOK, NEW p \in Procs, AdminStep(p)
    PROVE  AdminTypeOK'
  <1> USE DEF AdminTypeOK, AdminGoto, Begins, Settled
  <1>1. CASE DialAnswered(p) \/ DialFails(p)
    BY <1>1 DEF DialAnswered, DialFails
  <1>2. CASE Remove(p) \/ Bind(p) \/ BindFails(p) \/ RemoveAgain(p)
    BY <1>2 DEF Remove, Bind, BindFails, RemoveAgain
  <1>3. CASE Listen(p) \/ Chmod(p)
    BY <1>3 DEF Listen, Chmod
  <1>4. CASE ChmodFails(p) \/ Close(p)
    BY <1>4 DEF ChmodFails, Close
  <1>5. CASE Abandon(p)
    BY <1>5 DEF Abandon
  <1> QED
    BY <1>1, <1>2, <1>3, <1>4, <1>5 DEF AdminStep, startAdmin, StopAdmin

\* A process that starts found no socket that answers, so no other serves; one
\* that stops had the path, so no other serves either.
LEMMA AdminInvStep ==
    ASSUME AdminTypeOK, AdminInv, NEW p \in Procs, AdminStep(p)
    PROVE  AdminInv'
  <1> SUFFICES ASSUME ~raced'
               PROVE  AdminInv'
    BY DEF AdminInv
  <1> USE AdminAssumptions DEF AdminTypeOK, AdminInv, AdminGoto, Begins, Settled, Alone
  <1>1. CASE DialAnswered(p)
    BY <1>1 DEF DialAnswered
  <1>2. CASE DialFails(p)
    BY <1>2 DEF DialFails, Answers
  <1>3. CASE Remove(p) \/ RemoveAgain(p)
    BY <1>3 DEF Remove, RemoveAgain
  <1>4. CASE Bind(p) \/ BindFails(p)
    BY <1>4 DEF Bind, BindFails
  <1>5. CASE Listen(p) \/ Chmod(p)
    BY <1>5 DEF Listen, Chmod
  <1>6. CASE ChmodFails(p)
    BY <1>6 DEF ChmodFails
  <1>7. CASE Close(p)
    BY <1>7 DEF Close
  <1>8. CASE Abandon(p)
    BY <1>8 DEF Abandon
  <1> QED
    BY <1>1, <1>2, <1>3, <1>4, <1>5, <1>6, <1>7, <1>8 DEF AdminStep, startAdmin, StopAdmin

-----------------------------------------------------------------------------
(* Both together *)

\* The kill switch of a run changes only while its workload is not running, or
\* with its end.
LEMMA ServedStep ==
    ASSUME SandboxTypeOK, AdminTypeOK, ServedInv, Next
    PROVE  ServedInv'
  <1> USE HostAssumptions DEF ServedInv, SandboxTypeOK, AdminTypeOK
  <1>1. ASSUME NEW r \in Runs, Creates(r) \/ GivesUp(r) \/ Destroys(r)
        PROVE  ServedInv'
    BY <1>1 DEF Creates, GivesUp, Destroys, Create, Destroy, SetupFails, Begin, SweepTable,
         SweepNs, SweepLink, AddNs, AddLink, MovePeer, Configure, applyRules, CreateFails,
         FailTable, FailNs, FailLink, DelTable, DelNs, DelLink, Goto, adminVars
  <1>2. ASSUME NEW r \in Runs, Starts(r) \/ Returns(r) \/ ProcessesEnd(r)
        PROVE  ServedInv'
    BY <1>2 DEF Starts, Returns, ProcessesEnd, Start, WorkloadExits, SurvivorsEnd, Goto,
         adminVars
  <1>3. ASSUME NEW r \in Runs, CannotStart(r) \/ ExitsAtOnce(r) \/ Killed(r)
        PROVE  ServedInv'
    BY <1>3 DEF CannotStart, ExitsAtOnce, Killed, StartFails, WorkloadExits, CrashRun, Goto,
         Abandon
  <1>4. ASSUME NEW r \in Runs, OpensAdmin(r) \/ ClosesAdmin(r)
        PROVE  ServedInv'
    BY <1>4 DEF OpensAdmin, ClosesAdmin, startAdmin, StopAdmin, DialAnswered, DialFails,
         Remove, Bind, BindFails, Listen, Chmod, ChmodFails, Close, RemoveAgain, AdminGoto,
         sandboxVars
  <1>5. ASSUME NEW p \in Proxies, ProxyAdmin(p) \/ ProxyKilled(p)
        PROVE  ServedInv'
    BY <1>5 DEF Proxies, ProxyAdmin, ProxyKilled, startAdmin, StopAdmin, DialAnswered,
         DialFails, Remove, Bind, BindFails, Listen, Chmod, ChmodFails, Close, RemoveAgain,
         Abandon, AdminGoto, sandboxVars
  <1> QED
    BY <1>1, <1>2, <1>3, <1>4, <1>5 DEF Next, Run

\* The host starts empty.
LEMMA HostInitOK ==
    ASSUME Init
    PROVE  HostInv
  <1> USE DEF Init, SandboxInit, AdminInit
  <1>1. SandboxTypeOK /\ AdminTypeOK
    BY DEF SandboxTypeOK, AdminTypeOK, Stages, Settled
  <1>2. ContainInv
    BY DEF ContainInv, OneActive, Active
  <1>3. WedgeInv
    BY DEF WedgeInv, OneActive, Active, Creating, Failing
  <1>4. LeftInv /\ ServedInv
    BY DEF LeftInv, ServedInv
  <1>5. AdminInv
    BY DEF AdminInv, Settled, Alone
  <1> QED BY <1>1, <1>2, <1>3, <1>4, <1>5 DEF HostInv

\* Every step of the host keeps the invariant.
LEMMA HostStepOK ==
    ASSUME HostInv, [Next]_vars
    PROVE  HostInv'
  <1> USE DEF HostInv
  <1>1. CASE UNCHANGED vars
    BY <1>1 DEF vars, sandboxVars, kernel, adminVars, SandboxTypeOK, AdminTypeOK, ContainInv,
         OneActive, Active, WedgeInv, LeftInv, ServedInv, AdminInv, Alone
  <1>2. CASE Next
    <2>1. SandboxTypeOK' /\ ContainInv' /\ WedgeInv' /\ LeftInv'
      <3>1. CASE \E r \in Runs : SandboxStep(r)
        BY <3>1, SandboxTypeStep, ContainStep, WedgeStep, LeftStep
      <3>2. CASE UNCHANGED sandboxVars
        BY <3>2 DEF sandboxVars, kernel, SandboxTypeOK, ContainInv, OneActive, Active,
             WedgeInv, LeftInv
      <3> QED BY <1>2, <3>1, <3>2, HostSteps
    <2>2. AdminTypeOK' /\ AdminInv'
      <3>1. CASE \E p \in Procs : AdminStep(p)
        BY <3>1, AdminTypeStep, AdminInvStep
      <3>2. CASE UNCHANGED adminVars
        BY <3>2 DEF adminVars, AdminTypeOK, AdminInv, Alone
      <3> QED BY <1>2, <3>1, <3>2, HostSteps
    <2>3. ServedInv'
      BY <1>2, ServedStep
    <2> QED BY <2>1, <2>2, <2>3
  <1> QED BY <1>1, <1>2

\* The inductive invariant of the host: sandboxes and kill switches of all its agw
\* processes.
THEOREM HostInvHolds == Spec => []HostInv
  BY HostInitOK, HostStepOK, PTL DEF Spec

\* Processes of a workload that have a link out are behind the firewall at every
\* moment of every run (netns: Create, Destroy), whatever command fails and wherever
\* agw is killed, unless runs overlap or processes outlive their workload.
THEOREM ContainedHolds == Spec => []Contained
  <1>1. HostInv => Contained
    BY SandboxAssumptions DEF HostInv, ContainInv, Contained, Filtered, occupied
  <1> QED BY <1>1, HostInvHolds, PTL

\* No crashed or failed run stops the next one's Create, Destroy leaves nothing
\* behind, and a workload runs only while its kill switch listens.
THEOREM HostStaysUsableHolds == Spec => []HostStaysUsable
  <1>1. HostInv => TypeOK
    BY HostAssumptions DEF HostInv, TypeOK, ServedInv, AdminTypeOK
  <1>2. HostInv => NeverWedged
    BY DEF HostInv, WedgeInv, NeverWedged, Failing
  <1>3. HostInv => NothingLeft
    BY DEF HostInv, LeftInv, NothingLeft, SandboxTypeOK, OwesTable, OwesName, OwesLink
  <1>4. HostInv => HostStaysUsable
    BY <1>1, <1>2, <1>3 DEF HostStaysUsable
  <1> QED BY <1>4, HostInvHolds, PTL

\* The socket at the admin path is that of the agw that serves it (startAdmin),
\* also after processes were killed, as long as no two start or stop together.
THEOREM KillSwitchReachableHolds == Spec => []KillSwitchReachable
  <1>1. HostInv => KillSwitchReachable
    BY DEF HostInv, AdminInv, KillSwitchReachable
  <1> QED BY <1>1, HostInvHolds, PTL
=============================================================================
