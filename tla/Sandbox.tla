------------------------------- MODULE Sandbox --------------------------------
(***************************************************************************)
(* The network sandbox of `agw run` (internal/confine/netns/sandbox_linux.go, *)
(* cmd/agw/run.go): the namespace, the interface pair and the firewall     *)
(* table that Create makes and Destroy removes, one ip or nft command at a *)
(* time.  Every run uses the same names ("agw-run"), so all runs of a host *)
(* share one set of kernel objects.                                        *)
(***************************************************************************)
EXTENDS FiniteSets

CONSTANTS
    Runs,        \* invocations of `agw run`
    None,
    Faults       \* what may happen: "cmd", a command fails; "crash", agw is killed;
                 \* "survivors", processes outlive their workload; "overlap", a run
                 \* begins before earlier ones and their processes are gone

ASSUME SandboxAssumptions ==
    None \notin Runs /\ Faults \subseteq {"cmd", "crash", "survivors", "overlap"}

VARIABLES
    pc,      \* where each run is
    \* The kernel.
    table,   \* the firewall table is loaded
    named,   \* the run whose namespace has the name, or None
    veth,    \* the pair: None, "host" (both ends), or the run that has the peer
    up,      \* the pair has its addresses and the default route
    ns,      \* the namespace the processes of each run are in, or None
    \* Which of Faults have happened.
    happened

kernel == <<table, named, veth, up, ns>>
sandboxVars == <<pc, kernel, happened>>

SandboxInit ==
    /\ pc = [r \in Runs |-> "idle"]
    /\ table = FALSE /\ named = None /\ veth = None /\ up = FALSE
    /\ ns = [r \in Runs |-> None]
    /\ happened = {}

Ended == {"failed", "destroyed", "exited"}

Goto(r, from, to) == pc[r] = from /\ pc' = [pc EXCEPT ![r] = to]

\* Namespaces with a process in them.
occupied == {ns[r] : r \in Runs} \ {None}

Happens(f) == f \in Faults /\ happened' = happened \cup {f}

-----------------------------------------------------------------------------
(* The commands *)

\* nft delete table: an error if there is none.
NftDelete ==
    /\ \/ table' = FALSE /\ UNCHANGED happened
       \/ Happens("cmd") /\ UNCHANGED table
    /\ UNCHANGED <<named, veth, up, ns>>

\* A namespace disappears, and the interface in it, when it has neither a name
\* nor a process.
Vanishes(r) ==
    IF veth = r THEN veth' = None /\ up' = FALSE ELSE UNCHANGED <<veth, up>>

\* ip netns del: the name goes; the namespace stays while processes are in it.
NetnsDel ==
    /\ \/ /\ named' = None /\ UNCHANGED happened
          /\ IF named \in Runs \ occupied THEN Vanishes(named) ELSE UNCHANGED <<veth, up>>
       \/ Happens("cmd") /\ UNCHANGED <<named, veth, up>>
    /\ UNCHANGED <<table, ns>>

\* ip link del of the host end takes the peer with it, wherever that is.
LinkDel ==
    /\ \/ veth' = None /\ up' = FALSE /\ UNCHANGED happened
       \/ Happens("cmd") /\ UNCHANGED <<veth, up>>
    /\ UNCHANGED <<table, named, ns>>

-----------------------------------------------------------------------------
(* Create *)

\* runRun reaches Create.
Begin(r) ==
    /\ Goto(r, "idle", "sweepTable")
    /\ IF occupied = {} /\ \A q \in Runs \ {r} : pc[q] \in Ended \cup {"idle"}
       THEN UNCHANGED happened ELSE Happens("overlap")
    /\ UNCHANGED kernel

\* Mutant: only what this process made is cleaned up.
MutantSweepNs(r) ==
    Goto(r, "sweepNs", "sweepLink") /\ UNCHANGED <<kernel, happened>>

\* cleanupQuietly removes what an earlier run may have left; errors are ignored.
SweepTable(r) == Goto(r, "sweepTable", "sweepNs") /\ NftDelete
SweepNs(r) == Goto(r, "sweepNs", "sweepLink") /\ NetnsDel
SweepLink(r) == Goto(r, "sweepLink", "addNs") /\ LinkDel

\* ip netns add: fails if the name is taken.
AddNs(r) ==
    /\ Goto(r, "addNs", "addLink")
    /\ named = None /\ named' = r
    /\ UNCHANGED <<table, veth, up, ns, happened>>

\* ip link add: fails if the interface exists.
AddLink(r) ==
    /\ Goto(r, "addLink", "movePeer")
    /\ veth = None /\ veth' = "host" /\ up' = FALSE
    /\ UNCHANGED <<table, named, ns, happened>>

\* ip link set netns: into whatever namespace has the name.
MovePeer(r) ==
    /\ Goto(r, "movePeer", "configure")
    /\ veth = "host" /\ named # None /\ veth' = named
    /\ UNCHANGED <<table, named, up, ns, happened>>

\* The addresses, the links up, the default route: from here the path out
\* works, but for the firewall.
Configure(r) ==
    /\ Goto(r, "configure", "applyRules")
    /\ named # None /\ veth = named /\ up' = TRUE
    /\ UNCHANGED <<table, named, veth, ns, happened>>

applyRules(r) ==
    /\ Goto(r, "applyRules", "ready")
    /\ table' = TRUE
    /\ UNCHANGED <<named, veth, up, ns, happened>>

\* Mutant: a failed nft -f is only logged.
MutantCreateFails(r) ==
    /\ \/ pc[r] \in {"addNs", "addLink", "movePeer", "configure", "applyRules"} /\ Happens("cmd")
       \/ /\ \/ pc[r] = "addNs" /\ named # None
             \/ pc[r] = "addLink" /\ veth # None
             \/ pc[r] = "movePeer" /\ (veth # "host" \/ named = None)
             \/ pc[r] = "configure" /\ (named = None \/ veth # named)
          /\ UNCHANGED happened
    /\ pc' = [pc EXCEPT ![r] = IF pc[r] = "applyRules" THEN "ready" ELSE "failTable"]
    /\ UNCHANGED kernel

\* A step of Create fails, by itself or because its object is not there.
CreateFails(r) ==
    /\ \/ pc[r] \in {"addNs", "addLink", "movePeer", "configure", "applyRules"} /\ Happens("cmd")
       \/ /\ \/ pc[r] = "addNs" /\ named # None
             \/ pc[r] = "addLink" /\ veth # None
             \/ pc[r] = "movePeer" /\ (veth # "host" \/ named = None)
             \/ pc[r] = "configure" /\ (named = None \/ veth # named)
          /\ UNCHANGED happened
    /\ pc' = [pc EXCEPT ![r] = "failTable"]
    /\ UNCHANGED kernel

\* cleanupQuietly again, then the error is returned.
FailTable(r) == Goto(r, "failTable", "failNs") /\ NftDelete
FailNs(r) == Goto(r, "failNs", "failLink") /\ NetnsDel
FailLink(r) == Goto(r, "failLink", "failed") /\ LinkDel

-----------------------------------------------------------------------------
(* The run *)

\* ip netns exec: the workload starts in whatever namespace has the name.
Start(r) ==
    /\ Goto(r, "ready", "running") /\ named # None
    /\ ns' = [ns EXCEPT ![r] = named]
    /\ UNCHANGED <<table, named, veth, up, happened>>

\* The name is gone: cmd.Run fails with ip's exit status, and os.Exit follows.
StartFails(r) ==
    /\ Goto(r, "ready", "exited") /\ named = None
    /\ UNCHANGED <<kernel, happened>>

\* The key, the sink, the listener or the admin socket fails: runRun returns
\* before the workload starts, through its deferred calls.
SetupFails(r) ==
    /\ Goto(r, "ready", "delTable")
    /\ UNCHANGED <<kernel, happened>>

\* The processes of r are gone, and with the last one an unnamed namespace.
Leave(r) ==
    /\ ns' = [ns EXCEPT ![r] = None]
    /\ IF ns[r] # named /\ \A q \in Runs \ {r} : ns[q] # ns[r]
       THEN Vanishes(ns[r]) ELSE UNCHANGED <<veth, up>>

\* cmd.Run returns.  With status 0 runRun returns through its deferred calls,
\* Destroy the last; with any other status it calls os.Exit, and they are skipped.
WorkloadExits(r, next) ==
    /\ Goto(r, "running", next)
    /\ \/ Leave(r) /\ UNCHANGED happened
       \/ Happens("survivors") /\ UNCHANGED <<veth, up, ns>>
    /\ UNCHANGED <<table, named>>

\* Processes that outlived the workload, or a crashed agw, end.
SurvivorsEnd(r) ==
    /\ ns[r] # None /\ pc[r] # "running"
    /\ Leave(r)
    /\ UNCHANGED <<pc, table, named, happened>>

\* Destroy: each command whatever became of the one before.
DelTable(r) == Goto(r, "delTable", "delNs") /\ NftDelete
DelNs(r) == Goto(r, "delNs", "delLink") /\ NetnsDel
DelLink(r) == Goto(r, "delLink", "destroyed") /\ LinkDel

\* agw is killed; the workload is not.
CrashRun(r) ==
    /\ pc[r] \notin Ended \cup {"idle"} /\ Happens("crash")
    /\ pc' = [pc EXCEPT ![r] = "exited"]
    /\ UNCHANGED kernel

Create(r) ==
    \/ Begin(r) \/ SweepTable(r) \/ SweepNs(r) \/ SweepLink(r) \/ AddNs(r)
    \/ AddLink(r) \/ MovePeer(r) \/ Configure(r) \/ applyRules(r)
    \/ CreateFails(r) \/ FailTable(r) \/ FailNs(r) \/ FailLink(r)

Destroy(r) == DelTable(r) \/ DelNs(r) \/ DelLink(r)

-----------------------------------------------------------------------------
(* Properties *)

Stages ==
    {"idle", "sweepTable", "sweepNs", "sweepLink", "addNs", "addLink", "movePeer",
     "configure", "applyRules", "ready", "running", "failTable", "failNs", "failLink",
     "delTable", "delNs", "delLink"} \cup Ended

SandboxTypeOK ==
    /\ pc \in [Runs -> Stages]
    /\ table \in BOOLEAN /\ up \in BOOLEAN
    /\ named \in Runs \cup {None} /\ veth \in Runs \cup {None, "host"}
    /\ ns \in [Runs -> Runs \cup {None}]
    /\ up => veth \in Runs
    /\ happened \subseteq Faults

\* Processes of a workload that have a link out are behind the firewall (Destroy:
\* "the sandbox should be left unable to reach anything rather than unexpectedly
\* able to").
Filtered == veth \in occupied /\ up => table

\* So it is at every moment of every run, whatever command fails and wherever agw
\* is killed, unless runs overlap or processes outlive their workload (the
\* package: "the only thing standing between the workload and the internet is a
\* rule we wrote").
Contained == happened \cap {"overlap", "survivors"} = {} => Filtered

\* Create succeeds after whatever an earlier run left behind, as long as the
\* commands themselves work (the test: "a crashed run does not wedge the host").
NeverWedged ==
    happened \cap {"overlap", "cmd"} = {} =>
        \A r \in Runs : pc[r] \notin {"failTable", "failNs", "failLink", "failed"}

\* When every run that began has returned through Create's failure path or
\* through Destroy, nothing is left of any sandbox, however the runs overlapped
\* ("Destroy removes everything Create made").
NothingLeft ==
    "cmd" \notin happened /\ (\A r \in Runs : pc[r] \in {"idle", "failed", "destroyed"}) =>
        ~table /\ named = None /\ veth = None
=============================================================================
