----------------------------- MODULE AdminSocket ------------------------------
(***************************************************************************)
(* The kill switch's unix socket (cmd/agw/proxy.go, startAdmin, and the    *)
(* deferred clean-up of runProxy and runRun): several agw processes given  *)
(* the same --admin path.  Start-up asks whether the socket answers,       *)
(* removes the file, and listens; clean-up closes the listener, which      *)
(* unlinks the path by name, and removes the path once more.               *)
(***************************************************************************)
EXTENDS FiniteSets

CONSTANTS
    Procs,
    Nobody     \* no file at the path

ASSUME AdminAssumptions == Nobody \notin Procs

VARIABLES
    apc,
    file,      \* the process whose socket is at the path, or Nobody
    listening, \* processes that accept connections on their socket
    raced      \* a process has started or stopped while another did

adminVars == <<apc, file, listening, raced>>

AdminInit ==
    /\ apc = [p \in Procs |-> "idle"]
    /\ file = Nobody /\ listening = {} /\ raced = FALSE

AdminGoto(p, from, to) == apc[p] = from /\ apc' = [apc EXCEPT ![p] = to]

Settled == {"idle", "serving", "inUse", "failed", "exited"}
Alone(p) == \A q \in Procs \ {p} : apc[q] \in Settled
Begins(p) == raced' = (raced \/ ~Alone(p))

\* Mutant: the old file is always removed.
MutantAnswers == FALSE

\* net.DialTimeout succeeds.
Answers == file \in listening

DialAnswered(p) ==
    /\ Begins(p) /\ Answers
    /\ AdminGoto(p, "idle", "inUse")
    /\ UNCHANGED <<file, listening>>

DialFails(p) ==
    /\ Begins(p) /\ ~Answers
    /\ AdminGoto(p, "idle", "remove")
    /\ UNCHANGED <<file, listening>>

\* os.Remove: whatever is at the path by now.
Remove(p) ==
    /\ AdminGoto(p, "remove", "bind")
    /\ file' = Nobody
    /\ UNCHANGED <<listening, raced>>

\* net.Listen: bind makes the file, listen makes it answer.
Bind(p) ==
    /\ AdminGoto(p, "bind", "listen")
    /\ file = Nobody /\ file' = p
    /\ UNCHANGED <<listening, raced>>

BindFails(p) ==
    /\ AdminGoto(p, "bind", "failed")
    /\ file # Nobody
    /\ UNCHANGED <<file, listening, raced>>

Listen(p) ==
    /\ AdminGoto(p, "listen", "chmod")
    /\ listening' = listening \cup {p}
    /\ UNCHANGED <<file, raced>>

\* os.Chmod: on whatever is at the path.
Chmod(p) ==
    /\ AdminGoto(p, "chmod", "serving")
    /\ file # Nobody
    /\ UNCHANGED <<file, listening, raced>>

\* It fails: the listener is closed again, which unlinks the path.
ChmodFails(p) ==
    /\ AdminGoto(p, "chmod", "failed")
    /\ file' = Nobody
    /\ listening' = listening \ {p}
    /\ UNCHANGED raced

\* adminSrv.Close closes the listener, and closing it unlinks the path.
Close(p) ==
    /\ Begins(p)
    /\ AdminGoto(p, "serving", "removeAgain")
    /\ file' = Nobody
    /\ listening' = listening \ {p}

\* os.Remove(*adminSocket).
RemoveAgain(p) ==
    /\ AdminGoto(p, "removeAgain", "exited")
    /\ file' = Nobody
    /\ UNCHANGED <<listening, raced>>

\* agw is killed, or leaves through os.Exit: the file stays.
Abandon(p) ==
    /\ apc' = [apc EXCEPT ![p] = IF @ \in {"idle", "inUse", "failed"} THEN @ ELSE "exited"]
    /\ listening' = listening \ {p}
    /\ UNCHANGED <<file, raced>>

startAdmin(p) ==
    \/ DialAnswered(p) \/ DialFails(p) \/ Remove(p) \/ Bind(p) \/ BindFails(p)
    \/ Listen(p) \/ Chmod(p) \/ ChmodFails(p)

StopAdmin(p) == Close(p) \/ RemoveAgain(p)

-----------------------------------------------------------------------------
(* Properties *)

\* A socket answers exactly while its process listens on it.
AdminTypeOK ==
    /\ apc \in [Procs -> Settled \cup {"remove", "bind", "listen", "chmod", "removeAgain"}]
    /\ file \in Procs \cup {Nobody}
    /\ raced \in BOOLEAN
    /\ listening = {p \in Procs : apc[p] \in {"chmod", "serving"}}

\* `agw suspend` reaches the kill switch of every agw that serves one, also after
\* processes were killed, as long as no two start or stop at the same time
\* (startAdmin: removing a live socket "would silently take over that process's
\* kill switch").
KillSwitchReachable ==
    ~raced => \A p \in Procs : apc[p] = "serving" => file = p
=============================================================================
