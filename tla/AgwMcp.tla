-------------------------------- MODULE AgwMcp --------------------------------
(***************************************************************************)
(* agw mcp (cmd/agw/mcp.go): the process around the enforcer.  runMCP      *)
(* serves one session, signs what was recorded as soon as it is over,      *)
(* reaps the server it started, and takes a last checkpoint before it      *)
(* closes the sink and leaves.                                             *)
(*                                                                         *)
(* Once the session is over, the enforcer's state is of no more use: the   *)
(* model forgets it, and keeps of the goroutines that a session which was  *)
(* cut off leaves running that they may still write records.  The client   *)
(* may kill agw at any moment after it closed its side: every state is one *)
(* that such a kill may leave behind.                                      *)
(***************************************************************************)
EXTENDS McpEnforcer

VARIABLES
    cmd,        \* the stage of runMCP
    alive,      \* whether the server it started runs
    unsigned    \* whether the log has records that no checkpoint covers

mcpVars == <<vars, cmd, alive, unsigned>>

McpInit == Init /\ cmd = "serve" /\ alive = TRUE /\ unsigned = FALSE

\* The session is over.  The server may have exited, and while it served there may
\* always have been an unsigned record.
Returns ==
    /\ cmd = "serve" /\ session = "over"
    /\ cmd' = IF stdio THEN "ended" ELSE "final"
    /\ alive' \in BOOLEAN /\ (~stdio => alive') /\ unsigned' \in BOOLEAN
    /\ hpc' = [c \in Conns |-> "idle"] /\ body' = [c \in Conns |-> None]
    /\ k' = [c \in Conns |-> 1] /\ written' = [c \in Conns |-> {}]
    /\ frozen' = FALSE /\ pendingLists' = {} /\ inventory' = None /\ changes' = 0
    /\ tools' = Empty /\ inbox' = {} /\ out' = <<>> /\ done' = 0 /\ reader' = None
    /\ shown' = None /\ noticed' = FALSE /\ aware' = [c \in Conns |-> FALSE] /\ sent' = 0
    /\ happened' = happened \cap {"cut"}
    /\ UNCHANGED <<stdio, session>>

\* A goroutine that was cut off records something more.
Late ==
    /\ cmd \notin {"serve", "exited"} /\ "cut" \in happened /\ unsigned' = TRUE
    /\ UNCHANGED <<vars, cmd, alive>>

\* Sink.Checkpoint: signs every record so far, or fails.
Checkpoint ==
    /\ \/ unsigned' = FALSE /\ UNCHANGED happened
       \/ "sign" \in Faults /\ Happens("unsigned") /\ UNCHANGED unsigned
    /\ UNCHANGED <<stdio, handlers, enforcer, server, reader, session, client, alive>>

\* Every second, until Close.
Tick ==
    /\ cmd \notin {"serve", "leave", "exited"} /\ unsigned /\ Checkpoint
    /\ UNCHANGED cmd

\* Mutant: what was recorded is only signed once the server is gone.
MutantsessionEnded ==
    /\ cmd = "ended" /\ cmd' = "reap"
    /\ UNCHANGED <<vars, alive, unsigned>>

sessionEnded == cmd = "ended" /\ cmd' = "reap" /\ Checkpoint

\* The server exits on its own, or because it was told to; it need not.
ServerExits ==
    /\ cmd \in {"ended", "reap", "term"} /\ alive /\ alive' = FALSE
    /\ UNCHANGED <<vars, cmd, unsigned>>

\* Three seconds have passed: SIGTERM.  Two more have: SIGKILL.
Terminate == cmd = "reap" /\ cmd' = "term" /\ UNCHANGED <<vars, alive, unsigned>>

Kill ==
    /\ cmd = "term" /\ cmd' = "kill" /\ alive' = FALSE
    /\ UNCHANGED <<vars, unsigned>>

\* cmd.Wait returns.
Reaped ==
    /\ cmd \in {"reap", "term", "kill"} /\ ~alive /\ cmd' = "final"
    /\ UNCHANGED <<vars, alive, unsigned>>

FinalCheckpoint == cmd = "final" /\ cmd' = "close" /\ Checkpoint

\* Close takes another one, and closes the file; then the signer is released.
CloseSink == cmd = "close" /\ cmd' = "leave" /\ Checkpoint

Exit == cmd = "leave" /\ cmd' = "exited" /\ UNCHANGED <<vars, alive, unsigned>>

runMCP ==
    \/ Returns \/ sessionEnded \/ Terminate \/ Kill \/ Reaped \/ FinalCheckpoint
    \/ CloseSink \/ Exit

\* A step of the session.
Serving(A) == cmd = "serve" /\ A /\ UNCHANGED <<cmd, alive, unsigned>>

McpNext == Serving(Next) \/ runMCP \/ ServerExits \/ Late \/ Tick

McpSpec == McpInit /\ [][McpNext]_mcpVars

(***************************************************************************)
(* Fairness: the goroutines of agw run, and its timers fire.  The server   *)
(* and the client owe nothing, and the ticker need not be in time.         *)
(***************************************************************************)
FairSpec ==
    /\ McpSpec
    /\ \A c \in Conns : WF_mcpVars(Serving(Handle(c)))
    /\ WF_mcpVars(Serving(Reader)) /\ WF_mcpVars(Serving(DrainTimeout))
    /\ WF_mcpVars(runMCP)

-----------------------------------------------------------------------------
(* Properties *)

\* From the moment the reaping of the server starts, nothing of a session that was
\* not cut off is unsigned, so that the client may kill agw from then on; the same
\* holds of HTTP after the final checkpoint (serveMCPStdio: "sessionEnded is called
\* as soon as the client's session is over, before the server is reaped: the client
\* may kill this process at any moment after closing its side").
SessionSigned ==
    cmd \in {"reap", "term", "kill", "close", "leave", "exited"}
    /\ happened \cap {"cut", "unsigned"} = {} => ~unsigned

\* agw does not leave before the server it started is gone ("an orphaned MCP server
\* keeps whatever it holds open").
NoOrphan == cmd = "exited" /\ stdio => ~alive

\* Once the client has closed its side, or agw is told to stop, agw leaves, also when
\* the server never answers and never exits; with everything answered and signed if
\* nothing was cut off, and never before its server.
SessionEnds ==
    /\ [](Drained /\ SessionSigned /\ NoOrphan)
    /\ (session # "serving") ~> (cmd = "exited")
=============================================================================
