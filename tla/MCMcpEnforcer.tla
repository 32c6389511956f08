--------------------------- MODULE MCMcpEnforcer ------------------------------
(* Messages for the run of AgwMcp and McpEnforcer. *)
EXTENDS AgwMcp

Req(m, t, id) == [method |-> m, tool |-> t, id |-> id]
One(m, t, id) == [batch |-> FALSE, reqs |-> <<Req(m, t, id)>>]
Batch(s) == [batch |-> TRUE, reqs |-> s]

Singles ==
    {One("call", "read", 1), One("call", "delete", 1), One("list", None, 1),
     One("list", None, 2), One("other", None, NoId), One("read", "file", 2)}

MCBodies ==
    Singles \cup
    {Malformed, One("reply", None, 1), Batch(<<>>),
     Batch(<<Req("call", "read", 1), Req("call", None, 2)>>),
     Batch(<<Req("list", None, 2), Req("call", "read", NoId)>>)}

\* An answer that stdio does not look at and in which HTTP reads other tools, and one in
\* which no tools are found.
MCOtherwise == {[ids |-> {}, tools |-> "v2"], [ids |-> {2}, tools |-> None]}

\* Whether stdio: a session of one client, or two posts at a time.
MCMaxSent == [onStdio \in BOOLEAN |-> IF onStdio THEN 3 ELSE 2]
MCMaxServer == [onStdio \in BOOLEAN |-> IF onStdio THEN 1 ELSE 2]
=============================================================================
