---------------------------- MODULE SigningDaemon -----------------------------
(***************************************************************************)
(* ags-signd (cmd/ags-signd, pkg/ags1/signer/daemon.go): a process that    *)
(* holds a key and signs, over a unix socket, the messages whose own bytes *)
(* say what they are for.  Any number of its handlers run at once, and it  *)
(* may be stopped, killed and started again, with the same key or another. *)
(*                                                                         *)
(* A handler serves one connection: a slot.  Time is a count of seconds.   *)
(***************************************************************************)
EXTENDS Integers, FiniteSets, FiniteSetsExt

CONSTANTS
    None, Keys, Slots,
    Served,                   \* the purposes the daemon signs for
    Rate, Burst,              \* tokens a second, and at most
    MaxNow, MaxRestarts, MaxStrangers   \* bounds: time, restarts, other callers

ASSUME DaemonAssumptions ==
    /\ IsFiniteSet(Slots) /\ Served \subseteq {"principal-context", "evidence-checkpoint", "readiness-probe"}
    /\ {Rate, Burst, MaxNow, MaxRestarts, MaxStrangers} \subseteq Nat

VARIABLES
    now,
    daemon,      \* up, listening (until Close), key, zeroed (its signer closed), restarts
    bucket,      \* tokenBucket of each purpose: tokens, last
    granted,     \* the tokens of each purpose taken so far, and before each second
    signed,      \* byPurpose; signCount is their sum
    slot,        \* the handlers
    strangers    \* how many other callers there were

daemonVars == <<now, daemon, bucket, granted, signed, slot, strangers>>

-----------------------------------------------------------------------------
(* What a message is for *)

\* The purpose a message's prefix names ("unknown" for any other bytes), how the
\* rest parses, and the purpose the caller says it has ("" for none).
Message(prefix, rest, declared) == [prefix |-> prefix, rest |-> rest, declared |-> declared]

ClassifyPurpose(m) == m.prefix

\* Key and value pairs with the three required names, five parts with two numbers,
\* the constant; nothing may follow.
ValidateForPurpose(purpose, m) ==
    CASE purpose = "principal-context" -> m.rest = "named pairs"
      [] purpose = "evidence-checkpoint" -> m.rest = "five parts"
      [] purpose = "readiness-probe" -> m.rest = "constant"

CheckpointInput == Message("evidence-checkpoint", "five parts", "")
OtherMessages ==
    {CheckpointInput,
     Message("evidence-checkpoint", "five parts, then more", ""),
     Message("evidence-checkpoint", "five parts", "readiness-probe"),
     Message("principal-context", "named pairs", ""), Message("unknown", "bytes", "")}

-----------------------------------------------------------------------------
(* The daemon *)

Free == [st |-> "free"]
FreeSlots == {s \in Slots : slot[s] = Free}
FullBuckets(t) == [p \in Served |-> [tokens |-> Burst, last |-> t]]
NoneGranted == [p \in Served |-> [total |-> 0, before |-> [t \in 0..MaxNow |-> 0]]]

DaemonInit ==
    /\ now = 0 /\ strangers = 0
    /\ daemon \in [up : {TRUE}, listening : {TRUE}, key : Keys, zeroed : {FALSE}, restarts : {0}]
    /\ bucket = FullBuckets(0) /\ granted = NoneGranted /\ signed = [p \in Served |-> 0]
    /\ slot = [s \in Slots |-> Free]

\* A connection the listener takes and its request: handle has read it.
Accept(s, from, m) ==
    /\ daemon.listening /\ slot[s] = Free
    /\ slot' = [slot EXCEPT ![s] = [st |-> "asked", from |-> from, m |-> m, sig |-> None]]

Stranger(s) ==
    /\ strangers < MaxStrangers
    /\ \E m \in OtherMessages : Accept(s, "stranger", m)
    /\ strangers' = strangers + 1
    /\ UNCHANGED <<now, daemon, bucket, granted, signed>>

\* Mutant: what was not used is never capped.
Mutantrefill(b) == [tokens |-> b.tokens + (now - b.last) * Rate, last |-> now]

refill(b) == [tokens |-> Min({Burst, b.tokens + (now - b.last) * Rate}), last |-> now]

Replied(s, sig) == [st |-> "answered", from |-> slot[s].from, m |-> None, sig |-> sig]
Refuse(s) == slot' = [slot EXCEPT ![s] = Replied(s, None)] /\ UNCHANGED granted

\* The token is taken last, and then whether or not a signature is made.  Refusals
\* are counted by purpose for PurposeStats only.
authorizeSigning(s) ==
    LET m == slot[s].m
        p == ClassifyPurpose(m)
        b == refill(bucket[p])
    IN /\ daemon.up /\ slot[s].st = "asked"
       /\ IF p = "unknown" \/ m.declared \notin {"", p} \/ p \notin Served
             \/ ~ValidateForPurpose(p, m)
          THEN Refuse(s) /\ UNCHANGED bucket
          ELSE IF b.tokens < 1
          THEN Refuse(s) /\ bucket' = [bucket EXCEPT ![p] = b]
          ELSE /\ bucket' = [bucket EXCEPT ![p] = [tokens |-> b.tokens - 1, last |-> b.last]]
               /\ granted' = [granted EXCEPT ![p].total = @ + 1]
               /\ slot' = [slot EXCEPT ![s].st = "allowed"]
       /\ UNCHANGED <<now, daemon, signed, strangers>>

\* The signer has a lock of its own: after Close there is no key.
MakeSignature(s) ==
    /\ daemon.up /\ slot[s].st = "allowed"
    /\ slot' = [slot EXCEPT ![s] = IF daemon.zeroed THEN Replied(s, None)
                                    ELSE [slot[s] EXCEPT !.st = "made", !.sig = daemon.key]]
    /\ UNCHANGED <<now, daemon, bucket, granted, signed, strangers>>

CountSignature(s) ==
    /\ daemon.up /\ slot[s].st = "made"
    /\ signed' = [signed EXCEPT ![slot[s].m.prefix] = @ + 1]
    /\ slot' = [slot EXCEPT ![s] = Replied(s, slot[s].sig)]
    /\ UNCHANGED <<now, daemon, bucket, granted, strangers>>

\* The answer is read by a caller that does nothing with it, or by nobody.
HangUp(s) ==
    /\ slot[s].st = "answered" /\ slot[s].from \in {"stranger", "gone"}
    /\ slot' = [slot EXCEPT ![s] = Free]
    /\ UNCHANGED <<now, daemon, bucket, granted, signed, strangers>>

-----------------------------------------------------------------------------
(* Its life *)

\* Close: no more connections, then no more key; the handlers are not waited for.
CloseListener ==
    /\ daemon.up /\ daemon.listening /\ daemon.restarts < MaxRestarts
    /\ daemon' = [daemon EXCEPT !.listening = FALSE]
    /\ UNCHANGED <<now, bucket, granted, signed, slot, strangers>>

CloseSigner ==
    /\ daemon.up /\ ~daemon.listening /\ ~daemon.zeroed
    /\ daemon' = [daemon EXCEPT !.zeroed = TRUE]
    /\ UNCHANGED <<now, bucket, granted, signed, slot, strangers>>

\* The process ends, by itself or killed: every connection ends with it.
DaemonExit ==
    /\ daemon.up /\ (daemon.zeroed \/ daemon.restarts < MaxRestarts)
    /\ daemon' = [daemon EXCEPT !.up = FALSE, !.listening = FALSE, !.zeroed = TRUE]
    /\ slot' = [s \in Slots |->
                   IF slot[s].st = "free" \/ slot[s].from # "sink" THEN Free
                   ELSE Replied(s, None)]
    /\ UNCHANGED <<now, bucket, granted, signed, strangers>>

\* NewDaemon, with the key its file has now.
NewDaemon ==
    /\ ~daemon.up /\ daemon.restarts < MaxRestarts
    /\ \E k \in Keys :
          daemon' = [up |-> TRUE, listening |-> TRUE, key |-> k, zeroed |-> FALSE,
                     restarts |-> daemon.restarts + 1]
    /\ bucket' = FullBuckets(now) /\ granted' = NoneGranted /\ signed' = [p \in Served |-> 0]
    /\ UNCHANGED <<now, slot, strangers>>

Tick ==
    /\ now < MaxNow /\ now' = now + 1
    /\ granted' = [p \in Served |->
                      [granted[p] EXCEPT !.before[now + 1] = granted[p].total]]
    /\ UNCHANGED <<daemon, bucket, signed, slot, strangers>>

Handle(s) == authorizeSigning(s) \/ MakeSignature(s) \/ CountSignature(s) \/ HangUp(s)

DaemonNext ==
    \/ \E s \in Slots : Stranger(s) \/ Handle(s)
    \/ CloseListener \/ CloseSigner \/ DaemonExit \/ NewDaemon \/ Tick

-----------------------------------------------------------------------------
(* Properties *)

\* The limit of a token bucket, which take computes from the time since the last
\* request only: from any second on, no more signatures of a purpose are granted
\* than a burst and what the rate adds since; and what the daemon counts as signed
\* was granted, requests that fail after their token was taken included.
DaemonBudget ==
    \A p \in Served :
        /\ \A t \in 0..now :
              granted[p].total - granted[p].before[t] <= Burst + Rate * (now - t)
        /\ signed[p] + Cardinality({s \in Slots : slot[s].st = "made" /\ slot[s].m.prefix = p})
               <= granted[p].total
=============================================================================
