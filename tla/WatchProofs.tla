------------------------------ MODULE WatchProofs ------------------------------
(***************************************************************************)
(* That agw watch keeps its promises for any number of exports, spans,     *)
(* handlers of the daemon and restarts: the daemon keeps to its budget,    *)
(* one key signs a log, what is acknowledged is in the file, and a log     *)
(* that is closed in order is anchored to its end.                         *)
(***************************************************************************)
EXTENDS Watch, TLAPS, FiniteSetTheorems

-----------------------------------------------------------------------------
(* The signing daemon *)

Froms == {"sink", "stranger", "gone"}
Messages == OtherMessages

SlotType ==
    [st : {"free"}]
    \cup [st : {"asked", "allowed", "made"}, from : Froms, m : Messages, sig : Keys \cup {None}]
    \cup [st : {"answered"}, from : Froms, m : {None}, sig : Keys \cup {None}]

DaemonTypeOK ==
    /\ now \in 0..MaxNow
    /\ daemon \in [up : BOOLEAN, listening : BOOLEAN, key : Keys, zeroed : BOOLEAN, restarts : Nat]
    /\ bucket \in [Served -> [tokens : 0..Burst, last : 0..MaxNow]]
    /\ \A p \in Served : bucket[p].last <= now
    /\ granted \in [Served -> [total : Nat, before : [0..MaxNow -> Nat]]]
    /\ signed \in [Served -> Nat]
    /\ slot \in [Slots -> SlotType]

\* The tokens of a purpose a request would find now.
Available(p) == refill(bucket[p]).tokens

\* The handlers whose token of a purpose is taken and whose signature is not counted.
Holding(p) == {s \in Slots : slot[s].st \in {"allowed", "made"} /\ slot[s].m.prefix = p}

\* What was granted since a second and what could be granted now, together.
WithinRate ==
    \A p \in Served : \A t \in 0..now :
        granted[p].total - granted[p].before[t] + Available(p) <= Burst + Rate * (now - t)

\* A token was taken for every signature, counted or still in a handler's hands.
TokenForEach ==
    /\ \A p \in Served : signed[p] + Cardinality(Holding(p)) <= granted[p].total
    /\ \A s \in Slots : slot[s].st \in {"allowed", "made"} =>
          daemon.up /\ slot[s].m.prefix \in Served

DaemonInv == DaemonTypeOK /\ WithinRate /\ TokenForEach

-----------------------------------------------------------------------------
(* agw watch *)

KeyValues == Keys \cup Starts \cup {"earlier", "empty", None}
Owners == Exports \cup {"main", "ticker", None}
Line == [kind : {"rec", "cp"}, e : Exports \cup {None}, k : Nat, key : KeyValues]
ExportStates ==
    {"idle", "reading", "span", "locked", "syncing", "answer", "answered", "refused", "cut"}
Phases ==
    {"start", "serving", "shutdown", "grpcstop", "final", "stats", "close", "file", "exit", "exited"}

ExportType == [st : ExportStates, n : Nat, done : Nat, failed : Nat]
SinkType ==
    [log : Seq(Line), flushed : Nat, since : Nat, owner : Owners, cpErr : BOOLEAN, open : BOOLEAN]

WatchTypeOK ==
    /\ custody \in {"file", "daemon"}
    /\ starter \in [Starts -> {"stat", "create", "write", "load", "ready", "failed"}]
    /\ keyFile \in KeyValues
    /\ pub \in [Starts -> KeyValues]
    /\ phase \in Phases
    /\ export \in [Exports -> ExportType]
    /\ sink \in SinkType
    /\ call \in [st : {"none", "dial", "wait"}, slot : Slots \cup {None}]
    /\ ticker \in BOOLEAN /\ overrun \in BOOLEAN /\ faults \in Nat
    /\ stats \in [spans : Nat, recorded : Nat, rejected : Nat]

\* The lock is held by the one whose checkpoint is being signed, and a call's slot
\* is one of the daemon's.
LockInv ==
    /\ call.st = "none" <=> sink.owner = None
    /\ call.st = "wait" => call.slot \in Slots
    /\ \A e \in Exports : sink.owner = e <=> export[e].st = "locked"
    /\ sink.owner = "main" => phase \in {"final", "close"}
    /\ sink.owner = "main" /\ phase = "close" => ~ticker
    /\ sink.owner = "ticker" => ticker
    /\ phase \in {"start", "exited"} => sink.owner = None /\ \A e \in Exports : ~Active(e)

\* Nothing is written before the key is known, and then it is the file's for good.
KeyInv ==
    /\ phase = "start" <=> starter["watch"] \notin {"ready", "failed"}
    /\ starter["watch"] = "failed" => phase = "exited"
    /\ starter["watch"] # "ready" => sink.log = <<>>
    /\ \A k \in 1..Len(sink.log) : sink.log[k].kind = "cp" => sink.log[k].key = pub["watch"]
    /\ custody = "file" =>
          \A p \in Starts :
             /\ starter[p] = "load" => keyFile # None
             /\ starter[p] = "write" => keyFile = "empty" /\ \A q \in Starts \ {p} : starter[q] # "write"
             /\ starter[p] = "ready" => pub[p] = keyFile /\ keyFile \notin {None, "empty"}

Writing(e) == export[e].st \in {"locked", "syncing"}
Writers == {e \in Exports : Writing(e)}

\* What is counted is in the file, and what a Write waits for is in the buffer.
RecordInv ==
    /\ sink.flushed <= Len(sink.log)
    /\ \A e \in Exports :
          /\ export[e].failed <= export[e].done
          /\ Cardinality(RecsOf(sink.log, sink.flushed, e)) >= export[e].done - export[e].failed
          /\ Writing(e) =>
                Cardinality(RecsOf(sink.log, Len(sink.log), e))
                    >= export[e].done - export[e].failed + 1
          /\ export[e].st \in {"answer", "answered"} => export[e].done = export[e].n
    /\ stats.recorded <= Cardinality(Recs(sink.log, sink.flushed))
    /\ stats.recorded + Cardinality(Writers) <= Cardinality(Recs(sink.log, Len(sink.log)))

Ending == {"final", "stats", "close", "file", "exit"}

\* Which parts are still running when, and what is anchored by then.
EndInv ==
    /\ ~overrun /\ phase \in Ending \cup {"grpcstop"} => \A e \in HttpExports : ~Active(e)
    /\ ~overrun /\ phase \in Ending => \A e \in GrpcExports : ~Active(e)
    /\ phase \in {"file", "exit"} => ~ticker
    /\ phase # "exited" /\ sink.since = 0 /\ sink.log # <<>> => Last(sink.log).kind = "cp"
    /\ ~overrun /\ phase \in {"file", "exit"} => faults > 0 \/ sink.cpErr \/ sink.since = 0
    /\ ~overrun /\ phase = "exit" => faults > 0 \/ sink.cpErr \/ sink.flushed = Len(sink.log)

WatchInv ==
    /\ DaemonInv /\ WatchTypeOK /\ LockInv /\ KeyInv /\ RecordInv /\ EndInv /\ ClosedAnchored

-----------------------------------------------------------------------------
(* The budget of the daemon *)

\* The lesser of two numbers.
LEMMA MinOfTwo ==
    ASSUME NEW a \in Int, NEW b \in Int
    PROVE  Min({a, b}) = IF a <= b THEN a ELSE b
  <1> DEFINE m == IF a <= b THEN a ELSE b
  <1>1. m \in {a, b} /\ \A y \in {a, b} : m <= y
    OBVIOUS
  <1>2. \A x \in {a, b} : (\A y \in {a, b} : x <= y) => x = m
    OBVIOUS
  <1> QED BY <1>1, <1>2 DEF Min

\* A bucket is never negative and never more than full.
LEMMA Capped ==
    ASSUME NEW k \in Nat, NEW d \in Nat
    PROVE  LET x == k + d * Rate
           IN /\ x \in Nat
              /\ Min({Burst, x}) = IF Burst <= x THEN Burst ELSE x
              /\ Min({Burst, x}) \in 0..Burst
  <1> DEFINE x == k + d * Rate
  <1>1. Rate \in Nat /\ Burst \in Nat
    BY DaemonAssumptions
  <1>2. d * Rate \in Nat
    BY <1>1
  <1>3. x \in Nat
    BY <1>2
  <1> HIDE DEF x
  <1>4. Min({Burst, x}) = IF Burst <= x THEN Burst ELSE x
    BY <1>1, <1>3, MinOfTwo
  <1>5. Min({Burst, x}) \in 0..Burst
    BY <1>1, <1>3, <1>4
  <1> QED BY <1>3, <1>4, <1>5 DEF x

\* What refill finds is what was left and what the rate added, up to the burst.
LEMMA AvailableIs ==
    ASSUME DaemonTypeOK, NEW p \in Served
    PROVE  LET x == bucket[p].tokens + (now - bucket[p].last) * Rate
           IN /\ x \in Nat
              /\ Available(p) = IF Burst <= x THEN Burst ELSE x
              /\ Available(p) \in 0..Burst
  <1>1. bucket[p].tokens \in Nat /\ now - bucket[p].last \in Nat
    BY DaemonAssumptions DEF DaemonTypeOK
  <1>2. Available(p) = Min({Burst, bucket[p].tokens + (now - bucket[p].last) * Rate})
    BY DEF Available, refill
  <1> QED BY <1>1, <1>2, Capped

\* So it is after a step.
LEMMA AvailableNext ==
    ASSUME DaemonTypeOK', NEW p \in Served
    PROVE  Available(p)' \in 0..Burst
  <1>1. bucket'[p].tokens \in Nat /\ now' - bucket'[p].last \in Nat
    BY DaemonAssumptions DEF DaemonTypeOK
  <1>2. Available(p)' = Min({Burst, bucket'[p].tokens + (now' - bucket'[p].last) * Rate})
    BY DEF Available, refill
  <1> QED BY <1>1, <1>2, Capped

\* One more second, of the rate and of the budget.
LEMMA Distributes ==
    ASSUME NEW a \in Int, NEW b \in Int, NEW c \in Int
    PROVE  /\ (a + 1 - b) * c = (a - b) * c + c
           /\ c * (a + 1 - b) = c * (a - b) + c
           /\ c * (a - a) = 0 /\ (a - a) * c = 0
  OBVIOUS

\* Callers of the daemon come and go; a handler's token is its own.
SlotStep ==
    /\ UNCHANGED <<now, daemon, bucket, granted, signed, strangers>>
    /\ slot' \in [Slots -> SlotType]
    /\ \A s \in Slots : slot'[s].st \in {"allowed", "made"} =>
          slot[s].st \in {"allowed", "made"} /\ slot'[s].m = slot[s].m

\* The budget is kept: a second adds the rate to both sides, a grant moves a token
\* from what is available to what was granted.
LEMMA RateStep ==
    ASSUME DaemonInv, DaemonTypeOK', DaemonNext \/ SlotStep \/ UNCHANGED daemonVars
    PROVE  WithinRate'
  <1> USE DaemonAssumptions
  <1>1. CASE UNCHANGED <<now, bucket, granted>>
    BY <1>1 DEF DaemonInv, WithinRate, Available, refill
  <1>2. CASE Tick
    <2> SUFFICES ASSUME NEW p \in Served, NEW t \in 0..now'
                 PROVE  granted'[p].total - granted'[p].before[t] + Available(p)'
                            <= Burst + Rate * (now' - t)
      BY DEF WithinRate
    <2>0. now \in Nat /\ Rate \in Nat /\ Burst \in Nat /\ now' = now + 1 /\ now + 1 \in 0..MaxNow
      BY <1>2 DEF DaemonInv, DaemonTypeOK, Tick
    <2>1. Available(p) \in 0..Burst /\ Available(p)' \in 0..Burst
      BY AvailableIs, AvailableNext DEF DaemonInv
    <2>2. Available(p)' <= Available(p) + Rate
      <3> DEFINE x == bucket[p].tokens + (now - bucket[p].last) * Rate
                 y == bucket[p].tokens + (now + 1 - bucket[p].last) * Rate
      <3>1. bucket[p].last \in Int /\ bucket[p].tokens \in Int
        BY DEF DaemonInv, DaemonTypeOK
      <3>2. y = x + Rate /\ x \in Nat
        BY <3>1, <2>0, Distributes, AvailableIs DEF DaemonInv
      <3>3. Available(p) = IF Burst <= x THEN Burst ELSE x
        BY AvailableIs DEF DaemonInv
      <3>4. Available(p)' = Min({Burst, y})
        <4>1. Available(p)' = Min({Burst, bucket'[p].tokens + (now' - bucket'[p].last) * Rate})
          BY DEF Available, refill
        <4>2. bucket' = bucket
          BY <1>2 DEF Tick
        <4>3. bucket'[p].tokens + (now' - bucket'[p].last) * Rate = y
          BY <3>1, <4>2, <2>0
        <4> QED BY <4>1, <4>3
      <3>5. y \in Int /\ Burst \in Int
        BY <3>2, <2>0
      <3>6. Available(p)' = IF Burst <= y THEN Burst ELSE y
        BY <3>4, <3>5, MinOfTwo
      <3> HIDE DEF x, y
      <3> QED BY <3>2, <3>3, <3>6, <2>0
    <2>3. /\ granted'[p].total = granted[p].total /\ granted[p].total \in Nat
          /\ granted'[p].before[t] = IF t = now + 1 THEN granted[p].total ELSE granted[p].before[t]
          /\ granted[p].before[t] \in Nat
      BY <1>2, <2>0 DEF DaemonInv, DaemonTypeOK, Tick
    <2>4. CASE t = now + 1
      <3>1. Rate * (now + 1 - t) = 0
        BY <2>4, <2>0
      <3> QED BY <2>1, <2>3, <2>4, <3>1, <2>0
    <2>5. CASE t # now + 1
      <3>1. t \in 0..now
        BY <2>5, <2>0
      <3>2. granted[p].total - granted[p].before[t] + Available(p) <= Burst + Rate * (now - t)
        BY <3>1 DEF DaemonInv, WithinRate
      <3>3. Rate * (now + 1 - t) = Rate * (now - t) + Rate /\ Rate * (now - t) \in Int
        BY <2>0, <3>1, Distributes
      <3> QED BY <2>1, <2>2, <2>3, <2>5, <3>2, <3>3, <2>0
    <2> QED BY <2>4, <2>5
  <1>3. CASE NewDaemon
    <2> SUFFICES ASSUME NEW p \in Served, NEW t \in 0..now
                 PROVE  granted'[p].total - granted'[p].before[t] + Available(p)'
                            <= Burst + Rate * (now - t)
      BY <1>3 DEF WithinRate, NewDaemon
    <2>1. Available(p)' \in 0..Burst
      BY AvailableNext
    <2>2. granted'[p].total = 0 /\ granted'[p].before[t] = 0
      BY <1>3 DEF NewDaemon, NoneGranted, DaemonInv, DaemonTypeOK
    <2>3. Rate * (now - t) \in Nat
      <3>1. now - t \in Nat /\ Rate \in Nat
        BY DEF DaemonInv, DaemonTypeOK
      <3> QED BY <3>1
    <2> QED BY <2>1, <2>2, <2>3
  <1>4. ASSUME NEW s \in Slots, authorizeSigning(s) PROVE WithinRate'
    <2> DEFINE q == ClassifyPurpose(slot[s].m)
    <2> SUFFICES ASSUME NEW p \in Served, NEW t \in 0..now
                 PROVE  granted'[p].total - granted'[p].before[t] + Available(p)'
                            <= Burst + Rate * (now - t)
      BY <1>4 DEF WithinRate, authorizeSigning
    <2>1. /\ now \in Nat /\ now' = now /\ Rate \in Nat /\ Burst \in Nat
          /\ granted[p].total \in Nat /\ granted[p].before[t] \in Nat
          /\ Rate * (now - t) \in Nat
      <3>1. /\ now \in Nat /\ now - t \in Nat /\ now' = now /\ Rate \in Nat /\ Burst \in Nat
            /\ granted[p].total \in Nat /\ granted[p].before[t] \in Nat
        <4>1. now' = now
          BY <1>4 DEF authorizeSigning
        <4>2. now \in Nat /\ now - t \in Nat /\ Rate \in Nat /\ Burst \in Nat
          BY DEF DaemonInv, DaemonTypeOK
        <4>3. granted[p] \in [total : Nat, before : [0..MaxNow -> Nat]] /\ t \in 0..MaxNow
          BY DEF DaemonInv, DaemonTypeOK
        <4> QED BY <4>1, <4>2, <4>3
      <3> QED BY <3>1
    <2>2. granted[p].total - granted[p].before[t] + Available(p) <= Burst + Rate * (now - t)
      BY DEF DaemonInv, WithinRate
    <2>3. Available(p) \in 0..Burst
      BY AvailableIs DEF DaemonInv
    <2>4. \/ UNCHANGED <<bucket, granted>>
          \/ /\ bucket' = [bucket EXCEPT ![q] = refill(bucket[q])] /\ UNCHANGED granted
          \/ /\ bucket' = [bucket EXCEPT ![q] = [tokens |-> refill(bucket[q]).tokens - 1,
                                                last |-> refill(bucket[q]).last]]
             /\ granted' = [granted EXCEPT ![q].total = @ + 1]
             /\ ~(refill(bucket[q]).tokens < 1)
      <3> DEFINE refused == q = "unknown" \/ slot[s].m.declared \notin {"", q} \/ q \notin Served
                                \/ ~ValidateForPurpose(q, slot[s].m)
      <3>1. CASE refused
        BY <1>4, <3>1 DEF authorizeSigning, Refuse
      <3>2. CASE ~refused /\ refill(bucket[q]).tokens < 1
        BY <1>4, <3>2 DEF authorizeSigning, Refuse
      <3>3. CASE ~refused /\ ~(refill(bucket[q]).tokens < 1)
        BY <1>4, <3>3 DEF authorizeSigning
      <3> QED BY <3>1, <3>2, <3>3
    <2>5. ASSUME NEW b \in 0..Burst, bucket'[p] = [tokens |-> b, last |-> now]
          PROVE  Available(p)' = b
      <3>1. Available(p)' = Min({Burst, b + (now - now) * Rate})
        BY <2>5, <2>1 DEF Available, refill
      <3>2. b + (now - now) * Rate = b /\ b \in Int /\ Burst \in Int
        BY <2>1
      <3>3. Available(p)' = IF Burst <= b THEN Burst ELSE b
        BY <3>1, <3>2, MinOfTwo
      <3> QED BY <3>2, <3>3
    <2>6. CASE UNCHANGED <<bucket, granted>>
      BY <2>6, <2>1, <2>2 DEF Available, refill
    <2>7. CASE /\ bucket' = [bucket EXCEPT ![q] = refill(bucket[q])] /\ UNCHANGED granted
      <3>1. CASE p = q
        <4>1. bucket'[p] = [tokens |-> Available(p), last |-> now]
          BY <2>7, <3>1 DEF Available, refill, DaemonInv, DaemonTypeOK
        <4>2. Available(p)' = Available(p)
          BY <4>1, <2>5, <2>3
        <4> QED BY <4>2, <2>7, <2>2
      <3>2. CASE p # q
        <4>1. bucket'[p] = bucket[p]
          BY <2>7, <3>2 DEF DaemonInv, DaemonTypeOK
        <4> QED BY <4>1, <2>7, <2>1, <2>2 DEF Available, refill
      <3> QED BY <3>1, <3>2
    <2>8. CASE /\ bucket' = [bucket EXCEPT ![q] = [tokens |-> refill(bucket[q]).tokens - 1,
                                                last |-> refill(bucket[q]).last]]
               /\ granted' = [granted EXCEPT ![q].total = @ + 1]
               /\ ~(refill(bucket[q]).tokens < 1)
      <3>1. CASE p = q
        <4>1. bucket'[p] = [tokens |-> Available(p) - 1, last |-> now]
          BY <2>8, <3>1 DEF Available, refill, DaemonInv, DaemonTypeOK
        <4>2. Available(p) - 1 \in 0..Burst
          BY <2>8, <3>1, <2>3 DEF Available
        <4>3. Available(p)' = Available(p) - 1
          BY <4>1, <4>2, <2>5
        <4>4. granted'[p].total = granted[p].total + 1 /\ granted'[p].before = granted[p].before
          BY <2>8, <3>1 DEF DaemonInv, DaemonTypeOK
        <4> QED BY <4>3, <4>4, <2>1, <2>2, <2>3
      <3>2. CASE p # q
        <4>1. bucket'[p] = bucket[p] /\ granted'[p] = granted[p]
          BY <2>8, <3>2 DEF DaemonInv, DaemonTypeOK
        <4> QED BY <4>1, <2>1, <2>2 DEF Available, refill
      <3> QED BY <3>1, <3>2
    <2> QED BY <2>4, <2>6, <2>7, <2>8
  <1>5. \/ UNCHANGED <<now, bucket, granted>> \/ Tick \/ NewDaemon
        \/ \E s \in Slots : authorizeSigning(s)
    BY DEF DaemonNext, SlotStep, daemonVars, Stranger, Handle, MakeSignature, CountSignature,
           HangUp, CloseListener, CloseSigner, DaemonExit
  <1> QED BY <1>1, <1>2, <1>3, <1>4, <1>5

\* What a request is granted or refused, with the bucket it leaves.
LEMMA AuthorizeCases ==
    ASSUME NEW s \in Slots, authorizeSigning(s)
    PROVE  LET q == ClassifyPurpose(slot[s].m)
               b == refill(bucket[q])
           IN \/ UNCHANGED <<bucket, granted>> /\ slot' = [slot EXCEPT ![s] = Replied(s, None)]
              \/ /\ q \in Served /\ bucket' = [bucket EXCEPT ![q] = b]
                 /\ UNCHANGED granted /\ slot' = [slot EXCEPT ![s] = Replied(s, None)]
              \/ /\ q \in Served /\ ~(b.tokens < 1)
                 /\ bucket' = [bucket EXCEPT ![q] = [tokens |-> b.tokens - 1, last |-> b.last]]
                 /\ granted' = [granted EXCEPT ![q].total = @ + 1]
                 /\ slot' = [slot EXCEPT ![s].st = "allowed"]
  <1> DEFINE q == ClassifyPurpose(slot[s].m)
             refused == q = "unknown" \/ slot[s].m.declared \notin {"", q} \/ q \notin Served
                           \/ ~ValidateForPurpose(q, slot[s].m)
  <1>1. CASE refused
    BY <1>1 DEF authorizeSigning, Refuse
  <1>2. CASE ~refused /\ refill(bucket[q]).tokens < 1
    BY <1>2 DEF authorizeSigning, Refuse
  <1>3. CASE ~refused /\ ~(refill(bucket[q]).tokens < 1)
    BY <1>3 DEF authorizeSigning
  <1> QED BY <1>1, <1>2, <1>3

\* The three kinds of handler: without a request, with one, and with its answer.
LEMMA SlotKinds ==
    ASSUME DaemonTypeOK, NEW s \in Slots
    PROVE  /\ slot[s] \in SlotType
           /\ slot[s].st = "free" => slot[s] \in [st : {"free"}]
           /\ slot[s].st \in {"asked", "allowed", "made"} =>
                 slot[s] \in [st : {"asked", "allowed", "made"}, from : Froms, m : Messages,
                              sig : Keys \cup {None}]
           /\ slot[s].st = "answered" =>
                 slot[s] \in [st : {"answered"}, from : Froms, m : {None}, sig : Keys \cup {None}]
  BY DEF DaemonTypeOK, SlotType

\* The types of the daemon's state are kept by its own steps and its callers'.
LEMMA DaemonTypeStep ==
    ASSUME DaemonInv, DaemonNext \/ SlotStep \/ UNCHANGED daemonVars
    PROVE  DaemonTypeOK'
  <1> USE DaemonAssumptions
  <1>0. DaemonTypeOK
    BY DEF DaemonInv
  <1>1. CASE UNCHANGED daemonVars
    BY <1>0, <1>1 DEF DaemonTypeOK, daemonVars
  <1>2. CASE SlotStep
    BY <1>0, <1>2 DEF DaemonTypeOK, SlotStep
  <1>3. ASSUME NEW s \in Slots, Stranger(s) PROVE DaemonTypeOK'
    <2>1. slot' \in [Slots -> SlotType]
      BY <1>0, <1>3 DEF DaemonTypeOK, Stranger, Accept, SlotType, Messages, Froms
    <2> QED BY <1>0, <1>3, <2>1 DEF DaemonTypeOK, Stranger
  <1>4. ASSUME NEW s \in Slots, authorizeSigning(s) PROVE DaemonTypeOK'
    <2> DEFINE q == ClassifyPurpose(slot[s].m)
               b == refill(bucket[q])
    <2>1. slot[s].st = "asked" /\ UNCHANGED <<now, daemon, signed, strangers>>
      BY <1>4 DEF authorizeSigning
    <2>2. Replied(s, None) \in SlotType
      BY <1>0, <2>1, SlotKinds DEF Replied, SlotType
    <2>3. [slot EXCEPT ![s].st = "allowed"] \in [Slots -> SlotType]
      <3>1. [slot[s] EXCEPT !.st = "allowed"] \in SlotType
        BY <1>0, <2>1, SlotKinds DEF SlotType
      <3> QED BY <1>0, <3>1 DEF DaemonTypeOK
    <2>4. slot' \in [Slots -> SlotType]
      BY <1>0, <1>4, <2>2, <2>3, AuthorizeCases DEF DaemonTypeOK
    <2>5. q \in Served => b.tokens \in 0..Burst /\ b.last = now /\ b = [tokens |-> b.tokens, last |-> now]
      BY <1>0, AvailableIs DEF Available, refill
    <2>6. /\ bucket' \in [Served -> [tokens : 0..Burst, last : 0..MaxNow]]
          /\ \A p \in Served : bucket'[p].last <= now
      <3> HIDE DEF q, b
      <3>1. /\ bucket \in [Served -> [tokens : 0..Burst, last : 0..MaxNow]]
            /\ \A p \in Served : bucket[p].last <= now
            /\ now \in 0..MaxNow
        BY <1>0 DEF DaemonTypeOK
      <3>2. \/ bucket' = bucket
            \/ q \in Served /\ bucket' = [bucket EXCEPT ![q] = b]
            \/ q \in Served /\ ~(b.tokens < 1)
               /\ bucket' = [bucket EXCEPT ![q] = [tokens |-> b.tokens - 1, last |-> b.last]]
        BY <1>4, AuthorizeCases DEF q, b
      <3>3. CASE bucket' = bucket
        BY <3>1, <3>3
      <3>4. CASE q \in Served /\ bucket' = [bucket EXCEPT ![q] = b]
        BY <3>1, <3>4, <2>5
      <3>5. CASE q \in Served /\ ~(b.tokens < 1)
               /\ bucket' = [bucket EXCEPT ![q] = [tokens |-> b.tokens - 1, last |-> b.last]]
        <4>1. b.tokens - 1 \in 0..Burst /\ b.last = now
          BY <3>5, <2>5
        <4> QED BY <3>1, <3>5, <4>1
      <3> QED BY <3>2, <3>3, <3>4, <3>5
    <2>7. granted' \in [Served -> [total : Nat, before : [0..MaxNow -> Nat]]]
      <3> HIDE DEF q
      <3>1. \/ granted' = granted
            \/ q \in Served /\ granted' = [granted EXCEPT ![q].total = @ + 1]
        BY <1>4, AuthorizeCases DEF q
      <3>2. granted \in [Served -> [total : Nat, before : [0..MaxNow -> Nat]]]
        BY <1>0 DEF DaemonTypeOK
      <3>3. q \in Served =>
               [granted[q] EXCEPT !.total = @ + 1] \in [total : Nat, before : [0..MaxNow -> Nat]]
        BY <3>2
      <3>4. CASE q \in Served /\ granted' = [granted EXCEPT ![q].total = @ + 1]
        BY <3>2, <3>3, <3>4
      <3> QED BY <3>1, <3>2, <3>4
    <2> QED BY <1>0, <2>1, <2>4, <2>6, <2>7 DEF DaemonTypeOK
  <1>5. ASSUME NEW s \in Slots, MakeSignature(s) PROVE DaemonTypeOK'
    <2>1. slot[s].st = "allowed" /\ daemon.key \in Keys
      BY <1>0, <1>5 DEF MakeSignature, DaemonTypeOK
    <2>2. Replied(s, None) \in SlotType
      BY <1>0, <2>1, SlotKinds DEF Replied, SlotType
    <2>3. [slot[s] EXCEPT !.st = "made", !.sig = daemon.key] \in SlotType
      BY <1>0, <2>1, SlotKinds DEF SlotType
    <2>4. slot' \in [Slots -> SlotType]
      BY <1>0, <1>5, <2>2, <2>3 DEF MakeSignature, DaemonTypeOK
    <2> QED BY <1>0, <1>5, <2>4 DEF DaemonTypeOK, MakeSignature
  <1>6. ASSUME NEW s \in Slots, CountSignature(s) PROVE DaemonTypeOK'
    <2>1. slot[s].st = "made"
      BY <1>6 DEF CountSignature
    <2>2. Replied(s, slot[s].sig) \in SlotType
      BY <1>0, <2>1, SlotKinds DEF Replied, SlotType
    <2>3. slot' \in [Slots -> SlotType]
      BY <1>0, <1>6, <2>2 DEF CountSignature, DaemonTypeOK
    <2>4. slot[s].m.prefix \in Served
      BY <2>1 DEF DaemonInv, TokenForEach
    <2>5. signed' \in [Served -> Nat]
      <3> DEFINE q == slot[s].m.prefix
      <3>1. signed' = [signed EXCEPT ![q] = signed[q] + 1]
        BY <1>6 DEF CountSignature
      <3>2. signed \in [Served -> Nat]
        BY <1>0 DEF DaemonTypeOK
      <3> HIDE DEF q
      <3>3. q \in Served
        BY <2>4 DEF q
      <3>4. signed[q] \in Nat
        BY <3>2, <3>3
      <3>5. signed[q] + 1 \in Nat
        BY <3>4
      <3>6. ASSUME NEW n \in Nat, NEW f \in [Served -> Nat]
            PROVE  [f EXCEPT ![q] = n] \in [Served -> Nat]
        OBVIOUS
      <3> QED BY <3>1, <3>2, <3>5, <3>6, Zenon
    <2> QED BY <1>0, <1>6, <2>3, <2>5 DEF DaemonTypeOK, CountSignature
  <1>7. ASSUME NEW s \in Slots, HangUp(s) PROVE DaemonTypeOK'
    BY <1>0, <1>7 DEF DaemonTypeOK, HangUp, SlotType, Free
  <1>8. CASE CloseListener \/ CloseSigner
    BY <1>0, <1>8 DEF DaemonTypeOK, CloseListener, CloseSigner
  <1>9. CASE DaemonExit
    <2>1. ASSUME NEW s \in Slots, ~(slot[s].st = "free" \/ slot[s].from # "sink")
          PROVE  Replied(s, None) \in SlotType
      BY <1>0, <2>1, SlotKinds DEF Replied, SlotType, Froms
    <2>2. slot' \in [Slots -> SlotType]
      BY <1>9, <2>1 DEF DaemonExit, SlotType, Free
    <2> QED BY <1>0, <1>9, <2>2 DEF DaemonTypeOK, DaemonExit
  <1>10. CASE NewDaemon
    BY <1>0, <1>10 DEF DaemonTypeOK, NewDaemon, FullBuckets, NoneGranted
  <1>11. CASE Tick
    <2>1. now' \in 0..MaxNow /\ now < now'
      BY <1>0, <1>11 DEF DaemonTypeOK, Tick
    <2>2. granted' \in [Served -> [total : Nat, before : [0..MaxNow -> Nat]]]
      BY <1>0, <1>11 DEF DaemonTypeOK, Tick
    <2>3. \A p \in Served : bucket'[p].last <= now'
      BY <1>0, <1>11, <2>1 DEF DaemonTypeOK, Tick
    <2>4. UNCHANGED <<daemon, bucket, signed, slot>>
      BY <1>11 DEF Tick
    <2> QED BY <1>0, <2>1, <2>2, <2>3, <2>4 DEF DaemonTypeOK
  <1> QED BY <1>1, <1>2, <1>3, <1>4, <1>5, <1>6, <1>7, <1>8, <1>9, <1>10, <1>11
          DEF DaemonNext, Handle

\* The handlers that hold a token are finitely many.
LEMMA HoldingFinite ==
    ASSUME NEW p
    PROVE  /\ IsFiniteSet(Holding(p)) /\ Cardinality(Holding(p)) \in Nat
           /\ IsFiniteSet(Holding(p)') /\ Cardinality(Holding(p)') \in Nat
  <1>1. Holding(p) \subseteq Slots /\ Holding(p)' \subseteq Slots
    BY DEF Holding
  <1> QED BY <1>1, DaemonAssumptions, FS_Subset, FS_CardinalityType

\* A handler that keeps no more than it had holds no more tokens.
LEMMA HoldsNoMore ==
    ASSUME NEW p,
           \A s \in Slots : slot'[s].st \in {"allowed", "made"} =>
              slot[s].st \in {"allowed", "made"} /\ slot'[s].m = slot[s].m
    PROVE  Cardinality(Holding(p)') <= Cardinality(Holding(p))
  <1>1. Holding(p)' \subseteq Holding(p)
    BY DEF Holding
  <1> QED BY <1>1, HoldingFinite, FS_Subset

\* No signature without its token, whatever the handlers do at the same time and
\* whenever the daemon stops.
LEMMA TokenStep ==
    ASSUME DaemonInv, DaemonTypeOK', DaemonNext \/ SlotStep \/ UNCHANGED daemonVars
    PROVE  TokenForEach'
  <1>0. DaemonTypeOK /\ TokenForEach
    BY DEF DaemonInv
  <1>1. ASSUME UNCHANGED <<signed, granted>>, daemon.up => daemon'.up,
               \A s \in Slots : slot'[s].st \in {"allowed", "made"} =>
                  slot[s].st \in {"allowed", "made"} /\ slot'[s].m = slot[s].m
        PROVE  TokenForEach'
    <2>1. ASSUME NEW p \in Served
          PROVE  signed'[p] + Cardinality(Holding(p)') <= granted'[p].total
      <3>1. signed[p] \in Nat /\ granted[p].total \in Nat
        BY <1>0 DEF DaemonTypeOK
      <3>2. signed[p] + Cardinality(Holding(p)) <= granted[p].total
        BY <1>0 DEF TokenForEach
      <3>3. Cardinality(Holding(p)') <= Cardinality(Holding(p))
        BY <1>1, HoldsNoMore
      <3> QED BY <1>1, <3>1, <3>2, <3>3, HoldingFinite
    <2>2. ASSUME NEW s \in Slots, slot'[s].st \in {"allowed", "made"}
          PROVE  daemon'.up /\ slot'[s].m.prefix \in Served
      BY <1>0, <1>1, <2>2 DEF TokenForEach
    <2> QED BY <2>1, <2>2 DEF TokenForEach
  <1>2. CASE UNCHANGED daemonVars
    BY <1>1, <1>2 DEF daemonVars
  <1>3. CASE SlotStep
    BY <1>1, <1>3 DEF SlotStep
  <1>4. ASSUME NEW s \in Slots, Stranger(s) PROVE TokenForEach'
    <2>1. \A r \in Slots : slot'[r].st \in {"allowed", "made"} => slot'[r] = slot[r]
      BY <1>0, <1>4 DEF Stranger, Accept, DaemonTypeOK
    <2> QED BY <1>1, <1>4, <2>1 DEF Stranger
  <1>5. ASSUME NEW s \in Slots, authorizeSigning(s) PROVE TokenForEach'
    <2> DEFINE q == ClassifyPurpose(slot[s].m)
    <2>1. slot[s].st = "asked" /\ UNCHANGED <<now, daemon, signed, strangers>> /\ daemon.up
      BY <1>5 DEF authorizeSigning
    <2>2. CASE UNCHANGED granted /\ slot' = [slot EXCEPT ![s] = Replied(s, None)]
      <3>1. \A r \in Slots : slot'[r].st \in {"allowed", "made"} => slot'[r] = slot[r]
        BY <1>0, <2>2 DEF Replied, DaemonTypeOK
      <3> QED BY <1>1, <2>1, <2>2, <3>1
    <2>3. CASE /\ q \in Served
               /\ granted' = [granted EXCEPT ![q].total = @ + 1]
               /\ slot' = [slot EXCEPT ![s].st = "allowed"]
      <3>1. /\ slot'[s].st = "allowed" /\ slot'[s].m = slot[s].m /\ slot[s].m.prefix = q
            /\ \A r \in Slots \ {s} : slot'[r] = slot[r]
        BY <1>0, <2>1, <2>3, SlotKinds DEF DaemonTypeOK, ClassifyPurpose
      <3>2. ASSUME NEW p \in Served
            PROVE  signed'[p] + Cardinality(Holding(p)') <= granted'[p].total
        <4>1. signed[p] \in Nat /\ granted[p].total \in Nat
          BY <1>0 DEF DaemonTypeOK
        <4>2. signed[p] + Cardinality(Holding(p)) <= granted[p].total
          BY <1>0 DEF TokenForEach
        <4>3. CASE p = q
          <5>1. Holding(p)' = Holding(p) \cup {s} /\ s \notin Holding(p)
            BY <3>1, <2>1, <4>3 DEF Holding
          <5>2. Cardinality(Holding(p)') = Cardinality(Holding(p)) + 1
            BY <5>1, HoldingFinite, FS_AddElement
          <5>3. granted'[p].total = granted[p].total + 1
            BY <1>0, <2>3, <4>3 DEF DaemonTypeOK
          <5> QED BY <2>1, <4>1, <4>2, <5>2, <5>3, HoldingFinite
        <4>4. CASE p # q
          <5>1. Holding(p)' = Holding(p)
            BY <3>1, <2>1, <4>4 DEF Holding
          <5>2. granted'[p].total = granted[p].total
            BY <1>0, <2>3, <4>4 DEF DaemonTypeOK
          <5> QED BY <2>1, <4>2, <5>1, <5>2
        <4> QED BY <4>3, <4>4
      <3>3. \A r \in Slots : slot'[r].st \in {"allowed", "made"} =>
               daemon'.up /\ slot'[r].m.prefix \in Served
        BY <1>0, <2>1, <2>3, <3>1 DEF TokenForEach
      <3> QED BY <3>2, <3>3 DEF TokenForEach
    <2> HIDE DEF q
    <2> QED BY <1>5, <2>2, <2>3, AuthorizeCases DEF q
  <1>6. ASSUME NEW s \in Slots, MakeSignature(s) PROVE TokenForEach'
    <2>1. \A r \in Slots : slot'[r].st \in {"allowed", "made"} =>
             slot[r].st \in {"allowed", "made"} /\ slot'[r].m = slot[r].m
      BY <1>0, <1>6, SlotKinds DEF MakeSignature, DaemonTypeOK, Replied
    <2> QED BY <1>1, <1>6, <2>1 DEF MakeSignature
  <1>7. ASSUME NEW s \in Slots, CountSignature(s) PROVE TokenForEach'
    <2> DEFINE q == slot[s].m.prefix
    <2>1. slot[s].st = "made" /\ UNCHANGED <<now, daemon, bucket, granted, strangers>>
      BY <1>7 DEF CountSignature
    <2>2. /\ slot'[s].st = "answered" /\ \A r \in Slots \ {s} : slot'[r] = slot[r]
          /\ q \in Served
      BY <1>0, <1>7 DEF CountSignature, DaemonTypeOK, Replied, TokenForEach
    <2>3. ASSUME NEW p \in Served
          PROVE  signed'[p] + Cardinality(Holding(p)') <= granted'[p].total
      <3>1. signed[p] \in Nat /\ granted[p].total \in Nat
        BY <1>0 DEF DaemonTypeOK
      <3>2. signed[p] + Cardinality(Holding(p)) <= granted[p].total
        BY <1>0 DEF TokenForEach
      <3>3. CASE p = q
        <4>1. Holding(p)' = Holding(p) \ {s} /\ s \in Holding(p)
          BY <2>1, <2>2, <3>3 DEF Holding
        <4>2. Cardinality(Holding(p)') = Cardinality(Holding(p)) - 1
          BY <4>1, HoldingFinite, FS_RemoveElement
        <4>3. signed'[p] = signed[p] + 1
          BY <1>0, <1>7, <3>3 DEF DaemonTypeOK, CountSignature
        <4> QED BY <2>1, <3>1, <3>2, <4>2, <4>3, HoldingFinite
      <3>4. CASE p # q
        <4>1. Holding(p)' = Holding(p)
          BY <2>1, <2>2, <3>4 DEF Holding
        <4>2. signed'[p] = signed[p]
          BY <1>0, <1>7, <3>4 DEF DaemonTypeOK, CountSignature
        <4> QED BY <2>1, <3>2, <4>1, <4>2
      <3> QED BY <3>3, <3>4
    <2>4. \A r \in Slots : slot'[r].st \in {"allowed", "made"} =>
             daemon'.up /\ slot'[r].m.prefix \in Served
      BY <1>0, <2>1, <2>2 DEF TokenForEach
    <2> QED BY <2>3, <2>4 DEF TokenForEach
  <1>8. ASSUME NEW s \in Slots, HangUp(s) PROVE TokenForEach'
    <2>1. \A r \in Slots : slot'[r].st \in {"allowed", "made"} => slot'[r] = slot[r]
      BY <1>0, <1>8 DEF HangUp, DaemonTypeOK, Free
    <2> QED BY <1>1, <1>8, <2>1 DEF HangUp
  <1>9. CASE CloseListener \/ CloseSigner \/ Tick
    <2>1. slot' = slot /\ signed' = signed /\ (daemon.up => daemon'.up)
      BY <1>0, <1>9 DEF CloseListener, CloseSigner, Tick, DaemonTypeOK
    <2>2. \A p \in Served : granted'[p].total = granted[p].total
      BY <1>0, <1>9 DEF CloseListener, CloseSigner, Tick, DaemonTypeOK
    <2>3. \A p \in Served : Holding(p)' = Holding(p)
      BY <2>1 DEF Holding
    <2> QED BY <1>0, <2>1, <2>2, <2>3 DEF TokenForEach
  <1>10. ASSUME DaemonExit \/ NewDaemon PROVE TokenForEach'
    <2>1. \A s \in Slots : slot'[s].st \notin {"allowed", "made"}
      BY <1>0, <1>10 DEF DaemonExit, NewDaemon, Free, Replied, TokenForEach
    <2>2. \A p \in Served : Holding(p)' = {}
      BY <2>1 DEF Holding
    <2>3. ASSUME NEW p \in Served PROVE signed'[p] <= granted'[p].total /\ signed'[p] \in Nat
      <3>1. CASE NewDaemon
        BY <3>1 DEF NewDaemon, NoneGranted
      <3>2. CASE DaemonExit
        <4>1. signed[p] + Cardinality(Holding(p)) <= granted[p].total
          BY <1>0 DEF TokenForEach
        <4>2. signed[p] \in Nat /\ granted[p].total \in Nat
          BY <1>0 DEF DaemonTypeOK
        <4> QED BY <3>2, <4>1, <4>2, HoldingFinite DEF DaemonExit
      <3> QED BY <1>10, <3>1, <3>2
    <2> QED BY <2>1, <2>2, <2>3, FS_EmptySet DEF TokenForEach
  <1> QED BY <1>2, <1>3, <1>4, <1>5, <1>6, <1>7, <1>8, <1>9, <1>10 DEF DaemonNext, Handle

\* All of agw watch that touches the daemon's state is its call: it dials, takes
\* the answer, gives up, or dies.
LEMMA CallerSteps ==
    ASSUME DaemonInv, WatchTypeOK, LockInv, Next
    PROVE  DaemonNext \/ SlotStep \/ UNCHANGED daemonVars
  <1>0. DaemonTypeOK
    BY DEF DaemonInv
  <1>1. CASE SignInProcess \/ DialDaemon
    <2>1. CASE UNCHANGED daemonVars
      BY <2>1
    <2>2. ASSUME NEW s \in Slots, Accept(s, "sink", CheckpointInput),
                 UNCHANGED <<now, daemon, bucket, granted, signed, strangers>>
          PROVE  SlotStep
      <3>1. slot' \in [Slots -> SlotType]
        BY <1>0, <2>2 DEF DaemonTypeOK, Accept, SlotType, Messages, OtherMessages, Froms
      <3>2. \A r \in Slots : slot'[r].st \in {"allowed", "made"} => slot'[r] = slot[r]
        BY <1>0, <2>2 DEF DaemonTypeOK, Accept
      <3> QED BY <2>2, <3>1, <3>2 DEF SlotStep
    <2> QED BY <1>1, <2>1, <2>2 DEF SignInProcess, DialDaemon
  <1>2. CASE TakeAnswer
    <2>1. slot' = [slot EXCEPT ![call.slot] = Free]
          /\ UNCHANGED <<now, daemon, bucket, granted, signed, strangers>>
      BY <1>2 DEF TakeAnswer
    <2>2. slot' \in [Slots -> SlotType]
      BY <1>0, <2>1 DEF DaemonTypeOK, SlotType, Free
    <2>3. \A r \in Slots : slot'[r].st \in {"allowed", "made"} => slot'[r] = slot[r]
      BY <1>0, <2>1 DEF DaemonTypeOK, Free
    <2> QED BY <2>1, <2>2, <2>3 DEF SlotStep
  <1>3. ASSUME slot' = [slot EXCEPT ![call.slot].from = "gone"], call.st = "wait",
               UNCHANGED <<now, daemon, bucket, granted, signed, strangers>>
        PROVE  SlotStep
    <2> DEFINE c == call.slot
    <2>1. c \in Slots
      BY <1>3 DEF LockInv
    <2>2. slot[c] \in SlotType
      BY <1>0, <2>1 DEF DaemonTypeOK
    <2> DEFINE x == [slot[c] EXCEPT !.from = "gone"]
    <2>3. x \in SlotType /\ (x.st = slot[c].st) /\ (x.st # "free" => x.m = slot[c].m)
      BY <2>2 DEF SlotType, Froms
    <2>4. slot' = [slot EXCEPT ![c] = x]
      BY <1>3
    <2> HIDE DEF x, c
    <2>5. slot' \in [Slots -> SlotType]
      BY <1>0, <2>3, <2>4 DEF DaemonTypeOK
    <2>6. \A r \in Slots : slot'[r].st \in {"allowed", "made"} =>
             slot[r].st \in {"allowed", "made"} /\ slot'[r].m = slot[r].m
      BY <1>0, <2>1, <2>3, <2>4 DEF DaemonTypeOK
    <2> QED BY <1>3, <2>5, <2>6 DEF SlotStep
  <1>4. CASE SignTimeout
    BY <1>3, <1>4 DEF SignTimeout, daemonVars
  <1>5. ASSUME NEW n, Ended(n) PROVE SlotStep \/ UNCHANGED daemonVars
    BY <1>3, <1>5 DEF Ended, daemonVars
  <1> QED BY <1>1, <1>2, <1>4, <1>5
          DEF Next, SignCall, Handler, Main, Daemon, Resolve, Arrive, Read, WriteSpan, Sync, Answer,
              TickerCheckpoint, Told, Stop, MainCheckpoint, CloseFile, Exit, Killed

\* So the daemon keeps its invariant whatever agw watch does.
LEMMA DaemonStep ==
    ASSUME DaemonInv, WatchTypeOK, LockInv, Next
    PROVE  DaemonInv'
  BY CallerSteps, DaemonTypeStep, RateStep, TokenStep DEF DaemonInv

\* A daemon starts with full buckets and no request.
LEMMA DaemonStart ==
    ASSUME DaemonInit
    PROVE  DaemonInv
  <1> USE DaemonAssumptions
  <1>1. DaemonTypeOK
    <2>1. now \in 0..MaxNow /\ signed \in [Served -> Nat] /\ slot \in [Slots -> SlotType]
      BY DEF DaemonInit, SlotType, Free
    <2>2. daemon \in [up : BOOLEAN, listening : BOOLEAN, key : Keys, zeroed : BOOLEAN, restarts : Nat]
      <3>1. daemon \in [up : {TRUE}, listening : {TRUE}, key : Keys, zeroed : {FALSE},
                        restarts : {0}]
        BY DEF DaemonInit
      <3>2. /\ daemon = [up |-> daemon.up, listening |-> daemon.listening, key |-> daemon.key,
                         zeroed |-> daemon.zeroed, restarts |-> daemon.restarts]
            /\ daemon.up \in {TRUE} /\ daemon.listening \in {TRUE} /\ daemon.zeroed \in {FALSE}
            /\ daemon.key \in Keys /\ daemon.restarts = 0
        BY <3>1
      <3>3. /\ daemon.up \in BOOLEAN /\ daemon.listening \in BOOLEAN /\ daemon.zeroed \in BOOLEAN
            /\ daemon.key \in Keys
        BY <3>2, Zenon
      <3>4. daemon.restarts \in Nat
        BY <3>2
      <3> QED BY <3>2, <3>3, <3>4
    <2>3. /\ bucket \in [Served -> [tokens : 0..Burst, last : 0..MaxNow]]
          /\ \A p \in Served : bucket[p].last <= now
      BY DEF DaemonInit, FullBuckets
    <2>4. granted \in [Served -> [total : Nat, before : [0..MaxNow -> Nat]]]
      BY DEF DaemonInit, NoneGranted
    <2> QED BY <2>1, <2>2, <2>3, <2>4 DEF DaemonTypeOK
  <1>2. WithinRate
    <2> SUFFICES ASSUME NEW p \in Served, NEW t \in 0..now
                 PROVE  granted[p].total - granted[p].before[t] + Available(p)
                            <= Burst + Rate * (now - t)
      BY DEF WithinRate
    <2>1. now = 0 /\ t = 0 /\ granted[p].total = 0 /\ granted[p].before[t] = 0
      BY DEF DaemonInit, NoneGranted
    <2>2. Available(p) \in 0..Burst
      BY <1>1, AvailableIs
    <2>3. Rate * (now - t) = 0
      BY <2>1
    <2> QED BY <2>1, <2>2, <2>3
  <1>3. TokenForEach
    <2>1. \A s \in Slots : slot[s].st \notin {"allowed", "made"}
      BY DEF DaemonInit, Free
    <2>2. \A p \in Served : Holding(p) = {}
      BY <2>1 DEF Holding
    <2>3. \A p \in Served : signed[p] = 0 /\ granted[p].total = 0
      BY DEF DaemonInit, NoneGranted
    <2> QED BY <2>1, <2>2, <2>3, FS_EmptySet DEF TokenForEach
  <1> QED BY <1>1, <1>2, <1>3 DEF DaemonInv

\* The invariant bounds what is granted since any second, and what is signed.
LEMMA BudgetFollows ==
    ASSUME DaemonInv
    PROVE  DaemonBudget
  <1> SUFFICES ASSUME NEW p \in Served
               PROVE  /\ \A t \in 0..now : granted[p].total - granted[p].before[t]
                                              <= Burst + Rate * (now - t)
                      /\ signed[p] + Cardinality({s \in Slots : slot[s].st = "made"
                                                                   /\ slot[s].m.prefix = p})
                             <= granted[p].total
    BY DEF DaemonBudget
  <1> USE DaemonAssumptions
  <1>1. ASSUME NEW t \in 0..now
        PROVE  granted[p].total - granted[p].before[t] <= Burst + Rate * (now - t)
    <2>1. granted[p].total - granted[p].before[t] + Available(p) <= Burst + Rate * (now - t)
      BY DEF DaemonInv, WithinRate
    <2>2. Available(p) \in Nat
      BY AvailableIs DEF DaemonInv
    <2>3. granted[p] \in [total : Nat, before : [0..MaxNow -> Nat]] /\ t \in 0..MaxNow
          /\ now \in Nat
      BY DEF DaemonInv, DaemonTypeOK
    <2>4. now - t \in Nat
      BY <2>3
    <2>5. Rate * (now - t) \in Nat
      BY <2>4
    <2>6. granted[p].total \in Nat /\ granted[p].before[t] \in Nat /\ Burst \in Nat
      BY <2>3
    <2> QED BY <2>1, <2>2, <2>5, <2>6
  <1>2. signed[p] + Cardinality({s \in Slots : slot[s].st = "made" /\ slot[s].m.prefix = p})
            <= granted[p].total
    <2> DEFINE M == {s \in Slots : slot[s].st = "made" /\ slot[s].m.prefix = p}
    <2>1. M \subseteq Holding(p)
      BY DEF Holding
    <2>2. Cardinality(M) <= Cardinality(Holding(p)) /\ Cardinality(M) \in Nat
      BY <2>1, HoldingFinite, FS_Subset, FS_CardinalityType
    <2>3. signed[p] + Cardinality(Holding(p)) <= granted[p].total
      BY DEF DaemonInv, TokenForEach
    <2>4. signed[p] \in Nat /\ granted[p].total \in Nat
      BY DEF DaemonInv, DaemonTypeOK
    <2> HIDE DEF M
    <2>5. signed[p] + Cardinality(M) <= granted[p].total
      BY <2>2, <2>3, <2>4, HoldingFinite
    <2> QED BY <2>5 DEF M
  <1> QED BY <1>1, <1>2

-----------------------------------------------------------------------------
(* What the steps of agw watch do *)

\* The sink's lock is released, with a checkpoint if the signature verifies and
\* with an error if not; the sink itself stays what it is.
LEMMA UnlockedIs ==
    ASSUME WatchTypeOK, NEW sig \in KeyValues, NEW synced \in BOOLEAN
    PROVE  LET u == Unlocked(sink, sig, synced)
           IN /\ u \in SinkType /\ u.owner = None /\ u.open = sink.open
              /\ Verifies(sig) =>
                    /\ u.log = Append(sink.log, Checkpoint(sig)) /\ u.since = 0
                    /\ ~u.cpErr /\ u.flushed \in {sink.flushed, Len(u.log)}
              /\ ~Verifies(sig) =>
                    u.log = sink.log /\ u.since = sink.since /\ u.cpErr /\ u.flushed = sink.flushed
  <1> DEFINE L == Append(sink.log, Checkpoint(sig))
  <1>1. /\ sink \in SinkType /\ sink.log \in Seq(Line) /\ sink.flushed \in Nat
        /\ sink.since \in Nat /\ sink.open \in BOOLEAN
    BY DEF WatchTypeOK, SinkType
  <1>2. Checkpoint(sig) \in Line
    BY DEF Checkpoint, Line
  <1>3. L \in Seq(Line) /\ Len(L) \in Nat
    BY <1>1, <1>2
  <1>4. None \in Owners
    BY DEF Owners
  <1>5. CASE ~Verifies(sig)
    <2>1. Unlocked(sink, sig, synced) = [sink EXCEPT !.owner = None, !.cpErr = TRUE]
      BY <1>5 DEF Unlocked
    <2> QED BY <1>1, <1>4, <1>5, <2>1 DEF SinkType
  <1>6. CASE Verifies(sig)
    <2> DEFINE w == [sink EXCEPT !.owner = None, !.cpErr = FALSE, !.log = L, !.since = 0]
    <2>1. w \in SinkType /\ w.owner = None /\ w.open = sink.open /\ w.log = L /\ w.since = 0
          /\ w.cpErr = FALSE /\ w.flushed = sink.flushed
      BY <1>1, <1>3, <1>4 DEF SinkType
    <2>2. \/ Unlocked(sink, sig, synced) = w
          \/ Unlocked(sink, sig, synced) = [w EXCEPT !.flushed = Len(L)]
      <3>1. [[sink EXCEPT !.owner = None, !.cpErr = ~Verifies(sig)]
               EXCEPT !.log = Append(@, Checkpoint(sig)), !.since = 0] = w
        BY <1>1, <1>6 DEF SinkType
      <3> QED BY <1>6, <2>1, <3>1 DEF Unlocked
    <2> HIDE DEF w, L
    <2>3. [w EXCEPT !.flushed = Len(L)] \in SinkType
      BY <1>3, <2>1 DEF SinkType
    <2> QED BY <1>6, <2>1, <2>2, <2>3 DEF SinkType, L
  <1> QED BY <1>5, <1>6

\* What the end of a signature changes: the sink, who waits for it, and where
\* runWatch is if it asked.
LEMMA SignedIs ==
    ASSUME WatchTypeOK, LockInv, sink.owner # None, NEW sig \in KeyValues, Signed(sig)
    PROVE  /\ sink' \in SinkType /\ sink'.owner = None /\ sink'.open = sink.open
           /\ Verifies(sig) =>
                 /\ sink'.log = Append(sink.log, Checkpoint(sig)) /\ sink'.since = 0
                 /\ ~sink'.cpErr /\ sink'.flushed \in {sink.flushed, Len(sink'.log)}
           /\ ~Verifies(sig) =>
                 /\ sink'.log = sink.log /\ sink'.since = sink.since
                 /\ sink'.cpErr /\ sink'.flushed = sink.flushed
           /\ faults' \in Nat /\ call' = NoCall
           /\ sink.owner # "main" => phase' = phase
           /\ sink.owner = "main" /\ phase = "final" => phase' = "stats"
           /\ sink.owner = "main" /\ phase = "close" =>
                 \/ phase' = "file" /\ Verifies(sig)
                 \/ phase' = "exit" /\ (~Verifies(sig) \/ faults' > 0)
           /\ sink.owner \in Exports => export' = [export EXCEPT ![sink.owner].st = "syncing"]
           /\ sink.owner \notin Exports => export' = export
           /\ UNCHANGED <<custody, starter, keyFile, pub, ticker, stats, overrun>>
  <1>1. PICK synced \in BOOLEAN :
           /\ sink' = Unlocked(sink, sig, synced)
           /\ faults' = IF synced THEN faults ELSE faults + 1
           /\ call' = NoCall
           /\ phase' = AfterMain(Verifies(sig) /\ synced)
           /\ export' = IF sink.owner \in Exports
                        THEN [export EXCEPT ![sink.owner].st = "syncing"] ELSE export
           /\ UNCHANGED <<custody, starter, keyFile, pub, ticker, stats, overrun>>
    BY Zenon DEF Signed
  <1>2. faults' \in Nat /\ (~synced => faults' > 0)
    BY <1>1 DEF WatchTypeOK
  <1>3. /\ sink.owner # "main" => phase' = phase
        /\ sink.owner = "main" /\ phase = "final" => phase' = "stats"
        /\ sink.owner = "main" /\ phase = "close" =>
              phase' = IF Verifies(sig) /\ synced THEN "file" ELSE "exit"
    <2>1. phase' = AfterMain(Verifies(sig) /\ synced)
      BY <1>1
    <2>2. CASE sink.owner # "main"
      BY <2>1, <2>2 DEF AfterMain
    <2>3. CASE sink.owner = "main" /\ phase = "final"
      BY <2>1, <2>3 DEF AfterMain
    <2>4. CASE sink.owner = "main" /\ phase = "close"
      BY <2>1, <2>4 DEF AfterMain
    <2> QED BY <2>2, <2>3, <2>4
  <1>4. /\ sink.owner \in Exports => export' = [export EXCEPT ![sink.owner].st = "syncing"]
        /\ sink.owner \notin Exports => export' = export
        /\ call' = NoCall /\ UNCHANGED <<custody, starter, keyFile, pub, ticker, stats, overrun>>
    BY <1>1
  <1>5. sink' = Unlocked(sink, sig, synced)
    BY <1>1
  <1> QED BY <1>2, <1>3, <1>4, <1>5, UnlockedIs

\* A step of the call either connects it to a handler of the daemon or ends it.
LEMMA SignCallIs ==
    ASSUME DaemonInv, WatchTypeOK, LockInv, SignCall
    PROVE  \/ /\ call.st = "dial" /\ \E s \in Slots : call' = [st |-> "wait", slot |-> s]
              /\ UNCHANGED <<custody, starter, keyFile, pub, phase, export, sink, ticker, stats,
                             faults, overrun>>
           \/ sink.owner # None /\ \E sig \in KeyValues : Signed(sig)
  <1>1. None \in KeyValues /\ pub["watch"] \in KeyValues
    BY DEF WatchTypeOK, KeyValues, Starts
  <1>2. call.st \in {"dial", "wait"} => sink.owner # None
    BY DEF LockInv
  <1>3. ASSUME call.st = "wait", slot[call.slot].st = "answered"
        PROVE  slot[call.slot].sig \in KeyValues
    BY <1>3, SlotKinds DEF LockInv, DaemonInv, KeyValues
  <1> QED BY <1>1, <1>2, <1>3 DEF SignCall, SignInProcess, DialDaemon, TakeAnswer, SignTimeout

\* A span is refused by the sink, or it is the next line of the log.
LEMMA WriteSpanIs ==
    ASSUME WatchTypeOK, NEW e \in Exports, WriteSpan(e)
    PROVE  /\ Up /\ export[e].st = "span" /\ sink.owner = None
           /\ UNCHANGED <<custody, starter, keyFile, pub, phase, ticker, overrun>>
           /\ stats' = [stats EXCEPT !.spans = @ + 1] /\ faults' \in Nat /\ faults' >= faults
           /\ \/ /\ UNCHANGED <<sink, call>>
                 /\ export' = [export EXCEPT ![e] = NextSpan(export[e], FALSE)]
              \/ /\ sink' \in SinkType /\ sink'.log = Append(sink.log, Rec(e, export[e].done + 1))
                 /\ sink'.since = sink.since + 1 /\ sink'.flushed = sink.flushed
                 /\ \/ /\ sink'.owner = e /\ call' = Calling
                       /\ export' = [export EXCEPT ![e].st = "locked"]
                    \/ /\ sink'.owner = None /\ call' = call
                       /\ export' = [export EXCEPT ![e].st = "syncing"]
  <1> DEFINE s == [sink EXCEPT !.log = Append(@, Rec(e, export[e].done + 1)), !.since = @ + 1]
  <1>1. /\ sink \in SinkType /\ export[e] \in ExportType /\ export \in [Exports -> ExportType]
        /\ faults \in Nat
    BY DEF WatchTypeOK
  <1>2. Rec(e, export[e].done + 1) \in Line
    BY <1>1 DEF Rec, Line, KeyValues, ExportType
  <1>3. /\ s \in SinkType /\ s.log = Append(sink.log, Rec(e, export[e].done + 1))
        /\ s.since = sink.since + 1 /\ s.flushed = sink.flushed /\ s.owner = sink.owner
    <2>1. sink.log \in Seq(Line) /\ sink.since + 1 \in Nat
      BY <1>1 DEF SinkType
    <2>2. Append(sink.log, Rec(e, export[e].done + 1)) \in Seq(Line)
      BY <1>2, <2>1
    <2> QED BY <1>1, <2>1, <2>2 DEF SinkType
  <1>4. e \in Owners
    BY DEF Owners
  <1> HIDE DEF s
  <1>5. /\ [s EXCEPT !.owner = e] \in SinkType
        /\ [s EXCEPT !.owner = e].log = s.log /\ [s EXCEPT !.owner = e].since = s.since
        /\ [s EXCEPT !.owner = e].flushed = s.flushed /\ [s EXCEPT !.owner = e].owner = e
    BY <1>3, <1>4 DEF SinkType
  <1>6. /\ Up /\ export[e].st = "span" /\ sink.owner = None
        /\ UNCHANGED <<custody, starter, keyFile, pub, phase, ticker, overrun>>
        /\ stats' = [stats EXCEPT !.spans = @ + 1]
    BY DEF WriteSpan
  <1>7. faults' = faults \/ faults' = faults + 1
    BY DEF WriteSpan
  <1>8. \/ /\ UNCHANGED <<sink, call>>
           /\ export' = [export EXCEPT ![e] = NextSpan(export[e], FALSE)]
        \/ \E due \in checkpointDue(s) :
              /\ sink' = IF due THEN [s EXCEPT !.owner = e] ELSE s
              /\ call' = IF due THEN Calling ELSE call
              /\ export' = [export EXCEPT ![e] =
                               [export[e] EXCEPT !.st = IF due THEN "locked" ELSE "syncing"]]
    BY DEF WriteSpan, Set, s
  <1>9. checkpointDue(s) \subseteq BOOLEAN
    BY DEF checkpointDue
  <1>10. ASSUME NEW due \in BOOLEAN,
                sink' = IF due THEN [s EXCEPT !.owner = e] ELSE s,
                call' = IF due THEN Calling ELSE call,
                export' = [export EXCEPT ![e] =
                              [export[e] EXCEPT !.st = IF due THEN "locked" ELSE "syncing"]]
         PROVE  /\ sink' \in SinkType /\ sink'.log = Append(sink.log, Rec(e, export[e].done + 1))
                /\ sink'.since = sink.since + 1 /\ sink'.flushed = sink.flushed
                /\ \/ /\ sink'.owner = e /\ call' = Calling
                      /\ export' = [export EXCEPT ![e].st = "locked"]
                   \/ /\ sink'.owner = None /\ call' = call
                      /\ export' = [export EXCEPT ![e].st = "syncing"]
    <2>1. CASE due
      BY <1>3, <1>5, <1>10, <2>1
    <2>2. CASE ~due
      BY <1>3, <1>6, <1>10, <2>2
    <2> QED BY <2>1, <2>2
  <1>11. faults' \in Nat /\ faults' >= faults
    BY <1>1, <1>7
  <1> QED BY <1>6, <1>8, <1>9, <1>10, <1>11

\* Sync: a span is refused, or all of the log is in the file and the span counts.
LEMMA SyncIs ==
    ASSUME WatchTypeOK, NEW e \in Exports, Sync(e)
    PROVE  /\ Up /\ export[e].st = "syncing" /\ sink.owner = None
           /\ UNCHANGED <<custody, starter, keyFile, pub, phase, call, ticker, overrun>>
           /\ faults' \in Nat /\ faults' >= faults
           /\ sink' \in SinkType /\ sink'.log = sink.log /\ sink'.owner = None
           /\ sink'.since = sink.since /\ sink'.cpErr = sink.cpErr
           /\ \/ /\ UNCHANGED <<sink, stats>>
                 /\ export' = [export EXCEPT ![e] = NextSpan(export[e], FALSE)]
              \/ /\ sink'.flushed = Len(sink.log)
                 /\ stats' = [stats EXCEPT !.recorded = @ + 1]
                 /\ export' = [export EXCEPT ![e] = NextSpan(export[e], TRUE)]
  <1>1. sink \in SinkType /\ faults \in Nat
    BY DEF WatchTypeOK
  <1>2. sink.log \in Seq(Line) /\ Len(sink.log) \in Nat
    BY <1>1 DEF SinkType
  <1>3. /\ [sink EXCEPT !.flushed = Len(sink.log)] \in SinkType
        /\ [sink EXCEPT !.flushed = Len(sink.log)].log = sink.log
        /\ [sink EXCEPT !.flushed = Len(sink.log)].owner = sink.owner
        /\ [sink EXCEPT !.flushed = Len(sink.log)].since = sink.since
        /\ [sink EXCEPT !.flushed = Len(sink.log)].cpErr = sink.cpErr
        /\ [sink EXCEPT !.flushed = Len(sink.log)].flushed = Len(sink.log)
    BY <1>1, <1>2 DEF SinkType
  <1>4. /\ Up /\ export[e].st = "syncing" /\ sink.owner = None
        /\ UNCHANGED <<custody, starter, keyFile, pub, phase, call, ticker, overrun>>
    BY DEF Sync
  <1>5. faults' = faults \/ faults' = faults + 1
    BY DEF Sync
  <1>6. faults' \in Nat /\ faults' >= faults
    BY <1>1, <1>5
  <1>7. \/ /\ UNCHANGED <<sink, stats>>
           /\ export' = [export EXCEPT ![e] = NextSpan(export[e], FALSE)]
        \/ /\ sink' = [sink EXCEPT !.flushed = Len(sink.log)]
           /\ stats' = [stats EXCEPT !.recorded = @ + 1]
           /\ export' = [export EXCEPT ![e] = NextSpan(export[e], TRUE)]
    BY DEF Sync, Set
  <1>8. CASE sink' = [sink EXCEPT !.flushed = Len(sink.log)]
    BY <1>3, <1>4, <1>6, <1>7, <1>8
  <1>9. CASE /\ UNCHANGED <<sink, stats>>
             /\ export' = [export EXCEPT ![e] = NextSpan(export[e], FALSE)]
    BY <1>1, <1>4, <1>6, <1>9
  <1> QED BY <1>7, <1>8, <1>9

\* The end of the process: its handlers are cut, and the file is a part of the log
\* that has at least what was flushed.
LEMMA EndedIs ==
    ASSUME WatchTypeOK, RecordInv, NEW n \in sink.flushed..Len(sink.log), Ended(n)
    PROVE  /\ phase' = "exited" /\ ticker' = FALSE /\ call' = NoCall
           /\ sink' \in SinkType /\ sink'.log = SubSeq(sink.log, 1, n) /\ sink'.owner = None
           /\ sink'.flushed = sink.flushed /\ sink'.since = sink.since /\ sink'.cpErr = sink.cpErr
           /\ n \in Nat /\ n <= Len(sink.log)
           /\ Len(sink'.log) = n /\ \A k \in 1..n : sink'.log[k] = sink.log[k]
           /\ export' \in [Exports -> ExportType]
           /\ \A e \in Exports :
                 /\ export'[e].st = IF Active(e) THEN "cut" ELSE export[e].st
                 /\ export'[e].n = export[e].n /\ export'[e].done = export[e].done
                 /\ export'[e].failed = export[e].failed
           /\ UNCHANGED <<custody, starter, keyFile, pub, stats, faults>>
  <1>1. sink \in SinkType /\ export \in [Exports -> ExportType]
    BY DEF WatchTypeOK
  <1>2. /\ sink.log \in Seq(Line) /\ Len(sink.log) \in Nat /\ sink.flushed \in Nat
        /\ n \in Nat /\ n <= Len(sink.log)
    BY <1>1 DEF SinkType
  <1>3. /\ SubSeq(sink.log, 1, n) \in Seq(Line) /\ Len(SubSeq(sink.log, 1, n)) = n
        /\ \A k \in 1..n : SubSeq(sink.log, 1, n)[k] = sink.log[k]
    BY <1>2
  <1>4. /\ phase' = "exited" /\ ticker' = FALSE /\ call' = NoCall
        /\ sink' = [sink EXCEPT !.log = SubSeq(@, 1, n), !.owner = None, !.open = FALSE]
        /\ export' = [e \in Exports |->
                         IF Active(e) THEN [export[e] EXCEPT !.st = "cut"] ELSE export[e]]
        /\ UNCHANGED <<custody, starter, keyFile, pub, stats, faults>>
    BY DEF Ended
  <1>5. /\ sink' \in SinkType /\ sink'.log = SubSeq(sink.log, 1, n) /\ sink'.owner = None
        /\ sink'.flushed = sink.flushed /\ sink'.since = sink.since /\ sink'.cpErr = sink.cpErr
    BY <1>1, <1>3, <1>4 DEF SinkType, Owners
  <1>6. ASSUME NEW e \in Exports
        PROVE  /\ export'[e] \in ExportType
               /\ export'[e].st = IF Active(e) THEN "cut" ELSE export[e].st
               /\ export'[e].n = export[e].n /\ export'[e].done = export[e].done
               /\ export'[e].failed = export[e].failed
    BY <1>1, <1>4 DEF ExportType, ExportStates
  <1>7. export' \in [Exports -> ExportType]
    BY <1>4, <1>6
  <1> QED BY <1>2, <1>3, <1>4, <1>5, <1>6, <1>7

\* CloseFile: what is in the buffer is in the file, or the disk failed.
LEMMA CloseFileIs ==
    ASSUME WatchTypeOK, CloseFile
    PROVE  /\ phase = "file" /\ phase' = "exit" /\ sink.owner = None
           /\ sink' \in SinkType /\ sink'.log = sink.log /\ sink'.owner = None
           /\ sink'.since = sink.since /\ sink'.cpErr = sink.cpErr
           /\ faults' \in Nat
           /\ \/ sink'.flushed = Len(sink.log) /\ faults' = faults
              \/ sink'.flushed = sink.flushed /\ faults' > 0
           /\ UNCHANGED <<custody, starter, keyFile, pub, export, call, ticker, stats, overrun>>
  <1>1. sink \in SinkType /\ faults \in Nat
    BY DEF WatchTypeOK
  <1>2. Len(sink.log) \in Nat
    BY <1>1 DEF SinkType
  <1>3. /\ phase = "file" /\ phase' = "exit" /\ sink.owner = None
        /\ UNCHANGED <<custody, starter, keyFile, pub, export, call, ticker, stats, overrun>>
    BY DEF CloseFile
  <1>4. \/ /\ sink' = [sink EXCEPT !.flushed = Len(sink.log), !.open = FALSE]
           /\ faults' = faults
        \/ faults' = faults + 1 /\ sink' = sink
    BY DEF CloseFile
  <1>5. CASE sink' = [sink EXCEPT !.flushed = Len(sink.log), !.open = FALSE] /\ faults' = faults
    BY <1>1, <1>2, <1>3, <1>5 DEF SinkType
  <1>6. CASE faults' = faults + 1 /\ sink' = sink
    BY <1>1, <1>3, <1>6
  <1> QED BY <1>4, <1>5, <1>6

\* What NextSpan does to the counts of an export.
LEMMA NextSpanIs ==
    ASSUME NEW x \in ExportType, NEW ok \in BOOLEAN
    PROVE  /\ NextSpan(x, ok) \in ExportType
           /\ NextSpan(x, ok).n = x.n /\ NextSpan(x, ok).done = x.done + 1
           /\ NextSpan(x, ok).failed = IF ok THEN x.failed ELSE x.failed + 1
           /\ NextSpan(x, ok).st \in {"answer", "span"}
           /\ NextSpan(x, ok).st = "answer" => x.done + 1 = x.n
  <1>1. /\ x.done + 1 \in Nat /\ x.failed \in Nat /\ x.failed + 1 \in Nat /\ x.n \in Nat
    BY DEF ExportType
  <1>2. CASE ok
    BY <1>1, <1>2 DEF NextSpan, ExportType, ExportStates
  <1>3. CASE ~ok
    BY <1>1, <1>3 DEF NextSpan, ExportType, ExportStates
  <1> QED BY <1>2, <1>3

-----------------------------------------------------------------------------
(* Each part of the invariant is kept by each step *)

\* What an export may be set to, its types are kept.
LEMMA ExportKept ==
    ASSUME WatchTypeOK, NEW e \in Exports, NEW st \in ExportStates
    PROVE  /\ [export[e] EXCEPT !.st = st] \in ExportType
           /\ [export EXCEPT ![e].st = st] \in [Exports -> ExportType]
           /\ [export EXCEPT ![e] = [export[e] EXCEPT !.st = st]] \in [Exports -> ExportType]
  <1>1. export \in [Exports -> ExportType]
    BY DEF WatchTypeOK
  <1>2. [export[e] EXCEPT !.st = st] \in ExportType
    BY <1>1 DEF ExportType
  <1> QED BY <1>1, <1>2

\* The types of agw watch's state are kept.
LEMMA WatchTypeStep ==
    ASSUME DaemonInv, WatchTypeOK, LockInv, RecordInv, Next
    PROVE  WatchTypeOK'
  <1>0. /\ sink \in SinkType /\ export \in [Exports -> ExportType] /\ faults \in Nat
        /\ stats \in [spans : Nat, recorded : Nat, rejected : Nat]
    BY DEF WatchTypeOK
  <1>a. NoCall \in [st : {"none", "dial", "wait"}, slot : Slots \cup {None}]
        /\ Calling \in [st : {"none", "dial", "wait"}, slot : Slots \cup {None}]
    BY DEF NoCall, Calling
  <1>b. ASSUME NEW o \in Owners PROVE [sink EXCEPT !.owner = o] \in SinkType
    BY <1>0 DEF SinkType
  <1>1. CASE Resolve
    <2>1. /\ starter' \in [Starts -> {"stat", "create", "write", "load", "ready", "failed"}]
          /\ keyFile' \in KeyValues /\ pub' \in [Starts -> KeyValues]
      <3>1. ASSUME NEW p \in Starts, ResolveFile(p)
            PROVE  /\ starter' \in [Starts -> {"stat", "create", "write", "load", "ready", "failed"}]
                   /\ keyFile' \in KeyValues /\ pub' \in [Starts -> KeyValues]
        BY <3>1 DEF WatchTypeOK, ResolveFile, writeKeypair, KeyOf, KeyValues
      <3>2. ASSUME NEW p \in Starts, StartKilled(p)
            PROVE  /\ starter' \in [Starts -> {"stat", "create", "write", "load", "ready", "failed"}]
                   /\ keyFile' \in KeyValues /\ pub' \in [Starts -> KeyValues]
        BY <3>2 DEF WatchTypeOK, StartKilled
      <3>3. CASE ResolveDaemon
        <4>1. daemon.key \in Keys
          BY DEF DaemonInv, DaemonTypeOK
        <4> QED BY <3>3, <4>1 DEF WatchTypeOK, ResolveDaemon, KeyValues
      <3> QED BY <1>1, <3>1, <3>2, <3>3 DEF Resolve
    <2>2. phase' \in Phases
      BY <1>1 DEF Resolve, WatchTypeOK, Phases
    <2>3. UNCHANGED <<custody, export, sink, call, ticker, stats, faults, overrun>>
      BY <1>1 DEF Resolve
    <2> QED BY <2>1, <2>2, <2>3 DEF WatchTypeOK
  <1>2. ASSUME NEW e \in Exports, Arrive(e) PROVE WatchTypeOK'
    <2>1. export' \in [Exports -> ExportType]
      <3>1. PICK n \in 1..MaxSpans :
               export' = [export EXCEPT ![e] = [st |-> "reading", n |-> n, done |-> 0, failed |-> 0]]
        BY <1>2 DEF Arrive, Set
      <3>2. [st |-> "reading", n |-> n, done |-> 0, failed |-> 0] \in ExportType
        BY DEF ExportType, ExportStates
      <3> QED BY <1>0, <3>1, <3>2
    <2> QED BY <1>2, <2>1 DEF WatchTypeOK, Arrive
  <1>3. ASSUME NEW e \in Exports, Read(e) PROVE WatchTypeOK'
    <2>1. export' \in [Exports -> ExportType]
      <3>1. \/ export' = [export EXCEPT ![e] = [export[e] EXCEPT !.st = "refused"]]
            \/ export' = [export EXCEPT ![e] = [export[e] EXCEPT !.st = "span"]]
        BY <1>3 DEF Read, Set
      <3>2. "refused" \in ExportStates /\ "span" \in ExportStates
        BY DEF ExportStates
      <3>3. /\ [export EXCEPT ![e] = [export[e] EXCEPT !.st = "refused"]] \in [Exports -> ExportType]
            /\ [export EXCEPT ![e] = [export[e] EXCEPT !.st = "span"]] \in [Exports -> ExportType]
        BY <3>2, ExportKept, Zenon
      <3> QED BY <3>1, <3>3, Zenon
    <2>2. stats' \in [spans : Nat, recorded : Nat, rejected : Nat]
      BY <1>0, <1>3 DEF Read
    <2> QED BY <1>3, <2>1, <2>2 DEF WatchTypeOK, Read
  <1>4. ASSUME NEW e \in Exports, WriteSpan(e) PROVE WatchTypeOK'
    <2>1. export' \in [Exports -> ExportType]
      <3>1. NextSpan(export[e], FALSE) \in ExportType
        BY <1>0, NextSpanIs
      <3>2. [export EXCEPT ![e] = NextSpan(export[e], FALSE)] \in [Exports -> ExportType]
        BY <1>0, <3>1
      <3>3. \/ export' = [export EXCEPT ![e] = NextSpan(export[e], FALSE)]
            \/ export' = [export EXCEPT ![e].st = "locked"]
            \/ export' = [export EXCEPT ![e].st = "syncing"]
        BY <1>4, WriteSpanIs
      <3>4. "locked" \in ExportStates /\ "syncing" \in ExportStates
        BY DEF ExportStates
      <3>5. /\ [export EXCEPT ![e].st = "locked"] \in [Exports -> ExportType]
            /\ [export EXCEPT ![e].st = "syncing"] \in [Exports -> ExportType]
        BY <3>4, ExportKept, Zenon
      <3> QED BY <3>2, <3>3, <3>5, Zenon
    <2>2. stats' \in [spans : Nat, recorded : Nat, rejected : Nat]
      <3>1. stats' = [stats EXCEPT !.spans = @ + 1]
        BY <1>4, WriteSpanIs
      <3> QED BY <1>0, <3>1
    <2>3. /\ sink' \in SinkType /\ faults' \in Nat
          /\ call' \in [st : {"none", "dial", "wait"}, slot : Slots \cup {None}]
          /\ UNCHANGED <<custody, starter, keyFile, pub, phase, ticker, overrun>>
      BY <1>0, <1>a, <1>4, WriteSpanIs DEF WatchTypeOK
    <2> QED BY <2>1, <2>2, <2>3 DEF WatchTypeOK
  <1>5. ASSUME NEW e \in Exports, Sync(e) PROVE WatchTypeOK'
    <2>1. export' \in [Exports -> ExportType]
      <3>1. NextSpan(export[e], FALSE) \in ExportType /\ NextSpan(export[e], TRUE) \in ExportType
        BY <1>0, NextSpanIs
      <3>2. /\ [export EXCEPT ![e] = NextSpan(export[e], FALSE)] \in [Exports -> ExportType]
            /\ [export EXCEPT ![e] = NextSpan(export[e], TRUE)] \in [Exports -> ExportType]
        BY <1>0, <3>1
      <3> QED BY <1>5, <3>2, SyncIs
    <2>2. stats' \in [spans : Nat, recorded : Nat, rejected : Nat]
      <3>1. stats' = stats \/ stats' = [stats EXCEPT !.recorded = @ + 1]
        BY <1>5, SyncIs
      <3> QED BY <1>0, <3>1
    <2>3. /\ sink' \in SinkType /\ faults' \in Nat
          /\ UNCHANGED <<custody, starter, keyFile, pub, phase, call, ticker, overrun>>
      BY <1>5, SyncIs
    <2> QED BY <2>1, <2>2, <2>3 DEF WatchTypeOK
  <1>6. ASSUME NEW e \in Exports, Answer(e) PROVE WatchTypeOK'
    <2>1. export' \in [Exports -> ExportType]
      BY <1>6, ExportKept DEF Answer, Set, ExportStates
    <2> QED BY <1>6, <2>1 DEF WatchTypeOK, Answer
  <1>7. ASSUME sink.owner # None, NEW sig \in KeyValues, Signed(sig) PROVE WatchTypeOK'
    <2>1. export' \in [Exports -> ExportType]
      <3>1. "syncing" \in ExportStates
        BY DEF ExportStates
      <3>2. CASE sink.owner \in Exports
        <4>1. export' = [export EXCEPT ![sink.owner].st = "syncing"]
          BY <1>7, <3>2, SignedIs
        <4> QED BY <3>1, <3>2, <4>1, ExportKept
      <3>3. CASE sink.owner \notin Exports
        BY <1>0, <1>7, <3>3, SignedIs
      <3> QED BY <3>2, <3>3
    <2>2. phase' \in Phases
      BY <1>7, SignedIs DEF WatchTypeOK, LockInv, Phases
    <2>3. /\ sink' \in SinkType /\ faults' \in Nat /\ call' = NoCall
          /\ UNCHANGED <<custody, starter, keyFile, pub, ticker, stats, overrun>>
      BY <1>7, SignedIs
    <2> QED BY <1>a, <2>1, <2>2, <2>3 DEF WatchTypeOK
  <1>8. ASSUME NEW s \in Slots, call' = [st |-> "wait", slot |-> s],
               UNCHANGED <<custody, starter, keyFile, pub, phase, export, sink, ticker, stats,
                           faults, overrun>>
        PROVE  WatchTypeOK'
    BY <1>8 DEF WatchTypeOK
  <1>9. CASE SignCall
    BY <1>7, <1>8, <1>9, SignCallIs
  <1>10. CASE TickerCheckpoint
    BY <1>a, <1>b, <1>10 DEF WatchTypeOK, TickerCheckpoint, Owners
  <1>11. CASE Told \/ Stop
    <2>1. /\ phase' \in Phases
          /\ UNCHANGED <<custody, starter, keyFile, pub, export, sink, call, ticker, stats, faults>>
      BY <1>11 DEF Told, Stop, Shutdown, GracefulStop, Phases
    <2>2. overrun' \in BOOLEAN
      BY <1>11 DEF Told, Stop, Shutdown, GracefulStop, WatchTypeOK
    <2> QED BY <2>1, <2>2 DEF WatchTypeOK
  <1>12. CASE MainCheckpoint
    <2>1. /\ phase' \in Phases /\ ticker' \in BOOLEAN /\ sink' \in SinkType
          /\ call' \in [st : {"none", "dial", "wait"}, slot : Slots \cup {None}]
      BY <1>0, <1>a, <1>b, <1>12 DEF MainCheckpoint, WatchTypeOK, Phases, Owners
    <2> QED BY <1>12, <2>1 DEF WatchTypeOK, MainCheckpoint
  <1>13. CASE CloseFile
    <2>1. phase' \in Phases
      BY <1>13, CloseFileIs DEF Phases
    <2> QED BY <1>13, <2>1, CloseFileIs DEF WatchTypeOK
  <1>14. CASE Exit \/ Killed
    <2>1. PICK n \in sink.flushed..Len(sink.log) : Ended(n)
      BY <1>14 DEF Exit, Killed
    <2>2. overrun' \in BOOLEAN
      BY <1>14 DEF Exit, Killed, WatchTypeOK
    <2>3. phase' \in Phases /\ ticker' \in BOOLEAN
      BY <2>1, EndedIs DEF Phases
    <2> QED BY <1>a, <2>1, <2>2, <2>3, EndedIs DEF WatchTypeOK
  <1>15. CASE UNCHANGED watchVars
    BY <1>15 DEF WatchTypeOK, watchVars
  <1> QED BY <1>1, <1>2, <1>3, <1>4, <1>5, <1>6, <1>9, <1>10, <1>11, <1>12, <1>13, <1>14, <1>15
          DEF Next, Handler, Main, Daemon

\* A start ends in serving or not at all; the other command's is none of runWatch's.
LEMMA ResolveIs ==
    ASSUME WatchTypeOK, KeyInv, Resolve
    PROVE  /\ UNCHANGED <<custody, export, sink, call, ticker, stats, faults, overrun>>
           /\ phase' = phase \/ (phase = "start" /\ phase' \in {"serving", "exited"})
           /\ phase' = "start" <=> starter'["watch"] \notin {"ready", "failed"}
           /\ starter'["watch"] = "failed" => phase' = "exited"
  <1> DEFINE w == starter["watch"]
  <1>1. UNCHANGED <<custody, export, sink, call, ticker, stats, faults, overrun>>
    BY DEF Resolve
  <1>2. starter'["watch"] = w \/ w \notin {"ready", "failed"}
    <2>1. ASSUME NEW p \in Starts, ResolveFile(p)
          PROVE  starter'["watch"] = w \/ w \notin {"ready", "failed"}
      BY <2>1 DEF ResolveFile, writeKeypair, WatchTypeOK, Starts
    <2>2. ASSUME NEW p \in Starts, StartKilled(p)
          PROVE  starter'["watch"] = w \/ w \notin {"ready", "failed"}
      BY <2>2 DEF StartKilled, WatchTypeOK, Starts
    <2>3. CASE ResolveDaemon
      BY <2>3 DEF ResolveDaemon
    <2> QED BY <2>1, <2>2, <2>3 DEF Resolve
  <1>3. phase' = CASE starter'["watch"] = "ready" /\ phase = "start" -> "serving"
                   [] starter'["watch"] = "failed" -> "exited"
                   [] OTHER -> phase
    BY DEF Resolve
  <1>4. CASE starter'["watch"] = "ready" /\ phase = "start"
    BY <1>1, <1>3, <1>4
  <1>5. CASE starter'["watch"] = "failed"
    <2>1. phase' = "exited"
      BY <1>3, <1>5
    <2> QED BY <1>1, <1>2, <1>5, <2>1 DEF KeyInv
  <1>6. CASE ~(starter'["watch"] = "ready" /\ phase = "start") /\ starter'["watch"] # "failed"
    <2>1. phase' = phase
      BY <1>3, <1>6
    <2> QED BY <1>1, <1>2, <1>6, <2>1 DEF KeyInv
  <1> QED BY <1>4, <1>5, <1>6

\* The lock and those who wait for it, after each step.
LEMMA LockStep ==
    ASSUME DaemonInv, WatchTypeOK, LockInv, KeyInv, RecordInv, Next
    PROVE  LockInv'
  <1> USE WatchAssumptions
  <1>0. /\ sink \in SinkType /\ export \in [Exports -> ExportType]
        /\ \A e \in Exports : e # None /\ e # "main" /\ e # "ticker"
        /\ None # "main" /\ None # "ticker"
    BY DEF WatchTypeOK
  <1>c. NoCall.st = "none" /\ Calling.st = "dial"
    BY DEF NoCall, Calling
  <1>1. CASE Resolve
    <2>1. /\ UNCHANGED <<custody, export, sink, call, ticker, stats, faults, overrun>>
          /\ phase' = phase \/ (phase = "start" /\ phase' \in {"serving", "exited"})
      BY <1>1, ResolveIs
    <2>2. \A e \in Exports : Active(e)' <=> Active(e)
      BY <2>1 DEF Active
    <2> QED BY <1>0, <2>1, <2>2 DEF LockInv
  <1>2. ASSUME NEW e \in Exports, NEW x,
               export' = [export EXCEPT ![e] = x], x.st # "locked", export[e].st # "locked",
               UNCHANGED <<phase, call, ticker>>, sink'.owner = sink.owner, Up
        PROVE  LockInv'
    <2>1. \A r \in Exports : export'[r].st = "locked" <=> export[r].st = "locked"
      BY <1>0, <1>2
    <2> QED BY <1>2, <2>1 DEF LockInv, Up
  <1>3. ASSUME NEW e \in Exports, Arrive(e) PROVE LockInv'
    <2>1. PICK n \in 1..MaxSpans :
             export' = [export EXCEPT ![e] = [st |-> "reading", n |-> n, done |-> 0, failed |-> 0]]
      BY <1>3 DEF Arrive, Set
    <2>2. export[e].st # "locked" /\ UNCHANGED <<phase, call, ticker, sink>> /\ Up
      BY <1>3 DEF Arrive, Open, Up
    <2> DEFINE x == [st |-> "reading", n |-> n, done |-> 0, failed |-> 0]
    <2>3. x.st # "locked"
      OBVIOUS
    <2> HIDE DEF x
    <2>4. export' = [export EXCEPT ![e] = x]
      BY <2>1 DEF x
    <2> QED BY <1>2, <2>2, <2>3, <2>4
  <1>4. ASSUME NEW e \in Exports, Read(e) PROVE LockInv'
    <2>1. PICK st \in {"refused", "span"} :
             export' = [export EXCEPT ![e] = [export[e] EXCEPT !.st = st]]
      BY <1>4 DEF Read, Set
    <2>2. export[e].st # "locked" /\ UNCHANGED <<phase, call, ticker, sink>> /\ Up
      BY <1>4 DEF Read
    <2>3. [export[e] EXCEPT !.st = st].st = st
      BY <1>0 DEF ExportType
    <2> QED BY <1>2, <2>1, <2>2, <2>3
  <1>5. ASSUME NEW e \in Exports, WriteSpan(e) PROVE LockInv'
    <2>1. Up /\ export[e].st = "span" /\ sink.owner = None /\ UNCHANGED <<phase, ticker>>
      BY <1>5, WriteSpanIs
    <2>2. CASE UNCHANGED <<sink, call>> /\ export' = [export EXCEPT ![e] = NextSpan(export[e], FALSE)]
      <3>1. NextSpan(export[e], FALSE).st # "locked"
        BY <1>0, NextSpanIs
      <3> QED BY <1>2, <2>1, <2>2, <3>1
    <2>3. CASE sink'.owner = e /\ call' = Calling /\ export' = [export EXCEPT ![e].st = "locked"]
      <3>1. /\ export'[e].st = "locked"
            /\ \A r \in Exports \ {e} : export'[r].st # "locked"
        BY <1>0, <2>1, <2>3 DEF LockInv, ExportType
      <3> QED BY <1>0, <1>c, <2>1, <2>3, <3>1 DEF LockInv, Up
    <2>4. CASE sink'.owner = None /\ call' = call /\ export' = [export EXCEPT ![e].st = "syncing"]
      <3>1. export' = [export EXCEPT ![e] = [export[e] EXCEPT !.st = "syncing"]]
        BY <2>4
      <3>2. [export[e] EXCEPT !.st = "syncing"].st = "syncing"
        BY <1>0 DEF ExportType
      <3> QED BY <1>2, <2>1, <2>4, <3>1, <3>2
    <2> QED BY <1>5, <2>2, <2>3, <2>4, WriteSpanIs
  <1>6. ASSUME NEW e \in Exports, Sync(e) PROVE LockInv'
    <2>1. /\ Up /\ export[e].st = "syncing" /\ sink.owner = None /\ sink'.owner = None
          /\ UNCHANGED <<phase, call, ticker>>
      BY <1>6, SyncIs
    <2>2. PICK ok \in BOOLEAN : export' = [export EXCEPT ![e] = NextSpan(export[e], ok)]
      BY <1>6, SyncIs
    <2>3. NextSpan(export[e], ok).st # "locked"
      BY <1>0, NextSpanIs
    <2> QED BY <1>2, <2>1, <2>2, <2>3
  <1>7. ASSUME NEW e \in Exports, Answer(e) PROVE LockInv'
    <2>1. /\ export' = [export EXCEPT ![e] = [export[e] EXCEPT !.st = "answered"]]
          /\ export[e].st # "locked" /\ UNCHANGED <<phase, call, ticker, sink>> /\ Up
      BY <1>7 DEF Answer, Set
    <2>2. [export[e] EXCEPT !.st = "answered"].st = "answered"
      BY <1>0 DEF ExportType
    <2> QED BY <1>2, <2>1, <2>2
  <1>8. ASSUME sink.owner # None, NEW sig \in KeyValues, Signed(sig) PROVE LockInv'
    <2>1. /\ sink'.owner = None /\ call' = NoCall
          /\ sink.owner # "main" => phase' = phase
          /\ sink.owner = "main" => phase' \in {"stats", "file", "exit"}
          /\ sink.owner \in Exports => export' = [export EXCEPT ![sink.owner].st = "syncing"]
          /\ sink.owner \notin Exports => export' = export
      BY <1>8, SignedIs DEF LockInv
    <2>2. \A e \in Exports : export'[e].st # "locked"
      BY <1>0, <2>1 DEF LockInv, ExportType
    <2>3. phase' \notin {"start", "exited"}
      BY <1>8, <2>1 DEF LockInv
    <2> QED BY <1>0, <1>c, <2>1, <2>2, <2>3 DEF LockInv
  <1>9. ASSUME NEW s \in Slots, call.st = "dial", call' = [st |-> "wait", slot |-> s],
               UNCHANGED <<phase, export, sink, ticker>>
        PROVE  LockInv'
    <2>1. \A e \in Exports : Active(e)' <=> Active(e)
      BY <1>9 DEF Active
    <2> QED BY <1>9, <2>1 DEF LockInv
  <1>10. CASE SignCall
    BY <1>8, <1>9, <1>10, SignCallIs
  <1>11. CASE TickerCheckpoint
    <2>1. /\ sink'.owner = "ticker" /\ sink.owner = None /\ call' = Calling /\ ticker
          /\ UNCHANGED <<phase, export, ticker>> /\ phase \notin {"start", "exited"}
      BY <1>0, <1>11 DEF TickerCheckpoint, SinkType, Up
    <2> QED BY <1>0, <1>c, <2>1 DEF LockInv
  <1>12. CASE Told \/ Stop
    <2>1. /\ phase \in {"serving", "shutdown", "grpcstop", "stats"}
          /\ phase' \in {"shutdown", "grpcstop", "final", "close"}
          /\ UNCHANGED <<export, sink, call, ticker>>
      BY <1>12 DEF Told, Stop, Shutdown, GracefulStop
    <2> QED BY <1>0, <2>1 DEF LockInv
  <1>13. CASE MainCheckpoint
    <2>1. /\ phase \in {"final", "close"} /\ sink.owner = None /\ export' = export
          /\ ticker' = (ticker /\ phase = "final")
      BY <1>13 DEF MainCheckpoint
    <2>2. \/ phase' \in {"stats", "file"} /\ UNCHANGED <<sink, call>>
          \/ sink'.owner = "main" /\ call' = Calling /\ phase' = phase
      BY <1>0, <1>13 DEF MainCheckpoint, SinkType
    <2>3. \A e \in Exports : export[e].st # "locked"
      BY <1>0, <2>1 DEF LockInv
    <2> QED BY <1>0, <1>c, <2>1, <2>2, <2>3 DEF LockInv
  <1>14. CASE CloseFile
    <2>1. /\ phase' = "exit" /\ sink.owner = None /\ sink'.owner = None
          /\ UNCHANGED <<export, call, ticker>>
      BY <1>14, CloseFileIs
    <2> QED BY <1>0, <2>1 DEF LockInv
  <1>15. CASE Exit \/ Killed
    <2>1. PICK n \in sink.flushed..Len(sink.log) : Ended(n)
      BY <1>15 DEF Exit, Killed
    <2>2. /\ phase' = "exited" /\ ticker' = FALSE /\ call' = NoCall /\ sink'.owner = None
          /\ \A e \in Exports : export'[e].st = IF Active(e) THEN "cut" ELSE export[e].st
      BY <2>1, EndedIs
    <2>3. \A e \in Exports : export'[e].st \in {"idle", "answered", "refused", "cut"}
      BY <2>2 DEF Active
    <2>4. \A e \in Exports : ~Active(e)'
      BY <2>3 DEF Active
    <2> QED BY <1>0, <1>c, <2>2, <2>3, <2>4 DEF LockInv
  <1>16. CASE UNCHANGED watchVars
    <2>1. \A e \in Exports : Active(e)' <=> Active(e)
      BY <1>16 DEF Active, watchVars
    <2> QED BY <1>16, <2>1 DEF LockInv, watchVars
  <1> QED BY <1>1, <1>3, <1>4, <1>5, <1>6, <1>7, <1>10, <1>11, <1>12, <1>13, <1>14, <1>15, <1>16
          DEF Next, Handler, Main, Daemon

\* The key that is loaded is the one in the file, and the file has it for good:
\* O_EXCL lets one command write, and it writes once.
LEMMA FileKeyStep ==
    ASSUME WatchTypeOK, KeyInv, Resolve, custody = "file"
    PROVE  \A p \in Starts :
              /\ starter'[p] = "load" => keyFile' # None
              /\ starter'[p] = "write" =>
                    keyFile' = "empty" /\ \A q \in Starts \ {p} : starter'[q] # "write"
              /\ starter'[p] = "ready" => pub'[p] = keyFile' /\ keyFile' \notin {None, "empty"}
  <1> USE WatchAssumptions
  <1>1. \A p \in Starts :
           /\ starter[p] = "load" => keyFile # None
           /\ starter[p] = "write" => keyFile = "empty" /\ \A q \in Starts \ {p} : starter[q] # "write"
           /\ starter[p] = "ready" => pub[p] = keyFile /\ keyFile \notin {None, "empty"}
    BY DEF KeyInv
  <1>2. starter \in [Starts -> {"stat", "create", "write", "load", "ready", "failed"}]
        /\ pub \in [Starts -> KeyValues]
    BY DEF WatchTypeOK
  <1>3. ASSUME NEW r \in Starts, StartKilled(r)
        PROVE  \A p \in Starts :
                  /\ starter'[p] = "load" => keyFile' # None
                  /\ starter'[p] = "write" =>
                        keyFile' = "empty" /\ \A q \in Starts \ {p} : starter'[q] # "write"
                  /\ starter'[p] = "ready" => pub'[p] = keyFile' /\ keyFile' \notin {None, "empty"}
    BY <1>1, <1>2, <1>3 DEF StartKilled
  <1>4. ASSUME NEW r \in Starts, ResolveFile(r)
        PROVE  \A p \in Starts :
                  /\ starter'[p] = "load" => keyFile' # None
                  /\ starter'[p] = "write" =>
                        keyFile' = "empty" /\ \A q \in Starts \ {p} : starter'[q] # "write"
                  /\ starter'[p] = "ready" => pub'[p] = keyFile' /\ keyFile' \notin {None, "empty"}
    <2>1. CASE /\ starter[r] = "stat" /\ UNCHANGED <<keyFile, pub>>
               /\ starter' = [starter EXCEPT ![r] = IF keyFile = None THEN "create" ELSE "load"]
      BY <1>1, <1>2, <2>1
    <2>2. CASE writeKeypair(r) /\ UNCHANGED pub
      BY <1>1, <1>2, <2>2 DEF writeKeypair
    <2>3. CASE /\ starter[r] = "write" /\ UNCHANGED pub
               /\ keyFile' = KeyOf(r) /\ starter' = [starter EXCEPT ![r] = "load"]
      <3>1. KeyOf(r) \notin {None, "empty"}
        BY DEF KeyOf, Starts
      <3> QED BY <1>1, <1>2, <2>3, <3>1
    <2>4. CASE /\ starter[r] = "load" /\ UNCHANGED keyFile
               /\ starter' = [starter EXCEPT ![r] = IF keyFile = "empty" THEN "failed" ELSE "ready"]
               /\ pub' = [pub EXCEPT ![r] = IF keyFile = "empty" THEN None ELSE keyFile]
      BY <1>1, <1>2, <2>4
    <2> QED BY <1>4, <2>1, <2>2, <2>3, <2>4 DEF ResolveFile
  <1> QED BY <1>3, <1>4 DEF Resolve, ResolveDaemon

\* One key signs the log: a line is added only with a signature that verifies
\* under it, and it is not changed once there can be a line.
LEMMA KeyStep ==
    ASSUME DaemonInv, WatchTypeOK, LockInv, KeyInv, RecordInv, Next
    PROVE  KeyInv'
  <1> USE WatchAssumptions
  <1>0. sink \in SinkType /\ sink.log \in Seq(Line) /\ Len(sink.log) \in Nat
    BY DEF WatchTypeOK, SinkType
  <1>1. CASE Resolve
    <2>1. /\ sink' = sink /\ custody' = custody
          /\ phase' = "start" <=> starter'["watch"] \notin {"ready", "failed"}
          /\ starter'["watch"] = "failed" => phase' = "exited"
      BY <1>1, ResolveIs
    <2>2. starter["watch"] = "ready" => starter'["watch"] = "ready" /\ pub'["watch"] = pub["watch"]
      <3>1. ASSUME starter["watch"] = "ready", NEW p \in Starts, ResolveFile(p) \/ StartKilled(p)
            PROVE  starter'["watch"] = "ready" /\ pub'["watch"] = pub["watch"]
        BY <3>1 DEF ResolveFile, writeKeypair, StartKilled, WatchTypeOK, Starts
      <3>2. ASSUME starter["watch"] = "ready" PROVE ~ResolveDaemon
        BY <3>2 DEF ResolveDaemon
      <3> QED BY <1>1, <3>1, <3>2 DEF Resolve
    <2>3. starter["watch"] # "ready" => Len(sink.log) = 0
      BY DEF KeyInv
    <2>4. starter'["watch"] # "ready" => sink'.log = <<>>
      BY <2>1, <2>2 DEF KeyInv
    <2>5. \A k \in 1..Len(sink'.log) : sink'.log[k].kind = "cp" => sink'.log[k].key = pub'["watch"]
      BY <1>0, <2>1, <2>2, <2>3 DEF KeyInv
    <2> QED BY <1>1, <2>1, <2>4, <2>5, FileKeyStep DEF KeyInv
  <1>2. ASSUME UNCHANGED <<custody, starter, keyFile, pub>>, phase # "start", phase' # "start",
               starter["watch"] # "ready" => sink'.log = <<>>,
               starter["watch"] = "failed" => phase' = "exited",
               \A k \in 1..Len(sink'.log) :
                  sink'.log[k].kind = "cp" => sink'.log[k].key = pub["watch"]
        PROVE  KeyInv'
    BY <1>2 DEF KeyInv
  <1>3. ASSUME UNCHANGED <<custody, starter, keyFile, pub, phase>>, sink'.log = sink.log
        PROVE  KeyInv'
    BY <1>3 DEF KeyInv
  <1>4. ASSUME NEW e \in Exports, Arrive(e) \/ Read(e) \/ Answer(e) PROVE KeyInv'
    BY <1>3, <1>4 DEF Arrive, Read, Answer
  <1>5. ASSUME NEW e \in Exports, Sync(e) PROVE KeyInv'
    BY <1>3, <1>5, SyncIs
  <1>6. ASSUME NEW x \in Line, sink'.log = Append(sink.log, x), phase \notin {"start", "exited"},
               x.kind = "cp" => x.key = pub["watch"],
               UNCHANGED <<custody, starter, keyFile, pub>>, phase' # "start"
        PROVE  KeyInv'
    <2>1. starter["watch"] = "ready"
      BY <1>6 DEF KeyInv
    <2>2. /\ Len(sink'.log) = Len(sink.log) + 1 /\ sink'.log[Len(sink.log) + 1] = x
          /\ \A k \in 1..Len(sink.log) : sink'.log[k] = sink.log[k]
      BY <1>0, <1>6
    <2>3. \A k \in 1..Len(sink.log) : sink.log[k].kind = "cp" => sink.log[k].key = pub["watch"]
      BY DEF KeyInv
    <2>4. ASSUME NEW k \in 1..Len(sink'.log), sink'.log[k].kind = "cp"
          PROVE  sink'.log[k].key = pub["watch"]
      <3>1. k \in 1..Len(sink.log) \/ k = Len(sink.log) + 1
        BY <1>0, <2>2
      <3> QED BY <1>6, <2>2, <2>3, <2>4, <3>1
    <2> QED BY <1>2, <1>6, <2>1, <2>4
  <1>7. ASSUME NEW e \in Exports, WriteSpan(e) PROVE KeyInv'
    <2> DEFINE x == Rec(e, export[e].done + 1)
    <2>1. x \in Line /\ x.kind # "cp"
      BY DEF Rec, Line, WatchTypeOK, ExportType, KeyValues
    <2>2. /\ phase \notin {"start", "exited"} /\ UNCHANGED <<custody, starter, keyFile, pub, phase>>
          /\ sink' = sink \/ sink'.log = Append(sink.log, x)
      BY <1>7, WriteSpanIs DEF Up
    <2> HIDE DEF x
    <2> QED BY <1>3, <1>6, <2>1, <2>2
  <1>8. ASSUME sink.owner # None, NEW sig \in KeyValues, Signed(sig) PROVE KeyInv'
    <2> DEFINE x == Checkpoint(sig)
    <2>1. x \in Line /\ x.key = sig
      BY DEF Checkpoint, Line
    <2>2. phase \notin {"start", "exited"}
      BY <1>8 DEF LockInv
    <2>3. UNCHANGED <<custody, starter, keyFile, pub>>
      BY <1>8, SignedIs
    <2>4. phase' # "start"
      BY <1>8, <2>2, SignedIs DEF LockInv
    <2>5. CASE Verifies(sig)
      <3>1. sink'.log = Append(sink.log, x) /\ x.key = pub["watch"]
        BY <1>8, <2>1, <2>5, SignedIs DEF Verifies
      <3> HIDE DEF x
      <3> QED BY <1>6, <2>1, <2>2, <2>3, <2>4, <3>1
    <2>6. CASE ~Verifies(sig)
      <3>1. sink'.log = sink.log
        BY <1>8, <2>6, SignedIs
      <3>2. starter["watch"] = "ready"
        BY <2>2 DEF KeyInv
      <3>3. \A k \in 1..Len(sink.log) : sink.log[k].kind = "cp" => sink.log[k].key = pub["watch"]
        BY DEF KeyInv
      <3> QED BY <1>2, <2>2, <2>3, <2>4, <3>1, <3>2, <3>3
    <2> QED BY <2>5, <2>6
  <1>9. CASE SignCall
    BY <1>3, <1>8, <1>9, SignCallIs
  <1>10. ASSUME UNCHANGED <<custody, starter, keyFile, pub>>, phase \notin {"start", "exited"},
                phase' # "start", sink'.log = sink.log
         PROVE  KeyInv'
    <2>1. starter["watch"] = "ready"
      BY <1>10 DEF KeyInv
    <2>2. \A k \in 1..Len(sink.log) : sink.log[k].kind = "cp" => sink.log[k].key = pub["watch"]
      BY DEF KeyInv
    <2> QED BY <1>2, <1>10, <2>1, <2>2
  <1>11. CASE TickerCheckpoint
    <2>1. sink'.log = sink.log /\ UNCHANGED <<custody, starter, keyFile, pub, phase>>
      BY <1>0, <1>11 DEF TickerCheckpoint, SinkType
    <2> QED BY <1>3, <2>1
  <1>12. CASE Told \/ Stop
    <2>1. /\ phase \in {"serving", "shutdown", "grpcstop", "stats"}
          /\ phase' \in {"shutdown", "grpcstop", "final", "close"}
          /\ UNCHANGED <<custody, starter, keyFile, pub, sink>>
      BY <1>12 DEF Told, Stop, Shutdown, GracefulStop
    <2> QED BY <1>10, <2>1
  <1>13. CASE MainCheckpoint
    <2>1. /\ phase \in {"final", "close"} /\ phase' \in {"final", "close", "stats", "file"}
          /\ UNCHANGED <<custody, starter, keyFile, pub>> /\ sink'.log = sink.log
      BY <1>0, <1>13 DEF MainCheckpoint, SinkType
    <2> QED BY <1>10, <2>1
  <1>14. CASE CloseFile
    <2>1. /\ phase = "file" /\ phase' = "exit" /\ sink'.log = sink.log
          /\ UNCHANGED <<custody, starter, keyFile, pub>>
      BY <1>14, CloseFileIs
    <2> QED BY <1>10, <2>1
  <1>15. CASE Exit \/ Killed
    <2>1. PICK n \in sink.flushed..Len(sink.log) : Ended(n)
      BY <1>15 DEF Exit, Killed
    <2>2. phase \notin {"start", "exited"}
      BY <1>15 DEF Exit, Killed, Up
    <2>3. /\ phase' = "exited" /\ n \in Nat /\ n <= Len(sink.log) /\ Len(sink'.log) = n
          /\ \A k \in 1..n : sink'.log[k] = sink.log[k]
          /\ UNCHANGED <<custody, starter, keyFile, pub>>
      BY <2>1, EndedIs
    <2>4. starter["watch"] = "ready"
      BY <2>2 DEF KeyInv
    <2>5. \A k \in 1..Len(sink.log) : sink.log[k].kind = "cp" => sink.log[k].key = pub["watch"]
      BY DEF KeyInv
    <2>6. \A k \in 1..n : sink'.log[k].kind = "cp" => sink'.log[k].key = pub["watch"]
      BY <1>0, <2>3, <2>5
    <2> QED BY <1>2, <2>2, <2>3, <2>4, <2>6
  <1>16. CASE UNCHANGED watchVars
    BY <1>3, <1>16 DEF watchVars
  <1> QED BY <1>1, <1>4, <1>5, <1>7, <1>9, <1>11, <1>12, <1>13, <1>14, <1>15, <1>16
          DEF Next, Handler, Main, Daemon

-----------------------------------------------------------------------------
(* The records of a log *)

\* They are finitely many.
LEMMA RecsFinite ==
    ASSUME NEW l, NEW n \in Nat, NEW e
    PROVE  /\ IsFiniteSet(Recs(l, n)) /\ Cardinality(Recs(l, n)) \in Nat
           /\ IsFiniteSet(RecsOf(l, n, e)) /\ Cardinality(RecsOf(l, n, e)) \in Nat
  <1>1. IsFiniteSet(1..n)
    BY FS_Interval
  <1>2. Recs(l, n) \subseteq 1..n /\ RecsOf(l, n, e) \subseteq 1..n
    BY DEF Recs, RecsOf
  <1> QED BY <1>1, <1>2, FS_Subset, FS_CardinalityType

\* A log that goes on from where another was has no fewer of them.
LEMMA RecsGrow ==
    ASSUME NEW l, NEW h, NEW m \in Nat, NEW n \in Nat, m <= n,
           \A k \in 1..m : h[k] = l[k], NEW e
    PROVE  /\ Cardinality(Recs(l, m)) <= Cardinality(Recs(h, n))
           /\ Cardinality(RecsOf(l, m, e)) <= Cardinality(RecsOf(h, n, e))
  <1>1. \A k \in 1..m : k \in 1..n
    OBVIOUS
  <1>2. Recs(l, m) \subseteq Recs(h, n)
    BY <1>1 DEF Recs
  <1>3. RecsOf(l, m, e) \subseteq RecsOf(h, n, e)
    BY <1>1 DEF Recs, RecsOf
  <1> QED BY <1>2, <1>3, RecsFinite, FS_Subset

\* One more record is one more, of the export whose span it is.
LEMMA RecsAppend ==
    ASSUME NEW l \in Seq(Line), NEW x \in Line, x.kind = "rec"
    PROVE  LET h == Append(l, x)
           IN /\ Cardinality(Recs(h, Len(h))) = Cardinality(Recs(l, Len(l))) + 1
              /\ Cardinality(RecsOf(h, Len(h), x.e)) = Cardinality(RecsOf(l, Len(l), x.e)) + 1
  <1> DEFINE h == Append(l, x)
             n == Len(l)
  <1>1. n \in Nat /\ Len(h) = n + 1 /\ h[n + 1] = x /\ \A k \in 1..n : h[k] = l[k]
    OBVIOUS
  <1> HIDE DEF h, n
  <1>2. 1..(n + 1) = 1..n \cup {n + 1} /\ n + 1 \notin 1..n
    BY <1>1
  <1>3. Recs(h, n + 1) = Recs(l, n) \cup {n + 1} /\ n + 1 \notin Recs(l, n)
    BY <1>1, <1>2 DEF Recs
  <1>4. RecsOf(h, n + 1, x.e) = RecsOf(l, n, x.e) \cup {n + 1} /\ n + 1 \notin RecsOf(l, n, x.e)
    BY <1>1, <1>3 DEF Recs, RecsOf
  <1>5. /\ Cardinality(Recs(h, n + 1)) = Cardinality(Recs(l, n)) + 1
        /\ Cardinality(RecsOf(h, n + 1, x.e)) = Cardinality(RecsOf(l, n, x.e)) + 1
    BY <1>1, <1>3, <1>4, RecsFinite, FS_AddElement
  <1> QED BY <1>1, <1>5 DEF h, n

\* The exports with a Write in progress are finitely many.
LEMMA WritersFinite ==
    /\ IsFiniteSet(Writers) /\ Cardinality(Writers) \in Nat
    /\ IsFiniteSet(Writers') /\ Cardinality(Writers') \in Nat
  <1>1. Writers \subseteq Exports /\ Writers' \subseteq Exports
    BY DEF Writers
  <1> QED BY <1>1, WatchAssumptions, FS_Subset, FS_CardinalityType

\* Where the log only goes on, the bounds that held before it still hold.
LEMMA LogGoesOn ==
    ASSUME WatchTypeOK, WatchTypeOK', RecordInv,
           sink.flushed <= sink'.flushed, sink'.flushed <= Len(sink'.log),
           Len(sink.log) <= Len(sink'.log), \A k \in 1..Len(sink.log) : sink'.log[k] = sink.log[k]
    PROVE  /\ \A e \in Exports :
                 /\ Cardinality(RecsOf(sink'.log, sink'.flushed, e)) \in Nat
                 /\ Cardinality(RecsOf(sink'.log, sink'.flushed, e))
                        >= export[e].done - export[e].failed
                 /\ Cardinality(RecsOf(sink'.log, Len(sink'.log), e)) \in Nat
                 /\ Writing(e) => Cardinality(RecsOf(sink'.log, Len(sink'.log), e))
                                     >= export[e].done - export[e].failed + 1
           /\ stats.recorded <= Cardinality(Recs(sink'.log, sink'.flushed))
           /\ stats.recorded + Cardinality(Writers) <= Cardinality(Recs(sink'.log, Len(sink'.log)))
           /\ Cardinality(Recs(sink'.log, sink'.flushed)) \in Nat
           /\ Cardinality(Recs(sink'.log, Len(sink'.log))) \in Nat
  <1>1. /\ Len(sink.log) \in Nat /\ sink.flushed \in Nat /\ sink.flushed <= Len(sink.log)
        /\ stats.recorded \in Nat
    BY DEF WatchTypeOK, SinkType, RecordInv
  <1>2. Len(sink'.log) \in Nat /\ sink'.flushed \in Nat
    BY DEF WatchTypeOK, SinkType
  <1>3. \A k \in 1..sink.flushed : sink'.log[k] = sink.log[k]
    BY <1>1
  <1> DEFINE Lf == sink.flushed
             Ln == Len(sink.log)
             Hf == sink'.flushed
             Hn == Len(sink'.log)
             l == sink.log
             h == sink'.log
  <1>4. /\ Lf \in Nat /\ Ln \in Nat /\ Hf \in Nat /\ Hn \in Nat /\ Lf <= Hf /\ Ln <= Hn
        /\ \A k \in 1..Lf : h[k] = l[k]
        /\ \A k \in 1..Ln : h[k] = l[k]
    BY <1>1, <1>2, <1>3
  <1>5. ASSUME NEW e \in Exports
        PROVE  /\ Cardinality(RecsOf(h, Hf, e)) \in Nat
               /\ Cardinality(RecsOf(h, Hf, e)) >= export[e].done - export[e].failed
               /\ Cardinality(RecsOf(h, Hn, e)) \in Nat
               /\ Writing(e) => Cardinality(RecsOf(h, Hn, e))
                                   >= export[e].done - export[e].failed + 1
    <2>1. export[e].done \in Nat /\ export[e].failed \in Nat
      BY DEF WatchTypeOK, ExportType
    <2>2. /\ Cardinality(RecsOf(l, Lf, e)) >= export[e].done - export[e].failed
          /\ Writing(e) => Cardinality(RecsOf(l, Ln, e)) >= export[e].done - export[e].failed + 1
      BY DEF RecordInv
    <2> HIDE DEF l, h, Lf, Ln, Hf, Hn
    <2>3. /\ Cardinality(RecsOf(l, Lf, e)) <= Cardinality(RecsOf(h, Hf, e))
          /\ Cardinality(RecsOf(l, Ln, e)) <= Cardinality(RecsOf(h, Hn, e))
      BY <1>4, RecsGrow
    <2>4. /\ Cardinality(RecsOf(l, Lf, e)) \in Nat /\ Cardinality(RecsOf(h, Hf, e)) \in Nat
          /\ Cardinality(RecsOf(l, Ln, e)) \in Nat /\ Cardinality(RecsOf(h, Hn, e)) \in Nat
      BY <1>4, RecsFinite
    <2> QED BY <2>1, <2>2, <2>3, <2>4
  <1>6. /\ stats.recorded <= Cardinality(Recs(h, Hf)) /\ Cardinality(Recs(h, Hf)) \in Nat
        /\ stats.recorded + Cardinality(Writers) <= Cardinality(Recs(h, Hn))
        /\ Cardinality(Recs(h, Hn)) \in Nat
    <2>1. /\ stats.recorded <= Cardinality(Recs(l, Lf))
          /\ stats.recorded + Cardinality(Writers) <= Cardinality(Recs(l, Ln))
      BY DEF RecordInv
    <2> HIDE DEF l, h, Lf, Ln, Hf, Hn
    <2>2. /\ Cardinality(Recs(l, Lf)) <= Cardinality(Recs(h, Hf))
          /\ Cardinality(Recs(l, Ln)) <= Cardinality(Recs(h, Hn))
      BY <1>4, RecsGrow
    <2>3. /\ Cardinality(Recs(l, Lf)) \in Nat /\ Cardinality(Recs(h, Hf)) \in Nat
          /\ Cardinality(Recs(l, Ln)) \in Nat /\ Cardinality(Recs(h, Hn)) \in Nat
      BY <1>4, RecsFinite
    <2> QED BY <1>1, <2>1, <2>2, <2>3, WritersFinite
  <1> QED BY <1>5, <1>6

\* Nothing is lost of what was written, and what is counted was flushed.
LEMMA RecordStep ==
    ASSUME DaemonInv, WatchTypeOK, WatchTypeOK', LockInv, KeyInv, RecordInv, Next
    PROVE  RecordInv'
  <1>0. /\ sink \in SinkType /\ export \in [Exports -> ExportType] /\ sink.log \in Seq(Line)
        /\ Len(sink.log) \in Nat /\ sink.flushed \in Nat /\ sink.flushed <= Len(sink.log)
        /\ stats.recorded \in Nat
    BY DEF WatchTypeOK, SinkType, RecordInv
  <1>a. \A e \in Exports : /\ export[e].done \in Nat /\ export[e].failed \in Nat
                           /\ export[e].failed <= export[e].done /\ export[e].n \in Nat
    BY <1>0 DEF ExportType, RecordInv
  \* The log goes on, and each export keeps its counts or adds a refused span.
  <1>1. ASSUME sink.flushed <= sink'.flushed, sink'.flushed <= Len(sink'.log),
               Len(sink.log) <= Len(sink'.log),
               \A k \in 1..Len(sink.log) : sink'.log[k] = sink.log[k],
               stats'.recorded = stats.recorded, Writers' \subseteq Writers,
               \A e \in Exports :
                  /\ \/ export'[e].done - export'[e].failed = export[e].done - export[e].failed
                     \/ export'[e].done = 0 /\ export'[e].failed = 0
                  /\ export'[e].failed <= export'[e].done
                  /\ export'[e].st \in {"answer", "answered"} => export'[e].done = export'[e].n
                  /\ Writing(e)' => export'[e].done - export'[e].failed
                                        = export[e].done - export[e].failed
        PROVE  RecordInv'
    <2>1. Cardinality(Writers') <= Cardinality(Writers)
      BY <1>1, WritersFinite, FS_Subset
    <2>2. stats.recorded + Cardinality(Writers') <= Cardinality(Recs(sink'.log, Len(sink'.log)))
      BY <1>0, <1>1, <2>1, LogGoesOn, WritersFinite
    <2>3. ASSUME NEW e \in Exports
          PROVE  /\ Cardinality(RecsOf(sink'.log, sink'.flushed, e))
                        >= export'[e].done - export'[e].failed
                 /\ Writing(e)' => Cardinality(RecsOf(sink'.log, Len(sink'.log), e))
                                      >= export'[e].done - export'[e].failed + 1
      <3>1. /\ Cardinality(RecsOf(sink'.log, sink'.flushed, e)) \in Nat
            /\ Cardinality(RecsOf(sink'.log, sink'.flushed, e)) >= export[e].done - export[e].failed
            /\ Cardinality(RecsOf(sink'.log, Len(sink'.log), e)) \in Nat
            /\ Writing(e) => Cardinality(RecsOf(sink'.log, Len(sink'.log), e))
                                >= export[e].done - export[e].failed + 1
        BY <1>1, LogGoesOn
      <3>2. Writing(e)' => Writing(e)
        BY <1>1 DEF Writers
      <3>3. CASE export'[e].done - export'[e].failed = export[e].done - export[e].failed
        BY <3>1, <3>2, <3>3
      <3>4. CASE export'[e].done = 0 /\ export'[e].failed = 0
        BY <1>1, <3>1, <3>2, <3>4
      <3> QED BY <1>1, <3>3, <3>4
    <2>4. stats.recorded <= Cardinality(Recs(sink'.log, sink'.flushed))
      BY <1>1, LogGoesOn
    <2> QED BY <1>1, <2>2, <2>3, <2>4 DEF RecordInv
  \* Only the state of one export changes, and the log does not.
  <1>2. ASSUME NEW e \in Exports, NEW x \in ExportType, export' = [export EXCEPT ![e] = x],
               sink'.log = sink.log, sink'.flushed = sink.flushed, stats'.recorded = stats.recorded,
               x.st \notin {"locked", "syncing"},
               \/ x.done - x.failed = export[e].done - export[e].failed
               \/ x.done = 0 /\ x.failed = 0,
               x.failed <= x.done, x.st \in {"answer", "answered"} => x.done = x.n
        PROVE  RecordInv'
    <2>1. export'[e] = x /\ \A r \in Exports \ {e} : export'[r] = export[r]
      BY <1>0, <1>2
    <2>2. Writers' \subseteq Writers
      BY <1>2, <2>1 DEF Writers, Writing
    <2>3. ~Writing(e)' /\ \A r \in Exports \ {e} : Writing(r)' <=> Writing(r)
      BY <1>2, <2>1 DEF Writing
    <2>4. \A r \in Exports \ {e} : export[r].failed <= export[r].done
             /\ (export[r].st \in {"answer", "answered"} => export[r].done = export[r].n)
      BY DEF RecordInv
    <2>5. ASSUME NEW r \in Exports
          PROVE  /\ \/ export'[r].done - export'[r].failed = export[r].done - export[r].failed
                    \/ export'[r].done = 0 /\ export'[r].failed = 0
                 /\ export'[r].failed <= export'[r].done
                 /\ export'[r].st \in {"answer", "answered"} => export'[r].done = export'[r].n
                 /\ Writing(r)' => export'[r].done - export'[r].failed
                                       = export[r].done - export[r].failed
      <3>1. CASE r = e
        BY <1>2, <2>1, <2>3, <3>1
      <3>2. CASE r # e
        BY <2>1, <2>4, <3>2
      <3> QED BY <3>1, <3>2
    <2>6. /\ sink.flushed <= sink'.flushed /\ sink'.flushed <= Len(sink'.log)
          /\ Len(sink.log) <= Len(sink'.log)
          /\ \A k \in 1..Len(sink.log) : sink'.log[k] = sink.log[k]
      BY <1>0, <1>2
    <2> QED BY <1>1, <1>2, <2>2, <2>5, <2>6
  <1>3. ASSUME export' = export, sink'.log = sink.log, stats' = stats,
               sink.flushed <= sink'.flushed, sink'.flushed <= Len(sink.log)
        PROVE  RecordInv'
    <2>1. Writers' = Writers /\ \A e \in Exports : Writing(e)' <=> Writing(e)
      BY <1>3 DEF Writers, Writing
    <2>2. \A e \in Exports :
             /\ export[e].failed <= export[e].done
             /\ export[e].st \in {"answer", "answered"} => export[e].done = export[e].n
      BY DEF RecordInv
    <2> QED BY <1>0, <1>1, <1>3, <2>1, <2>2
  <1>4. CASE Resolve
    BY <1>0, <1>3, <1>4, ResolveIs
  <1>5. ASSUME NEW e \in Exports, Arrive(e) PROVE RecordInv'
    <2>1. PICK n \in 1..MaxSpans :
             export' = [export EXCEPT ![e] = [st |-> "reading", n |-> n, done |-> 0, failed |-> 0]]
      BY <1>5 DEF Arrive, Set
    <2> DEFINE x == [st |-> "reading", n |-> n, done |-> 0, failed |-> 0]
    <2>2. /\ x \in ExportType /\ x.st = "reading" /\ x.done = 0 /\ x.failed = 0
          /\ x.failed <= x.done
      BY DEF ExportType, ExportStates
    <2>3. export' = [export EXCEPT ![e] = x]
      BY <2>1
    <2>4. sink'.log = sink.log /\ sink'.flushed = sink.flushed /\ stats'.recorded = stats.recorded
      BY <1>5 DEF Arrive
    <2> HIDE DEF x
    <2>5. x.st \notin {"locked", "syncing"} /\ x.st \notin {"answer", "answered"}
      BY <2>2
    <2> QED BY <1>2, <2>2, <2>3, <2>4, <2>5
  <1>6. ASSUME NEW e \in Exports, NEW st \in ExportStates \ {"locked", "syncing"},
               export' = [export EXCEPT ![e] = [export[e] EXCEPT !.st = st]],
               UNCHANGED sink, stats'.recorded = stats.recorded,
               st \in {"answer", "answered"} => export[e].done = export[e].n
        PROVE  RecordInv'
    <2> DEFINE x == [export[e] EXCEPT !.st = st]
    <2>1. /\ x \in ExportType /\ x.st = st /\ x.done = export[e].done /\ x.n = export[e].n
          /\ x.failed = export[e].failed
      BY <1>0 DEF ExportType
    <2>2. export' = [export EXCEPT ![e] = x]
      BY <1>6
    <2> HIDE DEF x
    <2> QED BY <1>a, <1>2, <1>6, <2>1, <2>2
  <1>7. ASSUME NEW e \in Exports, Read(e) PROVE RecordInv'
    <2>1. PICK st \in {"refused", "span"} :
             export' = [export EXCEPT ![e] = [export[e] EXCEPT !.st = st]]
      BY <1>7 DEF Read, Set
    <2>2. UNCHANGED sink /\ stats'.recorded = stats.recorded
      BY <1>7 DEF Read, WatchTypeOK
    <2>3. st \in ExportStates \ {"locked", "syncing"} /\ st \notin {"answer", "answered"}
      BY DEF ExportStates
    <2> QED BY <1>6, <2>1, <2>2, <2>3
  <1>8. ASSUME NEW e \in Exports, Answer(e) PROVE RecordInv'
    <2>1. /\ export' = [export EXCEPT ![e] = [export[e] EXCEPT !.st = "answered"]]
          /\ export[e].st = "answer" /\ UNCHANGED <<sink, stats>>
      BY <1>8 DEF Answer, Set
    <2>2. export[e].done = export[e].n
      BY <2>1 DEF RecordInv
    <2>3. "answered" \in ExportStates \ {"locked", "syncing"}
      BY DEF ExportStates
    <2> QED BY <1>6, <2>1, <2>2, <2>3
  \* A span the sink refused.
  <1>9. ASSUME NEW e \in Exports, export' = [export EXCEPT ![e] = NextSpan(export[e], FALSE)],
               sink'.log = sink.log, sink'.flushed = sink.flushed, stats'.recorded = stats.recorded
        PROVE  RecordInv'
    <2> DEFINE x == NextSpan(export[e], FALSE)
    <2>1. /\ x \in ExportType /\ x.n = export[e].n /\ x.done = export[e].done + 1
          /\ x.failed = export[e].failed + 1 /\ x.st \in {"answer", "span"}
          /\ x.st = "answer" => export[e].done + 1 = export[e].n
      BY <1>0, NextSpanIs
    <2>2. export' = [export EXCEPT ![e] = x]
      BY <1>9
    <2> HIDE DEF x
    <2>3. x.done - x.failed = export[e].done - export[e].failed /\ x.failed <= x.done
      BY <1>a, <2>1
    <2> QED BY <1>2, <1>9, <2>1, <2>2, <2>3
  \* A record in the buffer, which its export waits for.
  <1>10. ASSUME NEW e \in Exports, NEW st \in {"locked", "syncing"}, export[e].st = "span",
                sink'.log = Append(sink.log, Rec(e, export[e].done + 1)),
                sink'.flushed = sink.flushed, stats'.recorded = stats.recorded,
                export' = [export EXCEPT ![e].st = st]
         PROVE  RecordInv'
    <2> DEFINE x == Rec(e, export[e].done + 1)
    <2>1. x \in Line /\ x.kind = "rec" /\ x.e = e
      BY <1>0 DEF Rec, Line, ExportType, KeyValues
    <2>2. /\ sink'.log = Append(sink.log, x) /\ Len(sink'.log) = Len(sink.log) + 1
          /\ \A k \in 1..Len(sink.log) : sink'.log[k] = sink.log[k]
      BY <1>0, <1>10, <2>1
    <2> HIDE DEF x
    <2>3. /\ export'[e].st = st /\ export'[e].n = export[e].n /\ export'[e].done = export[e].done
          /\ export'[e].failed = export[e].failed /\ \A r \in Exports \ {e} : export'[r] = export[r]
      BY <1>0, <1>10 DEF ExportType
    <2>4. Writers' = Writers \cup {e} /\ e \notin Writers
      BY <1>10, <2>3 DEF Writers, Writing
    <2>5. Cardinality(Writers') = Cardinality(Writers) + 1
      BY <2>4, WritersFinite, FS_AddElement
    <2>6. /\ Cardinality(Recs(sink'.log, Len(sink'.log)))
                 = Cardinality(Recs(sink.log, Len(sink.log))) + 1
          /\ Cardinality(RecsOf(sink'.log, Len(sink'.log), e))
                 = Cardinality(RecsOf(sink.log, Len(sink.log), e)) + 1
      BY <1>0, <2>1, <2>2, RecsAppend
    <2>7. /\ Cardinality(Recs(sink.log, Len(sink.log))) \in Nat
          /\ Cardinality(RecsOf(sink.log, Len(sink.log), e)) \in Nat
          /\ Cardinality(RecsOf(sink.log, sink.flushed, e)) \in Nat
      BY <1>0, RecsFinite
    <2>8. /\ sink.flushed <= sink'.flushed /\ sink'.flushed <= Len(sink'.log)
          /\ Len(sink.log) <= Len(sink'.log)
      BY <1>0, <1>10, <2>2
    <2>9. stats'.recorded + Cardinality(Writers') <= Cardinality(Recs(sink'.log, Len(sink'.log)))
      <3>1. stats.recorded + Cardinality(Writers) <= Cardinality(Recs(sink.log, Len(sink.log)))
        BY DEF RecordInv
      <3> QED BY <1>0, <1>10, <2>5, <2>6, <2>7, <3>1, WritersFinite
    <2>10. Cardinality(RecsOf(sink'.log, Len(sink'.log), e))
               >= export[e].done - export[e].failed + 1
      <3>1. Cardinality(RecsOf(sink.log, sink.flushed, e)) >= export[e].done - export[e].failed
        BY DEF RecordInv
      <3>2. Cardinality(RecsOf(sink.log, sink.flushed, e))
                <= Cardinality(RecsOf(sink.log, Len(sink.log), e))
        BY <1>0, RecsGrow
      <3> QED BY <1>a, <2>6, <2>7, <3>1, <3>2
    <2>11. /\ stats.recorded <= Cardinality(Recs(sink'.log, sink'.flushed))
           /\ \A r \in Exports :
                 /\ Cardinality(RecsOf(sink'.log, sink'.flushed, r))
                        >= export[r].done - export[r].failed
                 /\ Writing(r) => Cardinality(RecsOf(sink'.log, Len(sink'.log), r))
                                     >= export[r].done - export[r].failed + 1
      BY <2>2, <2>8, LogGoesOn
    <2>12. ASSUME NEW r \in Exports
           PROVE  /\ export'[r].failed <= export'[r].done
                  /\ Cardinality(RecsOf(sink'.log, sink'.flushed, r))
                         >= export'[r].done - export'[r].failed
                  /\ Writing(r)' => Cardinality(RecsOf(sink'.log, Len(sink'.log), r))
                                       >= export'[r].done - export'[r].failed + 1
                  /\ export'[r].st \in {"answer", "answered"} => export'[r].done = export'[r].n
      <3>1. CASE r = e
        BY <1>a, <1>10, <2>3, <2>10, <2>11, <3>1
      <3>2. CASE r # e
        <4>1. export'[r] = export[r] /\ (Writing(r)' <=> Writing(r))
          BY <2>3, <3>2 DEF Writing
        <4> QED BY <2>11, <4>1 DEF RecordInv
      <3> QED BY <3>1, <3>2
    <2> QED BY <1>10, <2>8, <2>9, <2>11, <2>12 DEF RecordInv
  <1>11. ASSUME NEW e \in Exports, WriteSpan(e) PROVE RecordInv'
    <2>1. export[e].st = "span" /\ stats'.recorded = stats.recorded
      BY <1>11, WriteSpanIs DEF WatchTypeOK
    <2>2. CASE UNCHANGED <<sink, call>> /\ export' = [export EXCEPT ![e] = NextSpan(export[e], FALSE)]
      BY <1>9, <2>1, <2>2
    <2>3. CASE /\ sink'.log = Append(sink.log, Rec(e, export[e].done + 1))
               /\ sink'.flushed = sink.flushed
               /\ \/ export' = [export EXCEPT ![e].st = "locked"]
                  \/ export' = [export EXCEPT ![e].st = "syncing"]
      BY <1>10, <2>1, <2>3
    <2> QED BY <1>11, <2>2, <2>3, WriteSpanIs
  \* The sync that a Write waited for: all of the log is in the file.
  <1>12. ASSUME NEW e \in Exports, export[e].st = "syncing",
                sink'.log = sink.log, sink'.flushed = Len(sink.log),
                stats'.recorded = stats.recorded + 1,
                export' = [export EXCEPT ![e] = NextSpan(export[e], TRUE)]
         PROVE  RecordInv'
    <2> DEFINE x == NextSpan(export[e], TRUE)
    <2>1. /\ x.n = export[e].n /\ x.done = export[e].done + 1 /\ x.failed = export[e].failed
          /\ x.st \in {"answer", "span"}
          /\ x.st = "answer" => export[e].done + 1 = export[e].n
      BY <1>0, NextSpanIs
    <2>2. export'[e] = x /\ \A r \in Exports \ {e} : export'[r] = export[r]
      BY <1>0, <1>12
    <2> HIDE DEF x
    <2>3. Writers' = Writers \ {e} /\ e \in Writers
      BY <1>12, <2>1, <2>2 DEF Writers, Writing
    <2>4. Cardinality(Writers') = Cardinality(Writers) - 1
      BY <2>3, WritersFinite, FS_RemoveElement
    <2>5. /\ \A r \in Exports :
                /\ Cardinality(RecsOf(sink.log, Len(sink.log), r)) \in Nat
                /\ Cardinality(RecsOf(sink.log, Len(sink.log), r))
                       >= export[r].done - export[r].failed
                /\ Writing(r) => Cardinality(RecsOf(sink.log, Len(sink.log), r))
                                    >= export[r].done - export[r].failed + 1
          /\ stats.recorded + Cardinality(Writers) <= Cardinality(Recs(sink.log, Len(sink.log)))
          /\ Cardinality(Recs(sink.log, Len(sink.log))) \in Nat
      BY <1>0, <1>12, LogGoesOn
    <2>6. /\ stats'.recorded + Cardinality(Writers') <= Cardinality(Recs(sink.log, Len(sink.log)))
          /\ stats'.recorded <= Cardinality(Recs(sink.log, Len(sink.log)))
      BY <1>0, <1>12, <2>4, <2>5, WritersFinite
    <2>7. ASSUME NEW r \in Exports
          PROVE  /\ export'[r].failed <= export'[r].done
                 /\ Cardinality(RecsOf(sink.log, Len(sink.log), r))
                        >= export'[r].done - export'[r].failed
                 /\ Writing(r)' => Cardinality(RecsOf(sink.log, Len(sink.log), r))
                                      >= export'[r].done - export'[r].failed + 1
                 /\ export'[r].st \in {"answer", "answered"} => export'[r].done = export'[r].n
      <3>1. CASE r = e
        <4>1. Writing(e) /\ ~Writing(e)'
          BY <1>12, <2>1, <2>2 DEF Writing
        <4> QED BY <1>a, <2>1, <2>2, <2>5, <3>1, <4>1
      <3>2. CASE r # e
        <4>1. export'[r] = export[r] /\ (Writing(r)' <=> Writing(r))
          BY <2>2, <3>2 DEF Writing
        <4> QED BY <2>5, <4>1 DEF RecordInv
      <3> QED BY <3>1, <3>2
    <2>8. sink'.log = sink.log /\ sink'.flushed = Len(sink.log) /\ sink'.flushed <= Len(sink'.log)
      BY <1>0, <1>12
    <2> QED BY <2>6, <2>7, <2>8 DEF RecordInv
  <1>13. ASSUME NEW e \in Exports, Sync(e) PROVE RecordInv'
    <2>1. export[e].st = "syncing" /\ sink'.log = sink.log
      BY <1>13, SyncIs
    <2>2. CASE UNCHANGED <<sink, stats>> /\ export' = [export EXCEPT ![e] = NextSpan(export[e], FALSE)]
      BY <1>9, <2>2
    <2>3. CASE /\ sink'.flushed = Len(sink.log)
               /\ stats' = [stats EXCEPT !.recorded = @ + 1]
               /\ export' = [export EXCEPT ![e] = NextSpan(export[e], TRUE)]
      <3>1. stats'.recorded = stats.recorded + 1
        BY <2>3 DEF WatchTypeOK
      <3> QED BY <1>12, <2>1, <2>3, <3>1
    <2> QED BY <1>13, <2>2, <2>3, SyncIs
  <1>14. ASSUME sink.owner # None, NEW sig \in KeyValues, Signed(sig) PROVE RecordInv'
    <2>1. /\ \A e \in Exports : Writing(e)' <=> Writing(e)
          /\ \A e \in Exports :
                /\ export'[e].done = export[e].done /\ export'[e].failed = export[e].failed
                /\ export'[e].n = export[e].n
                /\ export'[e].st \in {"answer", "answered"} => export'[e].st = export[e].st
      <3>1. CASE sink.owner \in Exports
        <4>1. /\ export' = [export EXCEPT ![sink.owner].st = "syncing"]
              /\ export[sink.owner].st = "locked"
          BY <1>14, <3>1, SignedIs DEF LockInv
        <4> QED BY <1>0, <3>1, <4>1 DEF Writing, ExportType
      <3>2. CASE sink.owner \notin Exports
        <4>1. export' = export
          BY <1>14, <3>2, SignedIs
        <4> QED BY <4>1 DEF Writing
      <3> QED BY <3>1, <3>2
    <2>2. Writers' = Writers
      BY <2>1 DEF Writers
    <2>3. /\ sink.flushed <= sink'.flushed /\ sink'.flushed <= Len(sink'.log)
          /\ Len(sink.log) <= Len(sink'.log)
          /\ \A k \in 1..Len(sink.log) : sink'.log[k] = sink.log[k]
      <3>1. CASE Verifies(sig)
        <4>1. /\ sink'.log = Append(sink.log, Checkpoint(sig))
              /\ sink'.flushed \in {sink.flushed, Len(sink'.log)}
          BY <1>14, <3>1, SignedIs
        <4>2. Checkpoint(sig) \in Line
          BY DEF Checkpoint, Line
        <4>3. /\ Len(sink'.log) = Len(sink.log) + 1
              /\ \A k \in 1..Len(sink.log) : sink'.log[k] = sink.log[k]
          BY <1>0, <4>1, <4>2
        <4> QED BY <1>0, <4>1, <4>3
      <3>2. CASE ~Verifies(sig)
        BY <1>0, <1>14, <3>2, SignedIs
      <3> QED BY <3>1, <3>2
    <2>4. stats' = stats
      BY <1>14, SignedIs
    <2>5. \A e \in Exports :
             export[e].st \in {"answer", "answered"} => export[e].done = export[e].n
      BY DEF RecordInv
    <2> QED BY <1>a, <1>1, <2>1, <2>2, <2>3, <2>4, <2>5
  <1>15. CASE SignCall
    BY <1>0, <1>3, <1>14, <1>15, SignCallIs
  <1>16. CASE TickerCheckpoint \/ Told \/ Stop \/ MainCheckpoint
    <2>1. export' = export /\ stats' = stats /\ sink'.log = sink.log /\ sink'.flushed = sink.flushed
      BY <1>0, <1>16 DEF TickerCheckpoint, Told, Stop, MainCheckpoint, SinkType
    <2> QED BY <1>0, <1>3, <2>1
  <1>17. CASE CloseFile
    <2>1. /\ export' = export /\ stats' = stats /\ sink'.log = sink.log
          /\ sink'.flushed \in {sink.flushed, Len(sink.log)}
      BY <1>17, CloseFileIs
    <2> QED BY <1>0, <1>3, <2>1
  <1>18. CASE Exit \/ Killed
    <2>1. PICK n \in sink.flushed..Len(sink.log) : Ended(n)
      BY <1>18 DEF Exit, Killed
    <2>2. /\ n \in Nat /\ n <= Len(sink.log) /\ Len(sink'.log) = n
          /\ sink'.flushed = sink.flushed /\ stats' = stats
          /\ \A k \in 1..n : sink'.log[k] = sink.log[k]
          /\ \A e \in Exports :
                /\ export'[e].st = IF Active(e) THEN "cut" ELSE export[e].st
                /\ export'[e].n = export[e].n /\ export'[e].done = export[e].done
                /\ export'[e].failed = export[e].failed
      BY <2>1, EndedIs
    <2>3. sink.flushed <= n
      BY <1>0, <2>2
    <2>4. \A e \in Exports : ~Writing(e)'
      BY <2>2 DEF Writing, Active
    <2>5. Writers' = {} /\ Cardinality(Writers') = 0
      BY <2>4, FS_EmptySet DEF Writers
    <2>6. ASSUME NEW e \in Exports
          PROVE  Cardinality(RecsOf(sink'.log, sink.flushed, e)) >= export[e].done - export[e].failed
      <3>1. RecsOf(sink'.log, sink.flushed, e) = RecsOf(sink.log, sink.flushed, e)
        BY <1>0, <2>2, <2>3 DEF RecsOf, Recs
      <3> QED BY <3>1 DEF RecordInv
    <2>7. stats.recorded <= Cardinality(Recs(sink'.log, sink.flushed))
      <3>1. Recs(sink'.log, sink.flushed) = Recs(sink.log, sink.flushed)
        BY <1>0, <2>2, <2>3 DEF Recs
      <3> QED BY <3>1 DEF RecordInv
    <2>8. stats.recorded <= Cardinality(Recs(sink'.log, n))
      <3>1. Cardinality(Recs(sink'.log, sink.flushed)) <= Cardinality(Recs(sink'.log, n))
        BY <1>0, <2>2, <2>3, RecsGrow
      <3>2. /\ Cardinality(Recs(sink'.log, sink.flushed)) \in Nat
            /\ Cardinality(Recs(sink'.log, n)) \in Nat
        BY <1>0, <2>2, RecsFinite
      <3> QED BY <1>0, <2>7, <3>1, <3>2
    <2>9. \A e \in Exports :
             /\ export[e].failed <= export[e].done
             /\ export'[e].st \in {"answer", "answered"} => export'[e].done = export'[e].n
      BY <2>2 DEF RecordInv, Active
    <2>10. stats'.recorded + Cardinality(Writers') <= Cardinality(Recs(sink'.log, Len(sink'.log)))
      BY <1>0, <2>2, <2>5, <2>8
    <2> QED BY <2>2, <2>3, <2>4, <2>6, <2>7, <2>9, <2>10 DEF RecordInv
  <1>19. CASE UNCHANGED watchVars
    BY <1>0, <1>3, <1>19 DEF watchVars
  <1> QED BY <1>4, <1>5, <1>7, <1>8, <1>11, <1>13, <1>15, <1>16, <1>17, <1>18, <1>19
          DEF Next, Handler, Main, Daemon

-----------------------------------------------------------------------------
(* The end *)

\* A handler that still runs once the servers are stopped: Shutdown gave up.
LEMMA StillRunning ==
    ASSUME EndInv, ~overrun, NEW e \in Exports, Active(e)
    PROVE  phase \notin Ending /\ (phase = "grpcstop" => e \notin HttpExports)
  BY DEF EndInv, Exports

\* While the file is closed nobody else has the sink.
LEMMA NobodyElse ==
    ASSUME WatchTypeOK, LockInv, EndInv, ~overrun, sink.owner # None, sink.owner # "main"
    PROVE  phase \notin {"file", "exit"}
  <1>1. sink.owner \in Exports \/ sink.owner = "ticker"
    BY DEF WatchTypeOK, SinkType, Owners
  <1>2. CASE sink.owner \in Exports
    <2>1. Active(sink.owner)
      BY <1>2 DEF LockInv, Active
    <2> QED BY <1>2, <2>1, StillRunning DEF Ending
  <1>3. CASE sink.owner = "ticker"
    BY <1>3 DEF LockInv, EndInv
  <1> QED BY <1>1, <1>2, <1>3

\* The last line of a log to which one was added.
LEMMA LastOfAppend ==
    ASSUME NEW l \in Seq(Line), NEW x \in Line
    PROVE  Last(Append(l, x)) = x
  BY DEF Last

\* The order of the end is kept: no more exports, a checkpoint, no ticker, the
\* file; each step leaves what the next one counts on.
LEMMA EndStep ==
    ASSUME DaemonInv, WatchTypeOK, WatchTypeOK', LockInv, KeyInv, RecordInv, EndInv, ClosedAnchored,
           Next
    PROVE  EndInv' /\ ClosedAnchored'
  <1> USE WatchAssumptions
  <1>0. /\ sink \in SinkType /\ export \in [Exports -> ExportType] /\ sink.log \in Seq(Line)
        /\ Len(sink.log) \in Nat /\ sink.since \in Nat /\ faults \in Nat /\ overrun \in BOOLEAN
    BY DEF WatchTypeOK, SinkType
  \* A handler's step: its export was active.
  <1>1. ASSUME NEW e \in Exports, Active(e), Up, UNCHANGED <<phase, ticker, overrun>>,
               \A r \in Exports \ {e} : export'[r] = export[r],
               \/ sink'.since = sink.since /\ sink'.log = sink.log
               \/ sink'.since # 0
        PROVE  EndInv' /\ ClosedAnchored'
    <2>1. \A r \in Exports \ {e} : Active(r)' <=> Active(r)
      BY <1>1 DEF Active
    <2>2. overrun \/ (phase \notin Ending /\ (phase = "grpcstop" => e \notin HttpExports))
      BY <1>1, StillRunning
    <2>3. phase \in {"file", "exit"} => ~ticker
      BY DEF EndInv
    <2>4. phase # "exited" /\ phase # "start"
      BY <1>1 DEF Up
    <2>5. sink'.since = 0 /\ sink'.log # <<>> => Last(sink'.log).kind = "cp"
      BY <1>1, <2>4 DEF EndInv
    <2>6. phase = "grpcstop" /\ ~overrun => \A r \in HttpExports : ~Active(r)'
      BY <2>1, <2>2 DEF EndInv, Exports
    <2>7. "file" \in Ending /\ "exit" \in Ending
      BY DEF Ending
    <2>8. EndInv'
      BY <1>1, <2>2, <2>3, <2>5, <2>6, <2>7 DEF EndInv
    <2>9. ClosedAnchored'
      BY <1>1, <2>4 DEF ClosedAnchored
    <2> QED BY <2>8, <2>9
  <1>2. CASE Resolve
    <2>1. /\ UNCHANGED <<export, sink, ticker, faults, overrun>>
          /\ phase' = phase \/ (phase = "start" /\ phase' \in {"serving", "exited"})
      BY <1>2, ResolveIs
    <2>2. phase = "start" => sink.log = <<>>
      BY DEF KeyInv
    <2>3. \A e \in Exports : Active(e)' <=> Active(e)
      BY <2>1 DEF Active
    <2>4. CASE phase' = phase
      BY <2>1, <2>3, <2>4 DEF EndInv, ClosedAnchored, Exports
    <2>5. CASE phase = "start" /\ phase' \in {"serving", "exited"}
      BY <2>1, <2>2, <2>5 DEF EndInv, ClosedAnchored, Ending
    <2> QED BY <2>1, <2>4, <2>5
  <1>3. ASSUME NEW e \in Exports, Arrive(e) PROVE EndInv' /\ ClosedAnchored'
    <2>1. /\ phase \in {"serving", "shutdown"} /\ UNCHANGED <<phase, sink>>
      BY <1>3 DEF Arrive, Open
    <2> QED BY <2>1 DEF EndInv, ClosedAnchored, Ending
  <1>4. ASSUME NEW e \in Exports, Read(e) \/ Answer(e) PROVE EndInv' /\ ClosedAnchored'
    <2>1. /\ Active(e) /\ Up /\ UNCHANGED <<phase, ticker, overrun, sink>>
      BY <1>4 DEF Read, Answer, Active
    <2>2. \A r \in Exports \ {e} : export'[r] = export[r]
      BY <1>0, <1>4 DEF Read, Answer, Set
    <2> QED BY <1>1, <2>1, <2>2
  <1>5. ASSUME NEW e \in Exports, WriteSpan(e) PROVE EndInv' /\ ClosedAnchored'
    <2>1. /\ export[e].st = "span" /\ Up /\ UNCHANGED <<phase, ticker, overrun>>
      BY <1>5, WriteSpanIs
    <2>2. \A r \in Exports \ {e} : export'[r] = export[r]
      <3>1. \/ export' = [export EXCEPT ![e] = NextSpan(export[e], FALSE)]
            \/ export' = [export EXCEPT ![e].st = "locked"]
            \/ export' = [export EXCEPT ![e].st = "syncing"]
        BY <1>5, WriteSpanIs
      <3> QED BY <1>0, <3>1
    <2>3. sink' = sink \/ sink'.since = sink.since + 1
      BY <1>5, WriteSpanIs
    <2>4. sink' = sink \/ sink'.since # 0
      BY <1>0, <2>3
    <2>5. Active(e)
      BY <2>1 DEF Active
    <2> QED BY <1>1, <2>1, <2>2, <2>4, <2>5
  <1>6. ASSUME NEW e \in Exports, Sync(e) PROVE EndInv' /\ ClosedAnchored'
    <2>1. /\ export[e].st = "syncing" /\ Up /\ UNCHANGED <<phase, ticker, overrun>>
          /\ sink'.log = sink.log /\ sink'.since = sink.since
      BY <1>6, SyncIs
    <2>2. \A r \in Exports \ {e} : export'[r] = export[r]
      <3>1. \/ export' = [export EXCEPT ![e] = NextSpan(export[e], FALSE)]
            \/ export' = [export EXCEPT ![e] = NextSpan(export[e], TRUE)]
        BY <1>6, SyncIs
      <3> QED BY <1>0, <3>1
    <2>3. Active(e)
      BY <2>1 DEF Active
    <2> QED BY <1>1, <2>1, <2>2, <2>3
  <1>7. ASSUME sink.owner # None, NEW sig \in KeyValues, Signed(sig)
        PROVE  EndInv' /\ ClosedAnchored'
    <2>1. \A e \in Exports : Active(e)' <=> Active(e)
      <3>1. CASE sink.owner \in Exports
        <4>1. /\ export' = [export EXCEPT ![sink.owner].st = "syncing"]
              /\ export[sink.owner].st = "locked"
          BY <1>7, <3>1, SignedIs DEF LockInv
        <4>2. export'[sink.owner].st = "syncing" /\ \A e \in Exports \ {sink.owner} :
                 export'[e] = export[e]
          BY <1>0, <3>1, <4>1 DEF ExportType
        <4> QED BY <4>1, <4>2 DEF Active
      <3>2. CASE sink.owner \notin Exports
        BY <1>7, <3>2, SignedIs DEF Active
      <3> QED BY <3>1, <3>2
    <2>2. UNCHANGED <<ticker, overrun>>
      BY <1>7, SignedIs
    <2>3. phase \notin {"start", "exited"}
      BY <1>7 DEF LockInv
    <2>4. \/ Verifies(sig) /\ sink'.since = 0 /\ sink'.log = Append(sink.log, Checkpoint(sig))
          \/ ~Verifies(sig) /\ sink'.cpErr /\ sink'.since = sink.since /\ sink'.log = sink.log
      BY <1>7, SignedIs
    <2>5. sink'.since = 0 /\ sink'.log # <<>> => Last(sink'.log).kind = "cp"
      <3>1. CASE sink'.log = Append(sink.log, Checkpoint(sig))
        <4>1. Checkpoint(sig) \in Line /\ Checkpoint(sig).kind = "cp"
          BY DEF Checkpoint, Line
        <4> QED BY <1>0, <3>1, <4>1, LastOfAppend
      <3>2. CASE sink'.since = sink.since /\ sink'.log = sink.log
        BY <2>3, <3>2 DEF EndInv
      <3> QED BY <2>4, <3>1, <3>2
    <2>6. CASE sink.owner # "main"
      <3>1. phase' = phase
        BY <1>7, <2>6, SignedIs
      <3>2. overrun \/ phase \notin {"file", "exit"}
        BY <1>7, <2>6, NobodyElse
      <3>3. EndInv'
        BY <2>1, <2>2, <2>5, <3>1, <3>2 DEF EndInv, Exports
      <3> QED BY <2>3, <3>1, <3>3 DEF ClosedAnchored
    <2>7. CASE sink.owner = "main"
      <3>1. phase \in {"final", "close"} /\ (phase = "close" => ~ticker)
        BY <2>7 DEF LockInv
      <3>2. \/ phase = "final" /\ phase' = "stats"
            \/ phase = "close" /\ phase' = "file" /\ Verifies(sig)
            \/ phase = "close" /\ phase' = "exit" /\ (~Verifies(sig) \/ faults' > 0)
        BY <1>7, <2>7, <3>1, SignedIs
      <3>3. ~overrun => \A e \in Exports : ~Active(e)
        BY <3>1 DEF EndInv, Ending, Exports
      <3>4. EndInv'
        BY <2>1, <2>2, <2>4, <2>5, <3>1, <3>2, <3>3 DEF EndInv, Exports
      <3> QED BY <3>2, <3>4 DEF ClosedAnchored
    <2> QED BY <2>6, <2>7
  <1>8. ASSUME UNCHANGED <<phase, export, sink, ticker, faults, overrun>>
        PROVE  EndInv' /\ ClosedAnchored'
    <2>1. \A e \in Exports : Active(e)' <=> Active(e)
      BY <1>8 DEF Active
    <2> QED BY <1>8, <2>1 DEF EndInv, ClosedAnchored, Exports
  <1>9. CASE SignCall
    BY <1>7, <1>8, <1>9, SignCallIs
  <1>10. CASE TickerCheckpoint
    <2>1. /\ ticker /\ Up /\ UNCHANGED <<phase, export, ticker, overrun>>
          /\ sink'.log = sink.log /\ sink'.since = sink.since
      BY <1>0, <1>10 DEF TickerCheckpoint, SinkType
    <2>2. \A e \in Exports : Active(e)' <=> Active(e)
      BY <2>1 DEF Active
    <2>3. phase \notin {"file", "exit", "exited"}
      BY <2>1 DEF EndInv, Up
    <2> QED BY <2>1, <2>2, <2>3 DEF EndInv, ClosedAnchored, Exports
  <1>11. CASE Told
    <2>1. /\ phase = "serving" /\ UNCHANGED <<export, sink, ticker>>
          /\ phase' = "shutdown" \/ (phase' = "close" /\ overrun')
      BY <1>11 DEF Told
    <2> QED BY <2>1 DEF EndInv, ClosedAnchored, Ending
  <1>12. CASE Stop
    <2>1. UNCHANGED <<export, sink, ticker>> /\ \A e \in Exports : Active(e)' <=> Active(e)
      BY <1>12 DEF Stop, Active
    <2>2. CASE Shutdown
      BY <2>1, <2>2 DEF Shutdown, EndInv, ClosedAnchored, Ending, Exports
    <2>3. CASE GracefulStop
      BY <2>1, <2>3 DEF GracefulStop, EndInv, ClosedAnchored, Ending, Exports
    <2>4. CASE phase = "stats" /\ phase' = "close" /\ UNCHANGED overrun
      BY <2>1, <2>4 DEF EndInv, ClosedAnchored, Ending, Exports
    <2> QED BY <1>12, <2>2, <2>3, <2>4 DEF Stop
  <1>13. CASE MainCheckpoint
    <2>1. /\ phase \in {"final", "close"} /\ sink.owner = None /\ UNCHANGED <<export, faults, overrun>>
          /\ ticker' = (ticker /\ phase = "final")
          /\ sink'.log = sink.log /\ sink'.since = sink.since
          /\ \/ phase' = phase
             \/ phase = "final" /\ phase' = "stats"
             \/ phase = "close" /\ phase' = "file" /\ sink.since = 0
      BY <1>0, <1>13 DEF MainCheckpoint, SinkType
    <2>2. \A e \in Exports : Active(e)' <=> Active(e)
      BY <2>1 DEF Active
    <2>3. ~overrun => \A e \in Exports : ~Active(e)
      BY <2>1 DEF EndInv, Ending, Exports
    <2>4. EndInv'
      BY <2>1, <2>2, <2>3 DEF EndInv, Exports
    <2> QED BY <2>1, <2>4 DEF ClosedAnchored
  <1>14. CASE CloseFile
    <2>1. /\ phase = "file" /\ phase' = "exit" /\ sink'.log = sink.log /\ sink'.since = sink.since
          /\ sink'.cpErr = sink.cpErr /\ faults' \in Nat
          /\ \/ sink'.flushed = Len(sink.log) /\ faults' = faults
             \/ sink'.flushed = sink.flushed /\ faults' > 0
          /\ UNCHANGED <<export, ticker, overrun>>
      BY <1>14, CloseFileIs
    <2>2. \A e \in Exports : Active(e)' <=> Active(e)
      BY <2>1 DEF Active
    <2>3. ~overrun => \A e \in Exports : ~Active(e)
      BY <2>1 DEF EndInv, Ending, Exports
    <2>4. EndInv'
      BY <2>1, <2>2, <2>3 DEF EndInv, Exports
    <2> QED BY <2>1, <2>4 DEF ClosedAnchored
  <1>15. ASSUME Exit \/ Killed PROVE EndInv' /\ ClosedAnchored'
    <2>1. PICK n \in sink.flushed..Len(sink.log) : Ended(n)
      BY <1>15 DEF Exit, Killed
    <2>2. /\ phase' = "exited" /\ sink'.log = SubSeq(sink.log, 1, n) /\ n \in Nat
          /\ sink'.cpErr = sink.cpErr /\ faults' = faults
      BY <2>1, EndedIs
    <2>3. EndInv'
      BY <2>2 DEF EndInv, Ending
    <2>4. CASE Killed
      BY <2>3, <2>4 DEF Killed, ClosedAnchored
    <2>5. CASE Exit
      <3> SUFFICES ASSUME ~overrun', faults' = 0, ~sink'.cpErr, sink'.log # <<>>
                   PROVE  Last(sink'.log).kind = "cp"
        BY <2>3 DEF ClosedAnchored
      <3>1. phase = "exit" /\ overrun' = overrun
        BY <2>5 DEF Exit
      <3>2. sink.since = 0 /\ sink.flushed = Len(sink.log)
        BY <2>2, <3>1 DEF EndInv
      <3>3. n = Len(sink.log)
        BY <1>0, <3>2
      <3>4. sink'.log = sink.log
        BY <1>0, <2>2, <3>3
      <3> QED BY <3>1, <3>2, <3>4 DEF EndInv
    <2> QED BY <1>15, <2>4, <2>5
  <1>16. CASE UNCHANGED watchVars
    BY <1>8, <1>16 DEF watchVars
  <1> QED BY <1>2, <1>3, <1>4, <1>5, <1>6, <1>9, <1>10, <1>11, <1>12, <1>13, <1>14, <1>15, <1>16
          DEF Next, Handler, Main, Daemon

-----------------------------------------------------------------------------
(* The theorems *)

\* The invariant holds when the commands start.
LEMMA WatchStart ==
    ASSUME Init
    PROVE  WatchInv
  <1> USE WatchAssumptions
  <1>1. DaemonInv
    BY DaemonStart DEF Init
  <1>2. WatchTypeOK
    <2>1. sink \in SinkType
      BY DEF Init, SinkType, Owners
    <2>2. export \in [Exports -> ExportType]
      BY DEF Init, ExportType, ExportStates
    <2>3. call \in [st : {"none", "dial", "wait"}, slot : Slots \cup {None}]
      BY DEF Init, NoCall
    <2>4. /\ keyFile \in KeyValues /\ pub \in [Starts -> KeyValues] /\ phase \in Phases
          /\ starter \in [Starts -> {"stat", "create", "write", "load", "ready", "failed"}]
      BY DEF Init, KeyValues, KeyOf, Phases
    <2>5. /\ custody \in {"file", "daemon"} /\ ticker \in BOOLEAN /\ overrun \in BOOLEAN
          /\ faults \in Nat /\ stats \in [spans : Nat, recorded : Nat, rejected : Nat]
      BY DEF Init
    <2> QED BY <2>1, <2>2, <2>3, <2>4, <2>5 DEF WatchTypeOK
  <1>3. LockInv
    BY DEF Init, LockInv, NoCall, Active
  <1>4. KeyInv
    <2>1. sink.log = <<>> /\ Len(sink.log) = 0 /\ phase = "start"
          /\ \A p \in Starts : starter[p] = "stat"
      BY DEF Init
    <2>2. starter["watch"] = "stat"
      BY <2>1 DEF Starts
    <2> QED BY <2>1, <2>2 DEF KeyInv
  <1>5. RecordInv
    <2>1. /\ sink.log = <<>> /\ Len(sink.log) = 0 /\ sink.flushed = 0 /\ stats.recorded = 0
          /\ \A e \in Exports : export[e] = [st |-> "idle", n |-> 0, done |-> 0, failed |-> 0]
      BY DEF Init
    <2>2. Writers = {} /\ Cardinality(Writers) = 0 /\ \A e \in Exports : ~Writing(e)
      <3>1. \A e \in Exports : export[e].st = "idle"
        BY <2>1
      <3>2. \A e \in Exports : ~Writing(e)
        BY <3>1 DEF Writing
      <3>3. Writers = {}
        BY <3>2 DEF Writers
      <3> QED BY <3>2, <3>3, FS_EmptySet
    <2>3. \A e : /\ Cardinality(RecsOf(sink.log, 0, e)) \in Nat
                 /\ Cardinality(Recs(sink.log, 0)) \in Nat
      BY RecsFinite
    <2> QED BY <2>1, <2>2, <2>3 DEF RecordInv
  <1>6. EndInv /\ ClosedAnchored
    BY DEF Init, EndInv, ClosedAnchored, Ending
  <1> QED BY <1>1, <1>2, <1>3, <1>4, <1>5, <1>6 DEF WatchInv

\* Every step of Watch keeps WatchInv, for any exports, slots, keys and bounds.
THEOREM WatchInvHolds == Spec => []WatchInv
  <1>1. Init => WatchInv
    BY WatchStart
  <1>2. WatchInv /\ [Next]_vars => WatchInv'
    <2>1. ASSUME WatchInv, Next PROVE WatchInv'
      <3>1. /\ DaemonInv /\ WatchTypeOK /\ LockInv /\ KeyInv /\ RecordInv /\ EndInv
            /\ ClosedAnchored
        BY <2>1 DEF WatchInv
      <3>2. DaemonInv' /\ WatchTypeOK'
        BY <2>1, <3>1, DaemonStep, WatchTypeStep
      <3>3. LockInv' /\ KeyInv'
        BY <2>1, <3>1, LockStep, KeyStep
      <3>4. RecordInv'
        BY <2>1, <3>1, <3>2, RecordStep
      <3>5. EndInv' /\ ClosedAnchored'
        BY <2>1, <3>1, <3>2, EndStep
      <3> QED BY <3>2, <3>3, <3>4, <3>5 DEF WatchInv
    <2>2. ASSUME WatchInv, UNCHANGED vars PROVE WatchInv'
      <3>1. UNCHANGED daemonVars /\ UNCHANGED watchVars
        BY <2>2 DEF vars
      <3>2. DaemonInv'
        BY <2>2, <3>1, DaemonTypeStep, RateStep, TokenStep DEF WatchInv, DaemonInv
      <3>3. /\ \A e \in Exports : (Active(e)' <=> Active(e)) /\ (Writing(e)' <=> Writing(e))
            /\ Writers' = Writers
        BY <3>1 DEF watchVars, Active, Writing, Writers
      <3>4. WatchTypeOK' /\ KeyInv' /\ ClosedAnchored'
        BY <2>2, <3>1 DEF WatchInv, watchVars, WatchTypeOK, KeyInv, ClosedAnchored
      <3>5. LockInv'
        BY <2>2, <3>1, <3>3 DEF WatchInv, watchVars, LockInv
      <3>6. RecordInv'
        BY <2>2, <3>1, <3>3 DEF WatchInv, watchVars, RecordInv
      <3>7. EndInv'
        BY <2>2, <3>1, <3>3 DEF WatchInv, watchVars, EndInv, Exports
      <3> QED BY <3>2, <3>4, <3>5, <3>6, <3>7 DEF WatchInv
    <2> QED BY <2>1, <2>2
  <1> QED BY <1>1, <1>2, PTL DEF Spec

\* The token bucket of authorizeSigning holds a caller to its burst and rate over
\* every interval, across restarts of the daemon and however its handlers interleave.
THEOREM DaemonBudgetHolds == Spec => []DaemonBudget
  <1>1. WatchInv => DaemonBudget
    BY BudgetFollows DEF WatchInv
  <1> QED BY <1>1, WatchInvHolds, PTL

\* resolveCheckpointKey and SeparatedSigner.Sign let one key into a log, whatever the
\* daemon is restarted with and whoever else creates the default key file.
THEOREM KeyPinnedHolds == Spec => []KeyPinned
  <1>1. WatchInv => KeyPinned
    BY DEF WatchInv, KeyInv, KeyPinned
  <1> QED BY <1>1, WatchInvHolds, PTL

\* A span that is acknowledged or counted as recorded is in the file, whenever the
\* disk fails, the signer fails or the process is killed.
THEOREM AckedRecordedHolds == Spec => []AckedRecorded
  <1>1. ASSUME WatchInv PROVE AckedRecorded
    <2>1. WatchTypeOK /\ RecordInv
      BY <1>1 DEF WatchInv
    <2>2. /\ Len(sink.log) \in Nat /\ sink.flushed \in Nat /\ sink.flushed <= Len(sink.log)
          /\ stats.recorded \in Nat
      BY <2>1 DEF WatchTypeOK, SinkType, RecordInv
    <2>3. ASSUME NEW e \in Exports, export[e].st = "answered"
          PROVE  Cardinality(RecsOf(sink.log, Len(sink.log), e)) >= export[e].n - export[e].failed
      <3>1. /\ Cardinality(RecsOf(sink.log, sink.flushed, e)) >= export[e].done - export[e].failed
            /\ export[e].done = export[e].n
        BY <2>1, <2>3 DEF RecordInv
      <3>2. export[e].n \in Nat /\ export[e].failed \in Nat
        BY <2>1 DEF WatchTypeOK, ExportType
      <3>3. Cardinality(RecsOf(sink.log, sink.flushed, e))
                <= Cardinality(RecsOf(sink.log, Len(sink.log), e))
        BY <2>2, RecsGrow
      <3>4. /\ Cardinality(RecsOf(sink.log, sink.flushed, e)) \in Nat
            /\ Cardinality(RecsOf(sink.log, Len(sink.log), e)) \in Nat
        BY <2>2, RecsFinite
      <3> QED BY <3>1, <3>2, <3>3, <3>4
    <2>4. stats.recorded <= Cardinality(Recs(sink.log, Len(sink.log)))
      <3>1. stats.recorded + Cardinality(Writers) <= Cardinality(Recs(sink.log, Len(sink.log)))
        BY <2>1 DEF RecordInv
      <3>2. Cardinality(Recs(sink.log, Len(sink.log))) \in Nat
        BY <2>2, RecsFinite
      <3> QED BY <2>2, <3>1, <3>2, WritersFinite
    <2> QED BY <2>3, <2>4 DEF AckedRecorded
  <1> QED BY <1>1, WatchInvHolds, PTL

\* The order of runWatch's end, the servers, the last checkpoint, the ticker, the
\* file, leaves no record after the last checkpoint unless something failed.
THEOREM ClosedAnchoredHolds == Spec => []ClosedAnchored
  <1>1. WatchInv => ClosedAnchored
    BY DEF WatchInv
  <1> QED BY <1>1, WatchInvHolds, PTL
=============================================================================
