---------------------------- MODULE EvidenceChain ----------------------------
(***************************************************************************)
(* The vocabulary of the evidence log (pkg/evidence/chain.go): records     *)
(* chained by hash and signed checkpoints that commit to a chain head.     *)
(*                                                                         *)
(* SHA-256 is modelled as what the chain relies on, an injective function  *)
(* of everything the canonical input covers: the "hash" of a record is the *)
(* tuple of the hashed fields.  An Ed25519 signature is the pair of the    *)
(* key and the signed input, which only the holder of the key produces.    *)
(***************************************************************************)
EXTENDS Naturals, Sequences

GenesisHash == <<>>

ComputeHash(seq, prev, ev) == <<seq, prev, ev>>

Link(ev, seq, prev) ==
    [type |-> "record", seq |-> seq, ev |-> ev, prevHash |-> prev,
     hash |-> ComputeHash(seq, prev, ev)]

canonicalCheckpointInput(seq, hash) == <<seq, hash>>

SignCheckpointWith(key, seq, hash) ==
    [type |-> "checkpoint", seq |-> seq, hash |-> hash,
     sig |-> <<key, canonicalCheckpointInput(seq, hash)>>]

LinesOf(log) == {log[i] : i \in 1..Len(log)}

IsRecord(line) == line.type = "record"
IsCheckpoint(line) == line.type = "checkpoint"

(***************************************************************************)
(* The chain state a reader has after the first i lines: the sequence and  *)
(* hash the next record must continue.  Checkpoints repeat the head they   *)
(* sign, so in an intact log the line above says it all.                   *)
(***************************************************************************)
SeqBefore(log, i) == IF i = 1 THEN 0 ELSE log[i - 1].seq
HashBefore(log, i) == IF i = 1 THEN GenesisHash ELSE log[i - 1].hash

(***************************************************************************)
(* Line i continues the chain: a record carries the next sequence and the  *)
(* previous hash, a checkpoint commits to exactly the head above it.       *)
(***************************************************************************)
LinkedAt(log, i) ==
    IF IsRecord(log[i])
    THEN log[i] = Link(log[i].ev, SeqBefore(log, i) + 1, HashBefore(log, i))
    ELSE /\ IsCheckpoint(log[i])
         /\ log[i].seq = SeqBefore(log, i)
         /\ log[i].hash = HashBefore(log, i)

ChainLinked(log) == \A i \in 1..Len(log) : LinkedAt(log, i)

\* A chain in which a checkpoint stands right after the record it signs.
WellFormed(log) ==
    /\ ChainLinked(log)
    /\ \A i \in 1..Len(log) : IsCheckpoint(log[i]) => i > 1 /\ IsRecord(log[i - 1])

\* The records of a chain, checkpoints dropped: one for each sequence number up
\* to the one the chain ends with.
RecordsOf(log) ==
    [n \in 1..SeqBefore(log, Len(log) + 1) |->
        CHOOSE r \in LinesOf(log) : IsRecord(r) /\ r.seq = n]

\* A line that may follow the log.
Continues(log, line) ==
    LET next == Len(log) + 1 IN
    IF IsRecord(line)
    THEN line = Link(line.ev, SeqBefore(log, next) + 1, HashBefore(log, next))
    ELSE /\ IsCheckpoint(line)
         /\ line.seq = SeqBefore(log, next) /\ line.hash = HashBefore(log, next)
         /\ next > 1 /\ IsRecord(log[next - 1])
=============================================================================
