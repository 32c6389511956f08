------------------------------ MODULE EvidenceLog ------------------------------
(***************************************************************************)
(* What the evidence sink promises its callers, without buffers, locks,    *)
(* checkpoints or files: one chain of records that grows at its end, a     *)
(* number of them promised to callers, and failures that take away only    *)
(* records nobody was promised.                                            *)
(***************************************************************************)
EXTENDS EvidenceChain

CONSTANT Events

VARIABLES
    recs,      \* the chain, oldest first
    promised   \* this many of them have been reported as recorded

Init == recs = <<>> /\ promised = 0

HeadHash == IF recs = <<>> THEN GenesisHash ELSE recs[Len(recs)].hash

\* A record is chained after the last one; a caller learns that everything
\* up to some record will stay; a crash loses a suffix nobody was promised.
Extend == /\ \E ev \in Events :
                recs' = Append(recs, Link(ev, Len(recs) + 1, HeadHash))
          /\ UNCHANGED promised

Promise == /\ promised' \in (promised + 1)..Len(recs)
           /\ UNCHANGED recs

Lose == /\ \E k \in promised..Len(recs) : recs' = SubSeq(recs, 1, k)
        /\ UNCHANGED promised

Next == Extend \/ Promise \/ Lose

Spec == Init /\ [][Next]_<<recs, promised>>
=============================================================================
