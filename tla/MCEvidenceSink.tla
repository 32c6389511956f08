---------------------------- MODULE MCEvidenceSink ----------------------------
(***************************************************************************)
(* EvidenceSink on small instances.  Writers are interchangeable.          *)
(***************************************************************************)
EXTENDS EvidenceSink, TLC

WriterSymmetry == Permutations(Writers)
=============================================================================
