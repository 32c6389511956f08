---------------------------- MODULE MCConfineProxy ----------------------------
(***************************************************************************)
(* ConfineProxy on small instances: two names and two literal addresses,   *)
(* one of them refused by the guard.                                       *)
(***************************************************************************)
EXTENDS ConfineProxy, TLC

CONSTANTS w1, public, metadata, listed, unlisted

HandlerSymmetry == Permutations(Requests) \cup Permutations(Operators)

\* The policy lists one name and both literals, one of which no policy can open.
MCAllow == {w1} \X (Hosts \cap {listed, public, metadata})
=============================================================================
