-------------------------------- MODULE MCHost --------------------------------
(* Host with a few processes. *)
EXTENDS Host, TLC

CONSTANTS r1, r2, p1

HostSymmetry == Permutations(Runs) \cup Permutations(Proxies)
=============================================================================
