------------------------------- MODULE Registry -------------------------------
(***************************************************************************)
(* The workload registry (internal/confine/registry.go): which attested    *)
(* workload sends from which source address, which workloads have been     *)
(* revoked, and the live connections a revocation must close.              *)
(*                                                                         *)
(* Every method takes the registry's one mutex for its whole body, so each *)
(* is one step; Revoke is two, because it closes the connections it        *)
(* collected after it has unlocked.  The operators below are the registry  *)
(* half of the steps of ConfineProxy.                                      *)
(***************************************************************************)
EXTENDS Naturals, FiniteSets

CONSTANTS
    Workloads,
    Addrs,      \* source addresses
    NoOne       \* an address nobody registered

ASSUME NoOneIsNoWorkload == NoOne \notin Workloads

VARIABLES
    byAddr,     \* r.byAddr: address |-> workload id, or NoOne
    revoked,    \* workloads whose state says revoked
    conns       \* workload |-> the connections it is tracked to hold

registryVars == <<byAddr, revoked, conns>>

RegistryInit ==
    /\ byAddr = [a \in Addrs |-> NoOne]
    /\ revoked = {}
    /\ conns = [w \in Workloads |-> {}]

\* r.byID holds exactly the workloads bound to some address.
byID == {byAddr[a] : a \in Addrs} \ {NoOne}

\* Register refuses an address bound to someone else, and a known id.
Registers(w, a) == byAddr[a] = NoOne /\ w \notin byID

Register(w, a) ==
    /\ Registers(w, a)
    /\ byAddr' = [byAddr EXCEPT ![a] = w]
    /\ UNCHANGED <<revoked, conns>>

\* Lookup: the identity, or the reason there is none.
Lookup(a) ==
    IF byAddr[a] = NoOne THEN "unknown_workload"
    ELSE IF byAddr[a] \in revoked THEN "workload_revoked" ELSE "ok"

\* Mutant: revocation is checked before the lock is taken, not under it.
MutantTracks(w) == w \in byID

\* Track refuses under the same lock that revocation takes.
Tracks(w) == w \in byID /\ w \notin revoked

Track(w, c) ==
    /\ Tracks(w)
    /\ conns' = [conns EXCEPT ![w] = @ \cup {c}]
    /\ UNCHANGED <<byAddr, revoked>>

\* The release functions Track returned, for a set of connections.
Release(w, cs) ==
    /\ conns' = [conns EXCEPT ![w] = @ \ cs]
    /\ UNCHANGED <<byAddr, revoked>>

\* The first half of Revoke, under the lock.
RevokeFlag(w) ==
    /\ revoked' = revoked \cup {w}
    /\ conns' = [conns EXCEPT ![w] = {}]
    /\ UNCHANGED byAddr
=============================================================================
