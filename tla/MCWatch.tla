------------------------------- MODULE MCWatch --------------------------------
(***************************************************************************)
(* Two instances in one: the signing daemon with other callers, while time *)
(* passes, and the signing daemon with agw watch alone, within one second. *)
(* All that agw watch asks of time is left in either: its deadlines may    *)
(* pass whenever they are running.                                         *)
(***************************************************************************)
EXTENDS Watch

MCNext == Next /\ (phase' # "start" => strangers' = 0 /\ now' = 0)

MCSpec == Init /\ [][MCNext]_vars /\ Fairness
=============================================================================
