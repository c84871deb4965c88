---------------------------- MODULE MCStakeSnapshot ---------------------------
(***************************************************************************)
(* StakeSnapshot for TLC.  The weights are a full and a half one: half of  *)
(* a delegation of one rounds to nothing.                                  *)
(***************************************************************************)
EXTENDS StakeSnapshot

CONSTANTS v1, v2

MCWeights == [v \in Vaults |-> IF v = v1 THEN 10000 ELSE 5000]
===============================================================================
