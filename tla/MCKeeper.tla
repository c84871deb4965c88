------------------------------- MODULE MCKeeper -------------------------------
(***************************************************************************)
(* Keeper for TLC.                                                         *)
(***************************************************************************)
EXTENDS Keeper

CONSTANTS o1, o2, k1
===============================================================================
