----------------------------- MODULE MCCertificate ----------------------------
(***************************************************************************)
(* Certificate for TLC: operators behind one vault, and bytes of two bits, *)
(* so that a bitmap has padding.                                           *)
(***************************************************************************)
EXTENDS Certificate

MCWeights == [v \in Vaults |-> FULL_WEIGHT_BPS]

AnyBitmap == SUBSET Index

Symmetry == Permutations(Operators) \cup Permutations(Keys)
===============================================================================
