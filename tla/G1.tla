---------------------------------- MODULE G1 ----------------------------------
(***************************************************************************)
(* The BN254 G1 group as the programs use it (core/src/g1_point.rs).       *)
(*                                                                         *)
(* The programs only ever add and subtract registered public keys.  Every  *)
(* registered key passed a proof of possession, so no key is chosen as a   *)
(* function of the others and a point is the formal sum of the keys that   *)
(* were added to it: the coefficient of each key.  Two points are equal    *)
(* exactly when their coefficients are.                                    *)
(***************************************************************************)
EXTENDS Integers

CONSTANT Keys

Point == [Keys -> Int]

\* The all-zero bytes: the value of an aggregate nothing was added to.
Identity == [k \in Keys |-> 0]

\* A public key as a point.
PointOf(key) == [k \in Keys |-> IF k = key THEN 1 ELSE 0]

\* checked_add, and checked_add of a negated point.
Plus(P, Q) == [k \in Keys |-> P[k] + Q[k]]
Minus(P, Q) == [k \in Keys |-> P[k] - Q[k]]
===============================================================================
