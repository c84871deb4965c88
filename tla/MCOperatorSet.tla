---------------------------- MODULE MCOperatorSet -----------------------------
(***************************************************************************)
(* OperatorSet for TLC.  There is one operator more than there are slots,  *)
(* so that an index past the array occurs, and as many registrations as    *)
(* slots can happen, which is where key rotation stops working.            *)
(***************************************************************************)
EXTENDS OperatorSet, TLC

\* Operators are told apart by the index the restaking program gives them and
\* keys by nothing, and no property names one: both sets are symmetric.
Symmetry == Permutations(Operators) \cup Permutations(Keys)
===============================================================================
