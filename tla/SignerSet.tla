------------------------------- MODULE SignerSet -------------------------------
(***************************************************************************)
(* What the operator set promises a verifier of certificates, without      *)
(* slots, indices, accounts or an aggregate: each operator signs with at   *)
(* most one key, an operator that left stays out, and every change of who  *)
(* signs with what moves the version forward by one.                       *)
(***************************************************************************)
EXTENDS Naturals

CONSTANTS Operators, Keys, None

VARIABLES
    signers,     \* the key each operator signs with, or None
    retired,     \* the operators that left
    version

setVars == <<signers, retired, version>>

Init ==
    /\ signers = [o \in Operators |-> None]
    /\ retired = {}
    /\ version = 0

NextVersion == version' = version + 1

Join(o, key) ==
    /\ o \notin retired
    /\ signers[o] = None
    /\ signers' = [signers EXCEPT ![o] = key]
    /\ retired' = retired
    /\ NextVersion

Leave(o) ==
    /\ signers[o] # None
    /\ signers' = [signers EXCEPT ![o] = None]
    /\ retired' = retired \cup {o}
    /\ NextVersion

\* Also for the key the operator has: a rotation is never free.
Rotate(o, key) ==
    /\ signers[o] # None
    /\ signers' = [signers EXCEPT ![o] = key]
    /\ retired' = retired
    /\ NextVersion

\* An operator that left may still rotate the key of its account.
RotateRetired(o) ==
    /\ o \in retired
    /\ UNCHANGED <<signers, retired>>
    /\ NextVersion

Next ==
    \E o \in Operators :
        \/ Leave(o)
        \/ RotateRetired(o)
        \/ \E key \in Keys : Join(o, key) \/ Rotate(o, key)

Spec == Init /\ [][Next]_setVars
===============================================================================
