----------------------------- MODULE SnapshotLife -----------------------------
(***************************************************************************)
(* What the NCN program promises of its snapshot account: it is allocated, *)
(* becomes ready once, keeps the minimum stake it became ready with, and   *)
(* from then on its generation only grows.                                 *)
(***************************************************************************)
EXTENDS Integers

CONSTANTS Stakes

VARIABLES
    phase,           \* "absent", "allocated" or "ready"
    minimum_stake,   \* of a ready snapshot
    generation       \* of a ready snapshot

vars == <<phase, minimum_stake, generation>>

Init == phase = "absent" /\ minimum_stake = 0 /\ generation = 0

Allocate ==
    /\ phase = "absent"
    /\ phase' = "allocated"
    /\ UNCHANGED <<minimum_stake, generation>>

BecomeReady ==
    /\ phase = "allocated"
    /\ phase' = "ready"
    /\ minimum_stake' \in Stakes
    /\ UNCHANGED generation

Use ==
    /\ phase = "ready"
    /\ generation' = generation + 1
    /\ UNCHANGED <<phase, minimum_stake>>

Next == Allocate \/ BecomeReady \/ Use

Spec == Init /\ [][Next]_vars
===============================================================================
