----------------------------- MODULE OperatorSet ------------------------------
(***************************************************************************)
(* The operator set of an NCN: who is registered at which index, with      *)
(* which BLS key, and the two values certificates are verified against,    *)
(* the running aggregate public key (APK) and the generation.              *)
(*                                                                         *)
(* The set is changed by three instructions, RegisterOperator,             *)
(* RemoveOperator and UpdateOperatorBN128Keys.  A Solana transaction is    *)
(* atomic and a failing one leaves no trace, so an instruction is one      *)
(* action and each of its early returns is a conjunct of the guard.        *)
(* Signatures of admins and the proof of possession are preconditions on   *)
(* the caller and are not represented.  The stake fields of the Snapshot   *)
(* account are in StakeSnapshot, whose actions conjoin the actions below.  *)
(***************************************************************************)
EXTENDS G1, FiniteSets

CONSTANTS
    Operators,        \* the operators of the restaking program
    MAX_OPERATORS,    \* length of Snapshot::operator_snapshots (256)
    MAX_GENERATION,   \* where checked_add on the generation fails (u64::MAX)
    None

ASSUME OperatorSetAssumption ==
    /\ MAX_OPERATORS \in Nat \ {0}
    /\ MAX_GENERATION \in Nat
    /\ None \notin Operators \cup Keys \cup Nat

VARIABLES
    ncn_operator_count,          \* restaking: operators the NCN ever opted in
    ncn_operator_index,          \* restaking: NcnOperatorState.index
    ncn_operator_account,        \* key on the NCNOperatorAccount PDA, or None
    operator_snapshots,          \* the live slots of the Snapshot account
    operators_registered,
    total_aggregated_g1_pubkey,
    generation

restakingVars == <<ncn_operator_count, ncn_operator_index>>
aggregateVars == <<total_aggregated_g1_pubkey, generation>>
slotVars == <<operator_snapshots, operators_registered>>
vars == <<restakingVars, ncn_operator_account, slotVars, aggregateVars>>

Index == 0 .. MAX_OPERATORS - 1

OperatorSnapshot == [operator: Operators \cup {None}, g1_pubkey: Keys \cup {None}]

\* OperatorSnapshot::default(): a slot never filled, and a tombstone.
EmptySlot == [operator |-> None, g1_pubkey |-> None]

\* The slots find_operator_snapshot can return for an operator.
SlotsOf(o) == {i \in Index : operator_snapshots[i].operator = o}

LiveSlots == {i \in Index : operator_snapshots[i].operator # None}

Registered(o) == ncn_operator_account[o] # None

\* Registered once, and removed since: the account outlives its slot.
Removed(o) == Registered(o) /\ SlotsOf(o) = {}

-------------------------------------------------------------------------------
TypeOK ==
    /\ ncn_operator_count \in Nat
    /\ ncn_operator_index \in [Operators -> Nat \cup {None}]
    /\ ncn_operator_account \in [Operators -> Keys \cup {None}]
    /\ operator_snapshots \in [Index -> OperatorSnapshot]
    /\ operators_registered \in Nat
    /\ total_aggregated_g1_pubkey \in Point
    /\ generation \in 0 .. MAX_GENERATION

\* Snapshot::initialize, before any operator registered.
Init ==
    /\ ncn_operator_count = 0
    /\ ncn_operator_index = [o \in Operators |-> None]
    /\ ncn_operator_account = [o \in Operators |-> None]
    /\ operator_snapshots = [i \in Index |-> EmptySlot]
    /\ operators_registered = 0
    /\ total_aggregated_g1_pubkey = Identity
    /\ generation = 0

-------------------------------------------------------------------------------
\* The restaking program numbers the operators of an NCN in the order in which
\* the NCN opts them in.  Registering here is a later, separate step of each
\* operator, so registrations may arrive in any order of indices.
InitializeNcnOperatorState(o) ==
    /\ ncn_operator_index[o] = None
    /\ ncn_operator_index' = [ncn_operator_index EXCEPT ![o] = ncn_operator_count]
    /\ ncn_operator_count' = ncn_operator_count + 1
    /\ UNCHANGED <<ncn_operator_account, slotVars, aggregateVars>>

BumpGeneration ==
    /\ generation < MAX_GENERATION
    /\ generation' = generation + 1

\* Mutant: only the first key ever reaches the aggregate.
RegisterFirstKeyOnly(key) ==
    total_aggregated_g1_pubkey' =
        IF total_aggregated_g1_pubkey = Identity THEN PointOf(key)
                                                 ELSE total_aggregated_g1_pubkey

register_operator_g1_pubkey(key) ==
    total_aggregated_g1_pubkey' = Plus(total_aggregated_g1_pubkey, PointOf(key))

\* Mutant: only the slot is checked, not whether the account was ever created.
RegisterOperatorAgain(o, key) ==
    LET i == ncn_operator_index[o]
    IN  /\ i # None
        /\ i < MAX_OPERATORS
        /\ operator_snapshots[i] = EmptySlot
        /\ ncn_operator_account' = [ncn_operator_account EXCEPT ![o] = key]
        /\ operator_snapshots' =
             [operator_snapshots EXCEPT ![i] = [operator |-> o, g1_pubkey |-> key]]
        /\ operators_registered' = operators_registered + 1
        /\ register_operator_g1_pubkey(key)
        /\ BumpGeneration
        /\ UNCHANGED restakingVars

\* load_system_account requires that the operator's PDA was never created, and
\* no instruction closes it: an operator registers at most once.
RegisterOperator(o, key) ==
    LET i == ncn_operator_index[o]
    IN  /\ ~Registered(o)
        /\ i # None
        /\ i < MAX_OPERATORS
        /\ operator_snapshots[i] = EmptySlot
        /\ ncn_operator_account' = [ncn_operator_account EXCEPT ![o] = key]
        /\ operator_snapshots' =
             [operator_snapshots EXCEPT ![i] = [operator |-> o, g1_pubkey |-> key]]
        /\ operators_registered' = operators_registered + 1
        /\ register_operator_g1_pubkey(key)
        /\ BumpGeneration
        /\ UNCHANGED restakingVars

\* Mutant: the count follows the live operators down.
RemoveOperatorDecrements(o) ==
    /\ \E i \in SlotsOf(o) :
         /\ total_aggregated_g1_pubkey' =
              Minus(total_aggregated_g1_pubkey, PointOf(operator_snapshots[i].g1_pubkey))
         /\ operator_snapshots' = [operator_snapshots EXCEPT ![i] = EmptySlot]
    /\ operators_registered' = operators_registered - 1
    /\ BumpGeneration
    /\ UNCHANGED <<restakingVars, ncn_operator_account>>

\* Mutant: the generation stays.
RemoveOperatorKeepsGeneration(o) ==
    /\ \E i \in SlotsOf(o) :
         /\ total_aggregated_g1_pubkey' =
              Minus(total_aggregated_g1_pubkey, PointOf(operator_snapshots[i].g1_pubkey))
         /\ operator_snapshots' = [operator_snapshots EXCEPT ![i] = EmptySlot]
    /\ UNCHANGED <<restakingVars, ncn_operator_account, operators_registered, generation>>

\* The slot becomes a tombstone and operators_registered is kept.
RemoveOperator(o) ==
    /\ \E i \in SlotsOf(o) :
         /\ total_aggregated_g1_pubkey' =
              Minus(total_aggregated_g1_pubkey, PointOf(operator_snapshots[i].g1_pubkey))
         /\ operator_snapshots' = [operator_snapshots EXCEPT ![i] = EmptySlot]
    /\ BumpGeneration
    /\ UNCHANGED <<restakingVars, ncn_operator_account, operators_registered>>

\* The arm of update_g1_operator_pubkey for a single registration ever made: the
\* new key becomes the aggregate, whether or not the operator still has a slot.
ReplaceAggregate(o, key) ==
    /\ operators_registered = 1
    /\ total_aggregated_g1_pubkey' = PointOf(key)
    /\ operator_snapshots' = [i \in Index |->
         IF i \in SlotsOf(o) THEN [operator |-> o, g1_pubkey |-> key]
                             ELSE operator_snapshots[i]]

\* Mutant: the new key is added and the old one is not subtracted.
SwapKeyAddsOnly(o, key) ==
    /\ operators_registered > 1
    /\ operators_registered < MAX_OPERATORS
    /\ \E i \in SlotsOf(o) :
         /\ total_aggregated_g1_pubkey' = Plus(total_aggregated_g1_pubkey, PointOf(key))
         /\ operator_snapshots' =
              [operator_snapshots EXCEPT ![i] = [operator |-> o, g1_pubkey |-> key]]

\* Mutant: the aggregate changes and the slot keeps the old key.
SwapKeyKeepsSlot(o, key) ==
    /\ operators_registered > 1
    /\ operators_registered < MAX_OPERATORS
    /\ \E i \in SlotsOf(o) :
         total_aggregated_g1_pubkey' =
             Plus(Minus(total_aggregated_g1_pubkey,
                        PointOf(operator_snapshots[i].g1_pubkey)),
                  PointOf(key))
    /\ UNCHANGED operator_snapshots

\* The arm for several registrations: the old key is exchanged for the new one.
SwapKey(o, key) ==
    /\ operators_registered > 1
    /\ operators_registered < MAX_OPERATORS
    /\ \E i \in SlotsOf(o) :
         /\ total_aggregated_g1_pubkey' =
              Plus(Minus(total_aggregated_g1_pubkey,
                         PointOf(operator_snapshots[i].g1_pubkey)),
                   PointOf(key))
         /\ operator_snapshots' =
              [operator_snapshots EXCEPT ![i] = [operator |-> o, g1_pubkey |-> key]]

\* The same arm for an operator without a slot only logs, and succeeds.
SwapNothing(o) ==
    /\ operators_registered > 1
    /\ operators_registered < MAX_OPERATORS
    /\ SlotsOf(o) = {}
    /\ UNCHANGED <<total_aggregated_g1_pubkey, operator_snapshots>>

\* With MAX_OPERATORS registrations no arm applies and the instruction fails.
UpdateOperatorBN128Keys(o, key) ==
    /\ Registered(o)
    /\ ncn_operator_account' = [ncn_operator_account EXCEPT ![o] = key]
    /\ \/ ReplaceAggregate(o, key)
       \/ SwapKey(o, key)
       \/ SwapNothing(o)
    /\ BumpGeneration
    /\ UNCHANGED <<restakingVars, operators_registered>>

Next ==
    \E o \in Operators :
        \/ InitializeNcnOperatorState(o)
        \/ RemoveOperator(o)
        \/ \E key \in Keys :
             \/ RegisterOperator(o, key)
             \/ UpdateOperatorBN128Keys(o, key)

Spec == Init /\ [][Next]_vars

-------------------------------------------------------------------------------
(***************************************************************************)
(* Properties                                                              *)
(***************************************************************************)

\* The sum of the keys in the slots, and in the live slots.
SumOf(slots) == [k \in Keys |-> Cardinality({i \in Index : slots[i].g1_pubkey = k})]
LiveSum == SumOf(operator_snapshots)

RegisteredOperators == {o \in Operators : Registered(o)}

\* A slot holds the operator the restaking program numbered with its index, and
\* the key on that operator's own account: the two copies of a key, written by
\* RegisterOperator and UpdateOperatorBN128Keys, never drift apart while the
\* operator is in the set.
SlotsMatchAccounts ==
    \A i \in Index :
        LET s == operator_snapshots[i]
        IN  IF s.operator = None
            THEN s = EmptySlot
            ELSE /\ Registered(s.operator)
                 /\ ncn_operator_index[s.operator] = i
                 /\ ncn_operator_account[s.operator] = s.g1_pubkey

\* operators_registered is the number of operators that ever registered, removed
\* ones included, and stays within the array the verification loop walks.
CountsEveryRegistration ==
    /\ operators_registered = Cardinality(RegisteredOperators)
    /\ operators_registered <= MAX_OPERATORS

\* The APK is the sum of the live keys, or that sum and one more key, which then
\* belongs to an operator that was removed.  The extra key comes from the
\* single-registration arm of update_g1_operator_pubkey, and no sequence of
\* instructions makes the APK wrong by anything else.
AggregateWithinOneOrphan ==
    \/ total_aggregated_g1_pubkey = LiveSum
    \/ /\ \E key \in Keys : total_aggregated_g1_pubkey = Plus(LiveSum, PointOf(key))
       /\ \E o \in Operators : Removed(o)

\* What a verifier relies on: the abstract set of signers, read off the slots.
\* The version is the generation, so no change of a signer or a key goes by
\* without invalidating the certificates assembled before it.
KeyInSlot(o) == operator_snapshots[CHOOSE i \in SlotsOf(o) : TRUE].g1_pubkey
Signers == [o \in Operators |-> IF SlotsOf(o) = {} THEN None ELSE KeyInSlot(o)]
RemovedOperators == {o \in Operators : Removed(o)}

Set == INSTANCE SignerSet WITH
    signers <- Signers, retired <- RemovedOperators, version <- generation

ImplementsSignerSet == Set!Spec

\* Removal is for good: the account that RegisterOperator requires not to exist
\* is never closed, and no rotation refills a tombstone.
RemovedStaysOut ==
    [][\A o \in Operators : Removed(o) => Removed(o)']_vars

\* "The removed key was subtracted from the running APK: total is now exactly
\* the sum of the two remaining keys" (remove_operator.rs, integration test).
AggregateIsLiveSum == total_aggregated_g1_pubkey = LiveSum

\* "operators_registered is unchanged so the verify loop still covers every live
\* index" (core/src/snapshot.rs, remove_operator_snapshot): the loop walks the
\* indices below operators_registered.
VerifyLoopCoversLive == \A i \in LiveSlots : i < operators_registered
===============================================================================
