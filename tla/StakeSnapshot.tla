----------------------------- MODULE StakeSnapshot -----------------------------
(***************************************************************************)
(* The stake of the operator set: OperatorSet with the stake fields of the *)
(* Snapshot account, the crank that copies delegations into them, and the  *)
(* clock they decay by.                                                    *)
(*                                                                         *)
(* A crank handles one vault and one operator.  It replaces that vault's   *)
(* contribution to the operator's totals, and stamps the whole operator    *)
(* and the whole snapshot with the current slot.                           *)
(*                                                                         *)
(* Vaults, delegations and the opt-in toggles live in the restaking and    *)
(* vault programs.  They are modelled by what the crank reads of them.     *)
(* Contributions are keyed by vault instead of by its registry slot, which *)
(* never changes (VaultRegistry).                                          *)
(***************************************************************************)
EXTENDS OperatorSet, Sequences, SequencesExt

CONSTANTS
    Vaults,           \* the registered vaults
    WEIGHT_BPS,       \* weight of the supported token of each vault
    MINIMUM_STAKE,    \* Snapshot::minimum_stake
    EPOCH_LENGTH,     \* slots in an epoch of the restaking program
    MAX_SLOT,         \* bound on the clock
    MAX_DELEGATION,   \* bound on what one vault delegates to one operator
    UnstableVaults    \* bound: the vaults whose tickets may expire

FULL_WEIGHT_BPS == 10000

ASSUME StakeSnapshotAssumption ==
    /\ WEIGHT_BPS \in [Vaults -> 1 .. FULL_WEIGHT_BPS]
    /\ MINIMUM_STAKE \in Nat
    /\ EPOCH_LENGTH \in Nat \ {0}
    /\ MAX_SLOT \in Nat
    /\ MAX_DELEGATION \in Nat
    /\ UnstableVaults \subseteq Vaults

VARIABLES
    slot,                 \* Clock::slot
    last_snapshot_slot,   \* Snapshot::last_snapshot_slot
    stake,                \* the stake fields of the slot at each index
    delegation,           \* VaultOperatorDelegation::delegation_state
    vault_epoch,          \* epoch of the vault's last full update
    vault_connected,      \* vaults whose two tickets with the NCN are in force
    connection            \* the two opt-in toggles of NcnOperatorState

snapshotVars == <<last_snapshot_slot, stake>>
vaultVars == <<delegation, vault_epoch, vault_connected>>
stakeVars == <<vars, slot, snapshotVars, vaultVars, connection>>

DelegationState == [staked: 0 .. MAX_DELEGATION, enqueued: 0 .. MAX_DELEGATION,
                    cooling_down: 0 .. MAX_DELEGATION]

VaultContribution == [vault: Vaults, stake_weight: Nat, next_epoch_stake_weight: Nat]

OperatorStake ==
    [last_snapshot_slot: Nat, stake_weight: Nat, next_epoch_stake_weight: Nat,
     has_minimum_stake: BOOLEAN, has_minimum_stake_next_epoch: BOOLEAN,
     vault_contributions: Seq(VaultContribution)]

\* The stake fields of OperatorSnapshot::new and of OperatorSnapshot::default().
FreshStake ==
    [last_snapshot_slot |-> 0, stake_weight |-> 0, next_epoch_stake_weight |-> 0,
     has_minimum_stake |-> FALSE, has_minimum_stake_next_epoch |-> FALSE,
     vault_contributions |-> <<>>]

\* What the program asks of the toggles of an NCN and an operator: both active
\* or warming up to register, the NCN's active and the operator's active or
\* cooling down to be counted.
MayRegister == {"WarmUp", "Active"}
MayCount == {"Active", "Cooldown"}
Connection == MayRegister \cup MayCount \cup {"Inactive"}

get_epoch(s) == s \div EPOCH_LENGTH

TotalSecurity(d) == d.staked + d.enqueued + d.cooling_down

ApplyWeight(v, raw) == (raw * WEIGHT_BPS[v]) \div FULL_WEIGHT_BPS

VaultUpdated(v) == vault_epoch[v] = get_epoch(slot)

SumWeights(s) == SumFunction([j \in DOMAIN s |-> s[j].stake_weight])
SumNextWeights(s) == SumFunction([j \in DOMAIN s |-> s[j].next_epoch_stake_weight])

-------------------------------------------------------------------------------
StakeTypeOK ==
    /\ slot \in 0 .. MAX_SLOT
    /\ last_snapshot_slot \in 0 .. MAX_SLOT
    /\ stake \in [Index -> OperatorStake]
    /\ delegation \in [Vaults \X Operators -> DelegationState]
    /\ vault_epoch \in [Vaults -> Nat]
    /\ vault_connected \in SUBSET Vaults
    /\ connection \in [Operators -> Connection]

StakeInit ==
    /\ Init
    /\ slot = 0
    /\ last_snapshot_slot = 0
    /\ stake = [i \in Index |-> FreshStake]
    /\ delegation = [vo \in Vaults \X Operators |->
                       [staked |-> 0, enqueued |-> 0, cooling_down |-> 0]]
    /\ vault_epoch = [v \in Vaults |-> 0]
    /\ vault_connected = Vaults
    /\ connection = [o \in Operators |-> "Inactive"]

-------------------------------------------------------------------------------
(***************************************************************************)
(* The restaking and vault programs                                        *)
(***************************************************************************)

Tick ==
    /\ slot < MAX_SLOT
    /\ slot' = slot + 1
    /\ UNCHANGED <<vars, snapshotVars, vaultVars, connection>>

OptIn(o) ==
    /\ InitializeNcnOperatorState(o)
    /\ connection' = [connection EXCEPT ![o] = "WarmUp"]
    /\ UNCHANGED <<slot, snapshotVars, vaultVars>>

\* Warm-up ends.  The NCN's opt-out bars the operator at once, the operator's
\* own lets it finish cooling down.
NextConnection(c) ==
    CASE c = "WarmUp"   -> {"Active"}
      [] c = "Active"   -> {"Cooldown", "Inactive"}
      [] c = "Cooldown" -> {"Inactive"}
      [] c = "Inactive" -> {"WarmUp"}

ChangeConnection(o) ==
    /\ ncn_operator_index[o] # None
    /\ \E c \in NextConnection(connection[o]) :
         connection' = [connection EXCEPT ![o] = c]
    /\ UNCHANGED <<vars, slot, snapshotVars, vaultVars>>

\* A vault's tickets expire, or are renewed.
ChangeVaultConnection(v) ==
    /\ vault_connected' = SymDiff(vault_connected, {v})
    /\ UNCHANGED <<vars, slot, snapshotVars, delegation, vault_epoch, connection>>

AddDelegation(v, o) ==
    /\ VaultUpdated(v)
    /\ TotalSecurity(delegation[<<v, o>>]) < MAX_DELEGATION
    /\ delegation' = [delegation EXCEPT ![<<v, o>>] =
                        [delegation[<<v, o>>] EXCEPT !.staked = @ + 1]]
    /\ UNCHANGED <<vars, slot, snapshotVars, vault_epoch, vault_connected, connection>>

CooldownDelegation(v, o) ==
    /\ VaultUpdated(v)
    /\ delegation[<<v, o>>].staked > 0
    /\ delegation' = [delegation EXCEPT ![<<v, o>>] =
                        [delegation[<<v, o>>] EXCEPT !.staked = @ - 1, !.enqueued = @ + 1]]
    /\ UNCHANGED <<vars, slot, snapshotVars, vault_epoch, vault_connected, connection>>

\* The epoch's update of a vault: what was cooling down is gone and what was
\* enqueued cools down, or is gone too when an update was missed.
UpdateVault(v) ==
    /\ ~VaultUpdated(v)
    /\ LET missed == get_epoch(slot) - vault_epoch[v] > 1
           Rolled(d) == [staked |-> d.staked, enqueued |-> 0,
                         cooling_down |-> IF missed THEN 0 ELSE d.enqueued]
       IN  delegation' = [vo \in Vaults \X Operators |->
                            IF vo[1] = v THEN Rolled(delegation[vo]) ELSE delegation[vo]]
    /\ vault_epoch' = [vault_epoch EXCEPT ![v] = get_epoch(slot)]
    /\ UNCHANGED <<vars, slot, snapshotVars, vault_connected, connection>>

-------------------------------------------------------------------------------
(***************************************************************************)
(* The NCN program                                                         *)
(***************************************************************************)

\* increment_operator_registration stamps the snapshot; the new slot has never
\* been snapshotted.
ProcessRegisterOperator(o, key) ==
    /\ connection[o] \in MayRegister
    /\ RegisterOperator(o, key)
    /\ stake' = [stake EXCEPT ![ncn_operator_index[o]] = FreshStake]
    /\ last_snapshot_slot' = slot
    /\ UNCHANGED <<slot, vaultVars, connection>>

ProcessRemoveOperator(o) ==
    /\ RemoveOperator(o)
    /\ stake' = [i \in Index |-> IF i \in SlotsOf(o) THEN FreshStake ELSE stake[i]]
    /\ UNCHANGED <<slot, last_snapshot_slot, vaultVars, connection>>

ProcessUpdateOperatorBN128Keys(o, key) ==
    /\ UpdateOperatorBN128Keys(o, key)
    /\ UNCHANGED <<slot, snapshotVars, vaultVars, connection>>

\* Mutant: the stake that cools down this epoch still counts in the next.
calculate_stake_weights_keeping(d) == <<TotalSecurity(d), TotalSecurity(d)>>

\* The raw weights of this and of the next epoch.
calculate_stake_weights(d) ==
    <<TotalSecurity(d), TotalSecurity(d) - d.cooling_down>>

\* Mutant: a re-crank of a vault adds a second contribution.
UpsertAppends(s, c) == Append(s, c)

\* The first position of the vault, or else the first empty one.
Upsert(s, c) ==
    LET p == SelectInSeq(s, LAMBDA x : x.vault = c.vault)
    IN  IF p = 0 THEN Append(s, c) ELSE ReplaceAt(s, p, c)

\* OperatorSnapshot::snapshot_vault_operator_delegation.
SnapshotStake(contributions) ==
    LET total == SumWeights(contributions)
        next_epoch_total == SumNextWeights(contributions)
    IN  [last_snapshot_slot |-> slot,
         stake_weight |-> total,
         next_epoch_stake_weight |-> next_epoch_total,
         has_minimum_stake |-> total >= MINIMUM_STAKE,
         has_minimum_stake_next_epoch |-> next_epoch_total >= MINIMUM_STAKE,
         vault_contributions |-> contributions]

\* Mutant: the snapshot-level marker is not stamped.
CrankKeepsMarker(v, o) ==
    /\ VaultUpdated(v)
    /\ LET counted == connection[o] \in MayCount /\ v \in vault_connected
           raw == IF counted THEN calculate_stake_weights(delegation[<<v, o>>]) ELSE <<0, 0>>
           contribution == [vault |-> v,
                            stake_weight |-> ApplyWeight(v, raw[1]),
                            next_epoch_stake_weight |-> ApplyWeight(v, raw[2])]
       IN  \E i \in SlotsOf(o) :
             stake' = [stake EXCEPT ![i] =
                         SnapshotStake(Upsert(stake[i].vault_contributions, contribution))]
    /\ UNCHANGED <<vars, slot, last_snapshot_slot, vaultVars, connection>>

\* A vault or operator that is barred contributes zero.
SnapshotVaultOperatorDelegation(v, o) ==
    /\ VaultUpdated(v)
    /\ LET counted == connection[o] \in MayCount /\ v \in vault_connected
           raw == IF counted THEN calculate_stake_weights(delegation[<<v, o>>]) ELSE <<0, 0>>
           contribution == [vault |-> v,
                            stake_weight |-> ApplyWeight(v, raw[1]),
                            next_epoch_stake_weight |-> ApplyWeight(v, raw[2])]
       IN  \E i \in SlotsOf(o) :
             stake' = [stake EXCEPT ![i] =
                         SnapshotStake(Upsert(stake[i].vault_contributions, contribution))]
    /\ last_snapshot_slot' = slot
    /\ UNCHANGED <<vars, slot, vaultVars, connection>>

StakeNext ==
    \/ Tick
    \/ \E v \in UnstableVaults : ChangeVaultConnection(v)
    \/ \E v \in Vaults : UpdateVault(v)
    \/ \E o \in Operators : OptIn(o) \/ ChangeConnection(o) \/ ProcessRemoveOperator(o)
    \/ \E o \in Operators, key \in Keys : ProcessRegisterOperator(o, key) \/ ProcessUpdateOperatorBN128Keys(o, key)
    \/ \E v \in Vaults, o \in Operators :
         \/ AddDelegation(v, o)
         \/ CooldownDelegation(v, o)
         \/ SnapshotVaultOperatorDelegation(v, o)

StakeSpec == StakeInit /\ [][StakeNext]_stakeVars

-------------------------------------------------------------------------------
(***************************************************************************)
(* Properties                                                              *)
(***************************************************************************)

\* The stake a verification at the current slot counts for an index.
EffectiveStake(i) ==
    LET age == get_epoch(slot) - get_epoch(stake[i].last_snapshot_slot)
    IN  CASE age = 0 -> stake[i].stake_weight
          [] age = 1 -> stake[i].next_epoch_stake_weight
          [] OTHER   -> 0

\* The totals and the minimum-stake flags are those of the contributions, no
\* vault is counted twice however often it is cranked, and an index without an
\* operator holds no stake, so that a later tenant could not inherit any.
TotalsMatchContributions ==
    \A i \in Index :
        LET s == stake[i]
            c == s.vault_contributions
        IN  /\ s.stake_weight = SumWeights(c)
            /\ s.next_epoch_stake_weight = SumNextWeights(c)
            /\ \A j, k \in DOMAIN c : c[j].vault = c[k].vault => j = k
            /\ c # <<>> => /\ s.has_minimum_stake <=> s.stake_weight >= MINIMUM_STAKE
                           /\ s.has_minimum_stake_next_epoch <=>
                                s.next_epoch_stake_weight >= MINIMUM_STAKE
            /\ i \notin LiveSlots => s = FreshStake

\* No operator is fresher than the snapshot-level marker, and the marker is never
\* ahead of the clock: the subtractions of verify_certificate cannot underflow.
FreshnessDominates ==
    /\ last_snapshot_slot <= slot
    /\ \A i \in Index : stake[i].last_snapshot_slot <= last_snapshot_slot

\* What the vaults have at stake with an operator now, in the same units.
BackedStake(o) ==
    SumFunction([v \in Vaults |-> ApplyWeight(v, TotalSecurity(delegation[<<v, o>>]))])

\* Stake that is counted is still delegated: with the decay over epochs, no
\* cooldown, update or missed update lets an operator sign with stake that has
\* left.  (core/src/snapshot.rs: a contribution is "weighted stake ... for the
\* current epoch"; certificate.rs: "anything older contributes nothing".)
CountedStakeIsBacked ==
    \A i \in LiveSlots : EffectiveStake(i) <= BackedStake(operator_snapshots[i].operator)
===============================================================================
