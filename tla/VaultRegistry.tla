----------------------------- MODULE VaultRegistry -----------------------------
(***************************************************************************)
(* The VaultRegistry account: the supported mints with their weights, and  *)
(* the vaults whose delegations count.  Both lists are fixed arrays that   *)
(* are filled at their first empty position and never shrink.              *)
(*                                                                         *)
(* The position of a vault is the key of its contribution in every         *)
(* operator's snapshot, and the weight of its mint scales that             *)
(* contribution.  StakeSnapshot takes both as given for a vault: here is   *)
(* why it may.                                                             *)
(***************************************************************************)
EXTENDS Integers

CONSTANTS
    Mints,            \* token mints
    Vaults,           \* vaults of the vault program
    supported_mint,   \* Vault::supported_mint
    WeightArgs,       \* bound: the weights the admin tries
    MAX_ST_MINTS,     \* length of st_mint_list (16)
    MAX_VAULTS,       \* length of vault_list (16)
    DefaultPubkey

FULL_WEIGHT_BPS == 10000

ASSUME VaultRegistryAssumption ==
    /\ supported_mint \in [Vaults -> Mints]
    /\ WeightArgs \subseteq Nat
    /\ MAX_ST_MINTS \in Nat \ {0}
    /\ MAX_VAULTS \in Nat \ {0}
    /\ DefaultPubkey \notin Mints \cup Vaults

VARIABLES st_mint_list, vault_list

registryVars == <<st_mint_list, vault_list>>

MintSlot == 0 .. MAX_ST_MINTS - 1
VaultSlot == 0 .. MAX_VAULTS - 1

EmptyMintEntry == [st_mint |-> DefaultPubkey, weight_bps |-> 0]
EmptyVaultEntry == [vault |-> DefaultPubkey, st_mint |-> DefaultPubkey]

StMintEntry == [st_mint: Mints, weight_bps: 1 .. FULL_WEIGHT_BPS]
VaultEntry == {e \in [vault: Vaults, st_mint: Mints] : e.st_mint = supported_mint[e.vault]}

RegistryTypeOK ==
    /\ st_mint_list \in [MintSlot -> StMintEntry \cup {EmptyMintEntry}]
    /\ vault_list \in [VaultSlot -> VaultEntry \cup {EmptyVaultEntry}]

RegistryInit ==
    /\ st_mint_list = [i \in MintSlot |-> EmptyMintEntry]
    /\ vault_list = [i \in VaultSlot |-> EmptyVaultEntry]

\* The position a search from the front finds.
IsFirst(i, S) == i \in S /\ \A j \in S : i <= j

MintSlotsOf(m) == {i \in MintSlot : st_mint_list[i].st_mint = m}
VaultSlotsOf(v) == {i \in VaultSlot : vault_list[i].vault = v}

has_st_mint(m) == MintSlotsOf(m) # {}

\* Mutant: a full list is not an error, its last entry is replaced.
RegisterStMintOverLast(m, weight_bps) ==
    /\ weight_bps \in 1 .. FULL_WEIGHT_BPS
    /\ ~has_st_mint(m)
    /\ \E i \in MintSlot :
         /\ IsFirst(i, MintSlotsOf(DefaultPubkey)) \/ (MintSlotsOf(DefaultPubkey) = {} /\ i = MAX_ST_MINTS - 1)
         /\ st_mint_list' = [st_mint_list EXCEPT ![i] = [st_mint |-> m, weight_bps |-> weight_bps]]
    /\ UNCHANGED vault_list

RegisterStMint(m, weight_bps) ==
    /\ weight_bps \in 1 .. FULL_WEIGHT_BPS
    /\ ~has_st_mint(m)
    /\ \E i \in MintSlot :
         /\ IsFirst(i, MintSlotsOf(DefaultPubkey))
         /\ st_mint_list' = [st_mint_list EXCEPT ![i] = [st_mint |-> m, weight_bps |-> weight_bps]]
    /\ UNCHANGED vault_list

\* Mutant: a vault that is registered again gets another position.
RegisterVaultAgain(v) ==
    /\ has_st_mint(supported_mint[v])
    /\ \E i \in VaultSlot :
         /\ IsFirst(i, VaultSlotsOf(DefaultPubkey))
         /\ vault_list' = [vault_list EXCEPT ![i] = [vault |-> v, st_mint |-> supported_mint[v]]]
    /\ UNCHANGED st_mint_list

\* Registering a vault again succeeds and changes nothing, also when the list is
\* full.
RegisterVault(v) ==
    /\ has_st_mint(supported_mint[v])
    /\ \/ VaultSlotsOf(v) # {} /\ UNCHANGED vault_list
       \/ /\ VaultSlotsOf(v) = {}
          /\ \E i \in VaultSlot :
               /\ IsFirst(i, VaultSlotsOf(DefaultPubkey))
               /\ vault_list' = [vault_list EXCEPT ![i] = [vault |-> v, st_mint |-> supported_mint[v]]]
    /\ UNCHANGED st_mint_list

RegistryNext ==
    \/ \E m \in Mints, weight_bps \in WeightArgs : RegisterStMint(m, weight_bps)
    \/ \E v \in Vaults : RegisterVault(v)

RegistrySpec == RegistryInit /\ [][RegistryNext]_registryVars

-------------------------------------------------------------------------------
(***************************************************************************)
(* What the crank reads                                                    *)
(***************************************************************************)

\* The positions get_vault_registry_slot can return, and the weights
\* get_vault_weight_bps can.  Neither is defined for a vault that is not
\* registered, and the crank of such a vault fails.
RegistrySlots(v) == {i \in VaultSlotsOf(v) : IsFirst(i, VaultSlotsOf(v))}

VaultWeights(v) ==
    {st_mint_list[j].weight_bps : j \in
        {k \in MintSlot : \E i \in RegistrySlots(v) :
                            IsFirst(k, MintSlotsOf(vault_list[i].st_mint))}}

-------------------------------------------------------------------------------
(***************************************************************************)
(* Properties                                                              *)
(***************************************************************************)

\* A vault has at most one position, so its contribution is counted once, and a
\* registered vault has a weight: its crank cannot fail with MintEntryNotFound.
OneSlotOneWeight ==
    \A v \in Vaults :
        /\ \A i, j \in VaultSlotsOf(v) : i = j
        /\ VaultSlotsOf(v) # {} => VaultWeights(v) # {}
        /\ \A a, b \in VaultWeights(v) : a = b

\* Once a vault is registered, its position and its weight never change: a
\* contribution stored under the position stays that vault's, and a new crank
\* never rescales it.
SlotAndWeightAreForGood ==
    [][\A v \in Vaults :
         VaultSlotsOf(v) # {} => /\ RegistrySlots(v)' = RegistrySlots(v)
                                 /\ VaultWeights(v)' = VaultWeights(v)]_registryVars
===============================================================================
