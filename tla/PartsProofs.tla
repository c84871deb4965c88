------------------------------ MODULE PartsProofs ------------------------------
(***************************************************************************)
(* Proofs about four parts that share no state: the lists of VaultRegistry,*)
(* the records of Fees, the messages of Interface and the loop of Keeper,  *)
(* for any mints, vaults, list lengths, fees, caps, keys, lengths of a     *)
(* message, keepers, operators and epochs.                                 *)
(***************************************************************************)
EXTENDS VaultRegistry, Fees, Interface, Keeper, NumberTheorems, TLAPS

(***************************************************************************)
(* The registry.  That positions and weights are for good follows from     *)
(* three facts that are inductive together: no mint and no vault is listed *)
(* twice, and the mint of a listed vault is listed.                        *)
(***************************************************************************)

MintListedOnce ==
    \A i, j \in MintSlot :
        st_mint_list[i].st_mint # DefaultPubkey /\ st_mint_list[i].st_mint = st_mint_list[j].st_mint
        => i = j

VaultListedOnce ==
    \A i, j \in VaultSlot :
        vault_list[i].vault # DefaultPubkey /\ vault_list[i].vault = vault_list[j].vault => i = j

VaultsMintListed ==
    \A i \in VaultSlot :
        vault_list[i].vault # DefaultPubkey =>
            \E k \in MintSlot : st_mint_list[k].st_mint = vault_list[i].st_mint

RegistryInv ==
    /\ RegistryTypeOK
    /\ MintListedOnce
    /\ VaultListedOnce
    /\ VaultsMintListed

\* The two ways a list is extended, without the search that finds the position.
AddsMint(m, weight_bps, i) ==
    /\ weight_bps \in 1 .. FULL_WEIGHT_BPS
    /\ \A k \in MintSlot : st_mint_list[k].st_mint # m
    /\ st_mint_list[i].st_mint = DefaultPubkey
    /\ st_mint_list' = [st_mint_list EXCEPT ![i] = [st_mint |-> m, weight_bps |-> weight_bps]]
    /\ UNCHANGED vault_list

AddsVault(v, i) ==
    /\ \E k \in MintSlot : st_mint_list[k].st_mint = supported_mint[v]
    /\ \A k \in VaultSlot : vault_list[k].vault # v
    /\ vault_list[i].vault = DefaultPubkey
    /\ vault_list' = [vault_list EXCEPT ![i] = [vault |-> v, st_mint |-> supported_mint[v]]]
    /\ UNCHANGED st_mint_list

LEMMA RegistrySteps ==
    ASSUME [RegistryNext]_registryVars
    PROVE  \/ UNCHANGED registryVars
           \/ \E m \in Mints, w \in WeightArgs, i \in MintSlot : AddsMint(m, w, i)
           \/ \E v \in Vaults, i \in VaultSlot : AddsVault(v, i)
<1>1. ASSUME NEW m \in Mints, NEW w \in WeightArgs, RegisterStMint(m, w)
      PROVE  \E i \in MintSlot : AddsMint(m, w, i)
  BY <1>1 DEF RegisterStMint, AddsMint, IsFirst, MintSlotsOf, has_st_mint
<1>2. ASSUME NEW v \in Vaults, RegisterVault(v)
      PROVE  UNCHANGED registryVars \/ \E i \in VaultSlot : AddsVault(v, i)
  BY <1>2 DEF RegisterVault, AddsVault, IsFirst, VaultSlotsOf, MintSlotsOf, has_st_mint,
              registryVars
<1>3. QED
  BY <1>1, <1>2 DEF RegistryNext

LEMMA RegistryInductive == RegistrySpec => []RegistryInv
<1>1. RegistryInit => RegistryInv
  BY VaultRegistryAssumption DEF RegistryInit, RegistryInv, RegistryTypeOK, MintListedOnce,
     VaultListedOnce, VaultsMintListed, EmptyMintEntry, EmptyVaultEntry
<1>2. RegistryInv /\ [RegistryNext]_registryVars => RegistryInv'
  <2> SUFFICES ASSUME RegistryInv, [RegistryNext]_registryVars
               PROVE  RegistryInv'
    OBVIOUS
  <2>1. CASE UNCHANGED registryVars
    BY <2>1 DEF RegistryInv, RegistryTypeOK, MintListedOnce, VaultListedOnce,
                VaultsMintListed, registryVars
  <2>2. ASSUME NEW m \in Mints, NEW w \in WeightArgs, NEW i \in MintSlot, AddsMint(m, w, i)
        PROVE  RegistryInv'
    <3>1. RegistryTypeOK'
      BY <2>2 DEF AddsMint, RegistryInv, RegistryTypeOK, StMintEntry
    <3>2. MintListedOnce'
      BY <2>2 DEF AddsMint, RegistryInv, RegistryTypeOK, MintListedOnce
    <3>3. VaultListedOnce'
      BY <2>2 DEF AddsMint, RegistryInv, VaultListedOnce
    <3>4. VaultsMintListed'
      <4> SUFFICES ASSUME NEW j \in VaultSlot, vault_list[j].vault # DefaultPubkey
                   PROVE  \E k \in MintSlot : st_mint_list'[k].st_mint = vault_list[j].st_mint
        BY <2>2 DEF AddsMint, VaultsMintListed
      <4>1. PICK k \in MintSlot : st_mint_list[k].st_mint = vault_list[j].st_mint
        BY DEF RegistryInv, VaultsMintListed
      <4>2. vault_list[j].st_mint # DefaultPubkey
        BY VaultRegistryAssumption DEF RegistryInv, RegistryTypeOK, VaultEntry, EmptyVaultEntry
      <4>3. k # i
        BY <2>2, <4>1, <4>2 DEF AddsMint
      <4>4. st_mint_list'[k] = st_mint_list[k]
        BY <2>2, <4>3 DEF AddsMint, RegistryInv, RegistryTypeOK
      <4>5. QED
        BY <4>1, <4>4
    <3>5. QED
      BY <3>1, <3>2, <3>3, <3>4 DEF RegistryInv
  <2>3. ASSUME NEW v \in Vaults, NEW i \in VaultSlot, AddsVault(v, i)
        PROVE  RegistryInv'
    <3>1. RegistryTypeOK'
      BY <2>3, VaultRegistryAssumption DEF AddsVault, RegistryInv, RegistryTypeOK, VaultEntry
    <3>2. MintListedOnce'
      BY <2>3 DEF AddsVault, RegistryInv, MintListedOnce
    <3>3. VaultListedOnce'
      BY <2>3 DEF AddsVault, RegistryInv, RegistryTypeOK, VaultListedOnce
    <3>4. VaultsMintListed'
      BY <2>3 DEF AddsVault, RegistryInv, RegistryTypeOK, VaultsMintListed
    <3>5. QED
      BY <3>1, <3>2, <3>3, <3>4 DEF RegistryInv
  <2>4. QED
    BY <2>1, <2>2, <2>3, RegistrySteps
<1>3. QED
  BY <1>1, <1>2, PTL DEF RegistrySpec

\* Mints and vaults are written in the form they are read in.
THEOREM RegistryIsTyped == RegistrySpec => []RegistryTypeOK
<1>1. RegistryInv => RegistryTypeOK
  BY DEF RegistryInv
<1>2. QED
  BY <1>1, RegistryInductive, PTL

\* Under the invariant the position and the weight of a listed vault are unique.
LEMMA SlotAndWeightOf ==
    ASSUME RegistryInv, NEW v \in Vaults, NEW i \in VaultSlot, vault_list[i].vault = v
    PROVE  /\ VaultSlotsOf(v) = {i}
           /\ RegistrySlots(v) = {i}
           /\ vault_list[i].st_mint = supported_mint[v]
           /\ \E k \in MintSlot :
                 /\ st_mint_list[k].st_mint = supported_mint[v]
                 /\ VaultWeights(v) = {st_mint_list[k].weight_bps}
<1>1. v # DefaultPubkey
  BY VaultRegistryAssumption
<1>2. VaultSlotsOf(v) = {i}
  BY <1>1 DEF RegistryInv, VaultListedOnce, VaultSlotsOf
<1>3. RegistrySlots(v) = {i}
  BY <1>2 DEF RegistrySlots, IsFirst, VaultSlot
<1>4. vault_list[i].st_mint = supported_mint[v]
  BY <1>1 DEF RegistryInv, RegistryTypeOK, VaultEntry, EmptyVaultEntry
<1>5. PICK k \in MintSlot : st_mint_list[k].st_mint = supported_mint[v]
  BY <1>1, <1>4 DEF RegistryInv, VaultsMintListed
<1>6. supported_mint[v] # DefaultPubkey
  BY VaultRegistryAssumption
<1>7. MintSlotsOf(supported_mint[v]) = {k}
  BY <1>5, <1>6 DEF RegistryInv, MintListedOnce, MintSlotsOf
<1>8. \A j \in MintSlot : IsFirst(j, {k}) <=> j = k
  BY <1>5 DEF IsFirst, MintSlot
<1>9. {j \in MintSlot : \E l \in RegistrySlots(v) : IsFirst(j, MintSlotsOf(vault_list[l].st_mint))} = {k}
  BY <1>3, <1>4, <1>5, <1>7, <1>8
<1>10. VaultWeights(v) = {st_mint_list[k].weight_bps}
  BY <1>9 DEF VaultWeights
<1>11. QED
  BY <1>2, <1>3, <1>4, <1>5, <1>10

\* A vault is counted once, and the crank of a registered vault finds a weight.
THEOREM OneSlotOneWeightHolds == RegistrySpec => []OneSlotOneWeight
<1>1. RegistryInv => OneSlotOneWeight
  <2> SUFFICES ASSUME RegistryInv, NEW v \in Vaults
               PROVE  /\ \A i, j \in VaultSlotsOf(v) : i = j
                      /\ VaultSlotsOf(v) # {} => VaultWeights(v) # {}
                      /\ \A a, b \in VaultWeights(v) : a = b
    BY DEF OneSlotOneWeight
  <2>1. CASE VaultSlotsOf(v) = {}
    BY <2>1 DEF VaultWeights, RegistrySlots
  <2>2. CASE VaultSlotsOf(v) # {}
    <3>1. PICK i \in VaultSlot : vault_list[i].vault = v
      BY <2>2 DEF VaultSlotsOf
    <3>2. QED
      BY <3>1, SlotAndWeightOf
  <2>3. QED
    BY <2>1, <2>2
<1>2. QED
  BY <1>1, RegistryInductive, PTL

\* The key and the scale of a contribution never change under a stored one.
THEOREM SlotAndWeightFixed == RegistrySpec => SlotAndWeightAreForGood
<1>1. RegistryInv /\ RegistryInv' /\ [RegistryNext]_registryVars
      => [\A v \in Vaults :
            VaultSlotsOf(v) # {} => /\ RegistrySlots(v)' = RegistrySlots(v)
                                    /\ VaultWeights(v)' = VaultWeights(v)]_registryVars
  <2> SUFFICES ASSUME RegistryInv, RegistryInv', [RegistryNext]_registryVars,
                      ~UNCHANGED registryVars,
                      NEW v \in Vaults, VaultSlotsOf(v) # {}
               PROVE  /\ RegistrySlots(v)' = RegistrySlots(v)
                      /\ VaultWeights(v)' = VaultWeights(v)
    OBVIOUS
  <2>1. PICK i \in VaultSlot : vault_list[i].vault = v
    BY DEF VaultSlotsOf
  <2>2. v # DefaultPubkey
    BY VaultRegistryAssumption
  <2>3. vault_list'[i] = vault_list[i]
    BY <2>1, <2>2, RegistrySteps DEF AddsMint, AddsVault, RegistryInv, RegistryTypeOK
  <2>4. /\ RegistrySlots(v) = {i}
        /\ \E k \in MintSlot : /\ st_mint_list[k].st_mint = supported_mint[v]
                               /\ VaultWeights(v) = {st_mint_list[k].weight_bps}
    BY <2>1, SlotAndWeightOf
  <2>5. /\ RegistrySlots(v)' = {i}
        /\ \E k \in MintSlot : /\ st_mint_list'[k].st_mint = supported_mint[v]
                               /\ VaultWeights(v)' = {st_mint_list'[k].weight_bps}
    <3>1. (RegistryInv /\ vault_list[i].vault = v =>
            /\ RegistrySlots(v) = {i}
            /\ \E k \in MintSlot : /\ st_mint_list[k].st_mint = supported_mint[v]
                                   /\ VaultWeights(v) = {st_mint_list[k].weight_bps})'
      BY SlotAndWeightOf, PTL
    <3>2. QED
      BY <2>1, <2>3, <3>1
  <2>6. PICK k \in MintSlot : /\ st_mint_list[k].st_mint = supported_mint[v]
                              /\ VaultWeights(v) = {st_mint_list[k].weight_bps}
    BY <2>4
  <2>7. PICK l \in MintSlot : /\ st_mint_list'[l].st_mint = supported_mint[v]
                              /\ VaultWeights(v)' = {st_mint_list'[l].weight_bps}
    BY <2>5
  <2>8. supported_mint[v] # DefaultPubkey
    BY VaultRegistryAssumption
  <2>9. st_mint_list'[k] = st_mint_list[k]
    BY <2>6, <2>8, RegistrySteps DEF AddsMint, AddsVault, RegistryInv, RegistryTypeOK
  <2>10. k = l
    BY <2>6, <2>7, <2>8, <2>9 DEF RegistryInv, MintListedOnce
  <2>11. QED
    BY <2>4, <2>5, <2>6, <2>7, <2>9, <2>10
<1>2. QED
  BY <1>1, RegistryInductive, PTL DEF RegistrySpec, SlotAndWeightAreForGood

(***************************************************************************)
(* The fees.  The records are never both scheduled, and FeeConfig          *)
(* implements FeeSchedule.                                                 *)
(*                                                                         *)
(* The refinement needs one more fact.  When both records count from one   *)
(* epoch, current_fees charges fee_1 and an update overwrites fee_1: this  *)
(* epoch's fee then falls to fee_2, so the two must be the same.           *)
(***************************************************************************)

SameWhenTogether == fee_1.activation_epoch = fee_2.activation_epoch => fee_1 = fee_2

WithinCap ==
    \A e \in Nat : e >= epoch => check_fees_okay(fee_1, fee_2, e)

FeesInv == FeesTypeOK /\ OneIsScheduledForNext /\ SameWhenTogether /\ WithinCap

Given == {{}} \cup {{b} : b \in Bps}

LEMMA TheFeeGiven ==
    ASSUME NEW bps \in Given, bps # {}
    PROVE  (CHOOSE b \in bps : TRUE) \in bps /\ bps \subseteq Bps /\ \A b, c \in bps : b = c
<1>1. PICK c \in Bps : bps = {c}
  BY DEF Given
<1>2. (CHOOSE b \in bps : TRUE) \in bps
  BY <1>1
<1>3. QED
  BY <1>1, <1>2

\* An update edits one record, and the other one is what this epoch charges.
LEMMA UpdatedRecords ==
    ASSUME FeesInv, NEW bps \in Given, epoch + 1 <= MAX_EPOCH
    PROVE  \E f \in Fees, c \in {fee_1, fee_2} :
             /\ f.activation_epoch = epoch + 1
             /\ \A b \in bps : f.ncn_fee_bps = b
             /\ c.activation_epoch <= epoch
             /\ c = current_fees(fee_1, fee_2, epoch)
             /\ updated(bps) \in {<<f, c>>, <<c, f>>}
<1> DEFINE set(f) == scheduled(f, epoch, bps)
<1>1. /\ epoch \in Nat /\ MAX_EPOCH \in Nat /\ fee_1 \in Fees /\ fee_2 \in Fees
      /\ fee_1.activation_epoch \in Nat /\ fee_2.activation_epoch \in Nat
      /\ fee_1.ncn_fee_bps \in Bps /\ fee_2.ncn_fee_bps \in Bps
  BY FeesAssumption DEF FeesInv, FeesTypeOK, Fees
<1>2. ASSUME NEW f \in Fees
      PROVE  /\ set(f) \in Fees /\ set(f).activation_epoch = epoch + 1
             /\ \A b \in bps : set(f).ncn_fee_bps = b
  <2> DEFINE fee == IF bps = {} THEN f.ncn_fee_bps ELSE CHOOSE b \in bps : TRUE
  <2>1. fee \in Bps /\ \A b \in bps : fee = b
    BY TheFeeGiven DEF Fees
  <2> HIDE DEF fee
  <2>2. epoch + 1 \in 0 .. MAX_EPOCH
    BY <1>1
  <2>3. set(f) = [activation_epoch |-> epoch + 1, ncn_fee_bps |-> fee]
    BY DEF fee, set, scheduled
  <2>4. QED
    BY <2>1, <2>2, <2>3 DEF Fees
<1> DEFINE first(f1, f2) == first_is_updatable(f1, f2, epoch)
           now == current_fees(fee_1, fee_2, epoch)
<1> HIDE DEF set, first, now
<1>3. now \in {fee_1, fee_2}
  BY DEF current_fees, now
<1>4. CASE is_scheduled(fee_1, fee_2, epoch)
  <2>1. updated(bps) = IF first(fee_1, fee_2) THEN <<set(fee_1), fee_2>> ELSE <<fee_1, set(fee_2)>>
    BY <1>4 DEF updated, set_fees_to_current, schedule, set, first
  <2>2. CASE fee_1.activation_epoch > epoch
    <3>1. first(fee_1, fee_2) /\ now = fee_2 /\ fee_2.activation_epoch <= epoch
      BY <2>2, <1>1 DEF first, now, first_is_updatable, current_fees, FeesInv, OneIsScheduledForNext
    <3>2. QED
      BY <3>1, <2>1, <1>1, <1>2 DEF now
  <2>3. CASE ~(fee_1.activation_epoch > epoch)
    <3>1. ~first(fee_1, fee_2) /\ now = fee_1 /\ fee_1.activation_epoch <= epoch
      BY <2>3, <1>1, <1>4 DEF first, now, first_is_updatable, current_fees, is_scheduled
    <3>2. QED
      BY <3>1, <2>1, <1>1, <1>2 DEF now
  <2>4. QED
    BY <2>2, <2>3
<1>5. CASE ~is_scheduled(fee_1, fee_2, epoch)
  <2>1. fee_1.activation_epoch <= epoch /\ fee_2.activation_epoch <= epoch
    BY <1>5, <1>1 DEF is_scheduled
  <2>2. CASE fee_1.activation_epoch <= fee_2.activation_epoch
    <3>1. first(fee_1, fee_2)
      BY <2>1, <2>2, <1>1 DEF first, first_is_updatable
    <3>2. now = fee_2
      BY <2>1, <2>2, <1>1 DEF now, current_fees, FeesInv, SameWhenTogether
    <3>3. first(fee_2, fee_2)
      BY <2>1, <1>1 DEF first, first_is_updatable
    <3>4. updated(bps) = <<set(fee_2), fee_2>>
      BY <1>5, <3>1, <3>2, <3>3 DEF updated, set_fees_to_current, schedule, set, first, now
    <3>5. QED
      BY <3>2, <3>4, <2>1, <1>1, <1>2 DEF now
  <2>3. CASE ~(fee_1.activation_epoch <= fee_2.activation_epoch)
    <3>1. ~first(fee_1, fee_2) /\ now = fee_1
      BY <2>1, <2>3, <1>1 DEF first, now, first_is_updatable, current_fees
    <3>2. first(fee_1, fee_1)
      BY <2>1, <1>1 DEF first, first_is_updatable
    <3>3. updated(bps) = <<set(fee_1), fee_1>>
      BY <1>5, <3>1, <3>2 DEF updated, set_fees_to_current, schedule, set, first, now
    <3>4. QED
      BY <3>1, <3>3, <2>1, <1>1, <1>2 DEF now
  <2>4. QED
    BY <2>2, <2>3
<1>6. QED
  BY <1>4, <1>5

-------------------------------------------------------------------------------
(***************************************************************************)
(* Which record is charged when one is due in the next epoch               *)
(***************************************************************************)

LEMMA OneDueNext ==
    ASSUME NEW e \in Nat, NEW f, NEW c,
           f.activation_epoch = e + 1, c.activation_epoch \in Nat, c.activation_epoch <= e,
           NEW f1, NEW f2, <<f1, f2>> \in {<<f, c>>, <<c, f>>}
    PROVE  /\ current_fees(f1, f2, e) = c
           /\ \A d \in Nat : d > e => current_fees(f1, f2, d) = f
<1>1. CASE f1 = f /\ f2 = c
  BY <1>1 DEF current_fees
<1>2. CASE f1 = c /\ f2 = f
  BY <1>2 DEF current_fees
<1>3. QED
  BY <1>1, <1>2

\* What an accepted update does, in terms of the fees charged.
LEMMA UpdateStep ==
    ASSUME FeesInv, NEW bps \in Given, update_fee_config(bps)
    PROVE  \E f \in Fees, c \in {fee_1, fee_2} :
             /\ f.activation_epoch = epoch + 1
             /\ c.activation_epoch <= epoch
             /\ c = current_fees(fee_1, fee_2, epoch)
             /\ <<fee_1', fee_2'>> \in {<<f, c>>, <<c, f>>}
             /\ total_fees_bps(f) \in 1 .. MAX_FEE_BPS
             /\ current_fees(fee_1', fee_2', epoch) = c
             /\ \A d \in Nat : d > epoch => current_fees(fee_1', fee_2', d) = f
<1>1. epoch \in Nat /\ epoch + 1 <= MAX_EPOCH
  BY DEF FeesInv, FeesTypeOK, update_fee_config, IsAccepted
<1>2. PICK f \in Fees, c \in {fee_1, fee_2} :
        /\ f.activation_epoch = epoch + 1
        /\ c.activation_epoch <= epoch
        /\ c = current_fees(fee_1, fee_2, epoch)
        /\ updated(bps) \in {<<f, c>>, <<c, f>>}
  BY <1>1, UpdatedRecords
<1>3. <<fee_1', fee_2'>> \in {<<f, c>>, <<c, f>>}
  BY <1>2 DEF update_fee_config
<1>4. c.activation_epoch \in Nat
  BY FeesAssumption DEF FeesInv, FeesTypeOK, Fees
<1>5. /\ current_fees(fee_1', fee_2', epoch) = c
      /\ \A d \in Nat : d > epoch => current_fees(fee_1', fee_2', d) = f
  BY <1>1, <1>2, <1>3, <1>4, OneDueNext
<1>6. check_fees_okay(fee_1', fee_2', epoch + 1)
  BY DEF update_fee_config, IsAccepted
<1>7. total_fees_bps(f) \in 1 .. MAX_FEE_BPS
  BY <1>1, <1>5, <1>6 DEF check_fees_okay
<1>8. QED
  BY <1>2, <1>3, <1>5, <1>7

-------------------------------------------------------------------------------
(***************************************************************************)
(* Theorems                                                                *)
(***************************************************************************)

LEMMA RecordTypes ==
    ASSUME FeesInv
    PROVE  /\ epoch \in Nat /\ MAX_EPOCH \in Nat /\ epoch <= MAX_EPOCH
           /\ fee_1 \in Fees /\ fee_2 \in Fees
           /\ fee_1.activation_epoch \in Nat /\ fee_2.activation_epoch \in Nat
           /\ fee_1.activation_epoch <= epoch + 1 /\ fee_2.activation_epoch <= epoch + 1
  BY FeesAssumption DEF FeesInv, FeesTypeOK, Fees, OneIsScheduledForNext

LEMMA FeesInitInv ==
    ASSUME FeesInit
    PROVE  FeesInv
<1>1. PICK bps \in Bps :
        /\ fee_1 = [activation_epoch |-> epoch, ncn_fee_bps |-> bps]
        /\ fee_2 = fee_1
        /\ check_fees_okay(fee_1, fee_2, epoch)
  BY DEF FeesInit
<1>2. epoch \in 0 .. MAX_EPOCH /\ ncn_fee_wallet \in Wallets
  BY DEF FeesInit
<1>3. FeesTypeOK
  BY <1>1, <1>2 DEF FeesTypeOK, Fees
<1>4. OneIsScheduledForNext /\ SameWhenTogether
  BY <1>1, <1>2, FeesAssumption DEF OneIsScheduledForNext, SameWhenTogether
<1>5. \A e \in Nat : current_fees(fee_1, fee_2, e) = fee_1
  BY <1>1 DEF current_fees
<1>6. WithinCap
  BY <1>1, <1>2, <1>5, FeesAssumption DEF WithinCap, check_fees_okay
<1>7. QED
  BY <1>3, <1>4, <1>6 DEF FeesInv

LEMMA FeesNextInv ==
    ASSUME FeesInv, [FeesNext]_feesVars
    PROVE  FeesInv'
<1>1. CASE NewEpoch
  <2>1. epoch' \in 0 .. MAX_EPOCH /\ epoch' > epoch /\ epoch' \in Nat
    BY <1>1, RecordTypes DEF NewEpoch
  <2>2. fee_1' = fee_1 /\ fee_2' = fee_2 /\ ncn_fee_wallet' = ncn_fee_wallet
    BY <1>1 DEF NewEpoch
  <2>3. FeesTypeOK' /\ SameWhenTogether'
    BY <2>1, <2>2 DEF FeesInv, FeesTypeOK, SameWhenTogether
  <2>4. OneIsScheduledForNext'
    BY <2>1, <2>2, RecordTypes DEF OneIsScheduledForNext
  <2>5. WithinCap'
    BY <2>1, <2>2, RecordTypes DEF FeesInv, WithinCap, check_fees_okay, current_fees
  <2>6. QED
    BY <2>3, <2>4, <2>5 DEF FeesInv
<1>2. ASSUME NEW bps \in Given, update_fee_config(bps)
      PROVE  FeesInv'
  <2>1. PICK f \in Fees, c \in {fee_1, fee_2} :
          /\ f.activation_epoch = epoch + 1
          /\ c.activation_epoch <= epoch
          /\ c = current_fees(fee_1, fee_2, epoch)
          /\ <<fee_1', fee_2'>> \in {<<f, c>>, <<c, f>>}
          /\ total_fees_bps(f) \in 1 .. MAX_FEE_BPS
          /\ current_fees(fee_1', fee_2', epoch) = c
          /\ \A d \in Nat : d > epoch => current_fees(fee_1', fee_2', d) = f
    BY <1>2, UpdateStep
  <2>2. epoch' = epoch /\ ncn_fee_wallet' \in Wallets
    BY <1>2 DEF update_fee_config
  <2>3. c \in Fees /\ c.activation_epoch \in Nat /\ epoch \in Nat
    BY RecordTypes
  <2>4. (fee_1' = f /\ fee_2' = c) \/ (fee_1' = c /\ fee_2' = f)
    BY <2>1
  <2>5. FeesTypeOK'
    BY <2>2, <2>3, <2>4 DEF FeesInv, FeesTypeOK
  <2>6. OneIsScheduledForNext' /\ SameWhenTogether'
    BY <2>1, <2>2, <2>3, <2>4 DEF OneIsScheduledForNext, SameWhenTogether
  <2>7. check_fees_okay(fee_1', fee_2', epoch)
    BY <2>1, <2>3 DEF FeesInv, WithinCap, check_fees_okay
  <2>8. ASSUME NEW e \in Nat, e > epoch
        PROVE  check_fees_okay(fee_1', fee_2', e)
    BY <2>1, <2>8 DEF check_fees_okay
  <2>9. \A e \in Nat : e >= epoch => check_fees_okay(fee_1', fee_2', e)
    BY <2>3, <2>7, <2>8
  <2>10. WithinCap'
    BY <2>2, <2>9 DEF WithinCap, check_fees_okay, current_fees, total_fees_bps
  <2>11. QED
    BY <2>5, <2>6, <2>10 DEF FeesInv
<1>3. CASE UNCHANGED feesVars
  BY <1>3 DEF feesVars, FeesInv, FeesTypeOK, OneIsScheduledForNext, SameWhenTogether, WithinCap,
              check_fees_okay, current_fees, total_fees_bps
<1>4. QED
  BY <1>1, <1>2, <1>3 DEF FeesNext, Given

THEOREM FeesInvariance == FeesSpec => []FeesInv
<1>1. FeesInit => FeesInv
  BY FeesInitInv
<1>2. FeesInv /\ [FeesNext]_feesVars => FeesInv'
  BY FeesNextInv
<1>3. QED
  BY <1>1, <1>2, PTL DEF FeesSpec

\* Every record is a pair of an epoch that exists and a fee that was passed.
THEOREM FeesAreTyped == FeesSpec => []FeesTypeOK
<1>1. FeesInv => FeesTypeOK
  BY DEF FeesInv
<1>2. QED
  BY <1>1, FeesInvariance, PTL

\* Never are both records scheduled, and never for later than the next epoch:
\* set_fees_to_current's error is unreachable (fees.rs:206).
THEOREM OneRecordIsScheduled == FeesSpec => []OneIsScheduledForNext
<1>1. FeesInv => OneIsScheduledForNext
  BY DEF FeesInv
<1>2. QED
  BY <1>1, FeesInvariance, PTL

LEMMA CapFromInv ==
    ASSUME FeesInv
    PROVE  CapHoldsInEveryEpoch
<1>1. ASSUME NEW e \in epoch .. MAX_EPOCH
      PROVE  total_fees_bps(current_fees(fee_1, fee_2, e)) \in 1 .. MAX_FEE_BPS
  BY <1>1, RecordTypes DEF FeesInv, WithinCap, check_fees_okay
<1>2. ASSUME epoch < MAX_EPOCH, NEW b \in Bps
      PROVE  IsAccepted({b}) <=> PROTOCOL_FEE_BPS + b <= MAX_FEE_BPS
  <2>1. epoch + 1 <= MAX_EPOCH /\ {b} \in Given
    BY <1>2, RecordTypes DEF Given
  <2>2. PICK f \in Fees, c \in {fee_1, fee_2} :
          /\ f.activation_epoch = epoch + 1
          /\ \A x \in {b} : f.ncn_fee_bps = x
          /\ c.activation_epoch <= epoch
          /\ c = current_fees(fee_1, fee_2, epoch)
          /\ updated({b}) \in {<<f, c>>, <<c, f>>}
    BY <2>1, UpdatedRecords
  <2>3. PICK f1 \in {f, c}, f2 \in {f, c} :
          /\ updated({b}) = <<f1, f2>>
          /\ <<f1, f2>> \in {<<f, c>>, <<c, f>>}
    BY <2>2
  <2>4. /\ current_fees(f1, f2, epoch) = c
        /\ current_fees(f1, f2, epoch + 1) = f
    <3>1. epoch \in Nat /\ epoch + 1 \in Nat /\ epoch + 1 > epoch /\ c.activation_epoch \in Nat
      BY RecordTypes
    <3>2. QED
      BY <2>2, <2>3, <3>1, OneDueNext
  <2>5. check_fees_okay(f1, f2, epoch)
    BY <2>2, <2>4, RecordTypes DEF FeesInv, WithinCap, check_fees_okay
  <2>6. b \in Nat /\ PROTOCOL_FEE_BPS \in Nat /\ PROTOCOL_FEE_BPS >= 1 /\ MAX_FEE_BPS \in Nat
    BY FeesAssumption
  <2>7. check_fees_okay(f1, f2, epoch + 1) <=> PROTOCOL_FEE_BPS + b <= MAX_FEE_BPS
    BY <2>2, <2>4, <2>6 DEF check_fees_okay, total_fees_bps
  <2>8. updated({b})[1] = f1 /\ updated({b})[2] = f2
    BY <2>3
  <2>9. IsAccepted({b}) <=> b <= MAX_FEE_BPS /\ check_fees_okay(f1, f2, epoch + 1)
    BY <2>1, <2>5, <2>8 DEF IsAccepted
  <2>10. QED
    BY <2>6, <2>7, <2>9
<1>3. QED
  BY <1>1, <1>2 DEF CapHoldsInEveryEpoch

\* The fees charged stay within the cap in every epoch to come, and a fee is
\* accepted exactly if it fits under the cap with the protocol's (fees.rs:232).
THEOREM CapHolds == FeesSpec => []CapHoldsInEveryEpoch
<1>1. FeesInv => CapHoldsInEveryEpoch
  BY CapFromInv
<1>2. QED
  BY <1>1, FeesInvariance, PTL

LEMMA NowAndNext ==
    ASSUME FeesInv
    PROVE  /\ current_fees(fee_1, fee_2, epoch).ncn_fee_bps \in {b \in Bps : b <= MAX_FEE_BPS}
           /\ current_fees(fee_1, fee_2, epoch + 1).ncn_fee_bps \in {b \in Bps : b <= MAX_FEE_BPS}
<1>1. ASSUME NEW e \in Nat, e >= epoch
      PROVE  current_fees(fee_1, fee_2, e).ncn_fee_bps \in {b \in Bps : b <= MAX_FEE_BPS}
  <2>1. current_fees(fee_1, fee_2, e) \in Fees
    BY RecordTypes DEF current_fees
  <2>2. total_fees_bps(current_fees(fee_1, fee_2, e)) \in 1 .. MAX_FEE_BPS
    BY <1>1 DEF FeesInv, WithinCap, check_fees_okay
  <2>3. current_fees(fee_1, fee_2, e).ncn_fee_bps \in Bps /\ Bps \subseteq Nat
    BY <2>1, FeesAssumption DEF Fees
  <2> DEFINE fee == current_fees(fee_1, fee_2, e).ncn_fee_bps
  <2>4. fee \in Nat /\ fee \in Bps /\ PROTOCOL_FEE_BPS + fee \in 1 .. MAX_FEE_BPS
    BY <2>2, <2>3 DEF total_fees_bps
  <2> HIDE DEF fee
  <2>5. fee <= MAX_FEE_BPS
    BY <2>4, FeesAssumption
  <2>6. QED
    BY <2>4, <2>5 DEF fee
<1>2. epoch \in Nat /\ epoch + 1 \in Nat /\ epoch + 1 >= epoch
  BY RecordTypes
<1>3. QED
  BY <1>1, <1>2

\* FeeConfig implements a fee that is fixed during an epoch and one to come
\* (fees.rs:9): updates in a row, in one epoch or after several without any,
\* never change what this epoch charges.
THEOREM FeesImplementSchedule == FeesSpec => ImplementsFeeSchedule
<1>1. FeesInit => Schedule!FeeScheduleInit
  <2> SUFFICES ASSUME FeesInit PROVE Schedule!FeeScheduleInit
    OBVIOUS
  <2>1. FeesInv
    BY FeesInitInv
  <2>2. fee_2 = fee_1
    BY DEF FeesInit
  <2>3. current_fees(fee_1, fee_2, epoch) = fee_1 /\ current_fees(fee_1, fee_2, epoch + 1) = fee_1
    BY <2>2 DEF current_fees
  <2>4. QED
    BY <2>1, <2>3, NowAndNext, RecordTypes DEF Schedule!FeeScheduleInit
<1>2. ASSUME FeesInv, [FeesNext]_feesVars
      PROVE  [Schedule!NextEpochs \/ Schedule!SetFee]_<<epoch,
                current_fees(fee_1, fee_2, epoch).ncn_fee_bps,
                current_fees(fee_1, fee_2, epoch + 1).ncn_fee_bps>>
  <2>1. FeesInv'
    BY <1>2, FeesNextInv
  <2>2. CASE NewEpoch
    <3>1. epoch' \in Nat /\ epoch' > epoch /\ fee_1' = fee_1 /\ fee_2' = fee_2
      BY <1>2, <2>2, RecordTypes DEF NewEpoch
    <3>2. /\ current_fees(fee_1, fee_2, epoch') = current_fees(fee_1, fee_2, epoch + 1)
          /\ current_fees(fee_1, fee_2, epoch' + 1) = current_fees(fee_1, fee_2, epoch + 1)
      BY <1>2, <3>1, RecordTypes DEF current_fees
    <3>3. Schedule!NextEpochs
      BY <1>2, <3>1, <3>2, RecordTypes DEF Schedule!NextEpochs, current_fees
    <3>4. QED
      BY <3>3
  <2>3. ASSUME NEW bps \in Given, update_fee_config(bps)
        PROVE  Schedule!SetFee
    <3>1. PICK f \in Fees, c \in {fee_1, fee_2} :
            /\ c = current_fees(fee_1, fee_2, epoch)
            /\ current_fees(fee_1', fee_2', epoch) = c
      BY <1>2, <2>3, UpdateStep
    <3>2. epoch' = epoch
      BY <2>3 DEF update_fee_config
    <3>3. current_fees(fee_1', fee_2', epoch' + 1).ncn_fee_bps \in {b \in Bps : b <= MAX_FEE_BPS}
      <4>1. (FeesInv => current_fees(fee_1, fee_2, epoch + 1).ncn_fee_bps
                          \in {b \in Bps : b <= MAX_FEE_BPS})'
        BY NowAndNext, PTL
      <4>2. QED
        BY <2>1, <4>1 DEF current_fees
    <3>4. QED
      BY <3>1, <3>2, <3>3 DEF Schedule!SetFee, current_fees
  <2>4. CASE UNCHANGED feesVars
    BY <2>4 DEF feesVars, current_fees
  <2>5. QED
    BY <1>2, <2>2, <2>3, <2>4 DEF FeesNext, Given
<1>3. QED
  BY <1>1, <1>2, FeesInvariance, PTL
     DEF FeesSpec, ImplementsFeeSchedule, Schedule!FeeScheduleSpec
-------------------------------------------------------------------------------
(***************************************************************************)
(* The boundary.  Each generated instruction fits its handler, position by *)
(* position: that is a fact about constants, one lemma for each pair.  A   *)
(* message only adds privileges, so that what fits alone fits in any       *)
(* message; two handlers ask for one privilege more than their clients     *)
(* write.                                                                  *)
(***************************************************************************)

\* Meta m gives the handler what it expects, but for what is in lacking.
Meets(m, expected, lacking) ==
    /\ m.role = expected.role
    /\ "signer" \in expected.needs => m.signer
    /\ "writable" \in expected.needs \ lacking => m.writable
    /\ expected.writes => m.writable

\* The two handlers that insist on a writable ncn_admin.
Lacking(ix, role) ==
    IF ix.discriminator \in {11, 12} /\ role = "ncn_admin" THEN {"writable"} ELSE {}

Fits(ix, handler, args) ==
    /\ NCNProgramInstruction[ix.discriminator + 1] = <<handler, args>>
    /\ args = ix.args
    /\ Len(handler) = Len(ix.accounts)
    /\ DOMAIN handler = DOMAIN ix.accounts
    /\ \A p \in DOMAIN handler : Meets(ix.accounts[p], handler[p], Lacking(ix, handler[p].role))

FitsSome(ix) == \E handler, args : Fits(ix, handler, args)

\* No field the builder insists on is one a caller may leave out.
MayOmit(entry) == entry[2] \cap OptionalFields(entry[1]) = {}

LEMMA InitializeConfigFits == FitsSome(InitializeConfigInstruction) /\ MayOmit(<<InitializeConfigInstruction, InitializeConfigBuilder>>)
<1>1. /\ NCNProgramInstruction[InitializeConfigInstruction.discriminator + 1] = <<process_admin_initialize_config, InitializeConfigInstruction.args>>
  BY DEF NCNProgramInstruction, InitializeConfigInstruction
<1>2. /\ Len(process_admin_initialize_config) = Len(InitializeConfigInstruction.accounts)
      /\ DOMAIN process_admin_initialize_config = DOMAIN InitializeConfigInstruction.accounts
  BY DEF process_admin_initialize_config, InitializeConfigInstruction
<1>3. \A p \in DOMAIN process_admin_initialize_config :
        Meets(InitializeConfigInstruction.accounts[p], process_admin_initialize_config[p], Lacking(InitializeConfigInstruction, process_admin_initialize_config[p].role))
  BY DEF process_admin_initialize_config, InitializeConfigInstruction, Meets, Lacking, R, W, S, WS,
         Expects, Plain, Loaded, Unloaded, Signs, SignsWritable
<1>4. MayOmit(<<InitializeConfigInstruction, InitializeConfigBuilder>>)
  BY DEF MayOmit, OptionalFields, InitializeConfigBuilder, FieldsOf, InitializeConfigInstruction, R, W, S, WS
<1>5. QED
  BY <1>1, <1>2, <1>3, <1>4 DEF FitsSome, Fits

LEMMA InitializeVaultRegistryFits == FitsSome(InitializeVaultRegistryInstruction) /\ MayOmit(<<InitializeVaultRegistryInstruction, InitializeVaultRegistryBuilder>>)
<1>1. /\ NCNProgramInstruction[InitializeVaultRegistryInstruction.discriminator + 1] = <<process_initialize_vault_registry, InitializeVaultRegistryInstruction.args>>
  BY DEF NCNProgramInstruction, InitializeVaultRegistryInstruction
<1>2. /\ Len(process_initialize_vault_registry) = Len(InitializeVaultRegistryInstruction.accounts)
      /\ DOMAIN process_initialize_vault_registry = DOMAIN InitializeVaultRegistryInstruction.accounts
  BY DEF process_initialize_vault_registry, InitializeVaultRegistryInstruction
<1>3. \A p \in DOMAIN process_initialize_vault_registry :
        Meets(InitializeVaultRegistryInstruction.accounts[p], process_initialize_vault_registry[p], Lacking(InitializeVaultRegistryInstruction, process_initialize_vault_registry[p].role))
  BY DEF process_initialize_vault_registry, InitializeVaultRegistryInstruction, Meets, Lacking, R, W, S, WS,
         Expects, Plain, Loaded, Unloaded, Signs, SignsWritable
<1>4. MayOmit(<<InitializeVaultRegistryInstruction, InitializeVaultRegistryBuilder>>)
  BY DEF MayOmit, OptionalFields, InitializeVaultRegistryBuilder, FieldsOf, InitializeVaultRegistryInstruction, R, W, S, WS
<1>5. QED
  BY <1>1, <1>2, <1>3, <1>4 DEF FitsSome, Fits

LEMMA RegisterVaultFits == FitsSome(RegisterVaultInstruction) /\ MayOmit(<<RegisterVaultInstruction, RegisterVaultBuilder>>)
<1>1. /\ NCNProgramInstruction[RegisterVaultInstruction.discriminator + 1] = <<process_register_vault, RegisterVaultInstruction.args>>
  BY DEF NCNProgramInstruction, RegisterVaultInstruction
<1>2. /\ Len(process_register_vault) = Len(RegisterVaultInstruction.accounts)
      /\ DOMAIN process_register_vault = DOMAIN RegisterVaultInstruction.accounts
  BY DEF process_register_vault, RegisterVaultInstruction
<1>3. \A p \in DOMAIN process_register_vault :
        Meets(RegisterVaultInstruction.accounts[p], process_register_vault[p], Lacking(RegisterVaultInstruction, process_register_vault[p].role))
  BY DEF process_register_vault, RegisterVaultInstruction, Meets, Lacking, R, W, S, WS,
         Expects, Plain, Loaded, Unloaded, Signs, SignsWritable
<1>4. MayOmit(<<RegisterVaultInstruction, RegisterVaultBuilder>>)
  BY DEF MayOmit, OptionalFields, RegisterVaultBuilder, FieldsOf, RegisterVaultInstruction, R, W, S, WS
<1>5. QED
  BY <1>1, <1>2, <1>3, <1>4 DEF FitsSome, Fits

LEMMA RegisterOperatorFits == FitsSome(RegisterOperatorInstruction) /\ MayOmit(<<RegisterOperatorInstruction, RegisterOperatorBuilder>>)
<1>1. /\ NCNProgramInstruction[RegisterOperatorInstruction.discriminator + 1] = <<process_register_operator, RegisterOperatorInstruction.args>>
  BY DEF NCNProgramInstruction, RegisterOperatorInstruction
<1>2. /\ Len(process_register_operator) = Len(RegisterOperatorInstruction.accounts)
      /\ DOMAIN process_register_operator = DOMAIN RegisterOperatorInstruction.accounts
  BY DEF process_register_operator, RegisterOperatorInstruction
<1>3. \A p \in DOMAIN process_register_operator :
        Meets(RegisterOperatorInstruction.accounts[p], process_register_operator[p], Lacking(RegisterOperatorInstruction, process_register_operator[p].role))
  BY DEF process_register_operator, RegisterOperatorInstruction, Meets, Lacking, R, W, S, WS,
         Expects, Plain, Loaded, Unloaded, Signs, SignsWritable
<1>4. MayOmit(<<RegisterOperatorInstruction, RegisterOperatorBuilder>>)
  BY DEF MayOmit, OptionalFields, RegisterOperatorBuilder, FieldsOf, RegisterOperatorInstruction, R, W, S, WS
<1>5. QED
  BY <1>1, <1>2, <1>3, <1>4 DEF FitsSome, Fits

LEMMA UpdateOperatorBN128KeysFits == FitsSome(UpdateOperatorBN128KeysInstruction) /\ MayOmit(<<UpdateOperatorBN128KeysInstruction, UpdateOperatorBN128KeysBuilder>>)
<1>1. /\ NCNProgramInstruction[UpdateOperatorBN128KeysInstruction.discriminator + 1] = <<process_update_operator_bn128_keys, UpdateOperatorBN128KeysInstruction.args>>
  BY DEF NCNProgramInstruction, UpdateOperatorBN128KeysInstruction
<1>2. /\ Len(process_update_operator_bn128_keys) = Len(UpdateOperatorBN128KeysInstruction.accounts)
      /\ DOMAIN process_update_operator_bn128_keys = DOMAIN UpdateOperatorBN128KeysInstruction.accounts
  BY DEF process_update_operator_bn128_keys, UpdateOperatorBN128KeysInstruction
<1>3. \A p \in DOMAIN process_update_operator_bn128_keys :
        Meets(UpdateOperatorBN128KeysInstruction.accounts[p], process_update_operator_bn128_keys[p], Lacking(UpdateOperatorBN128KeysInstruction, process_update_operator_bn128_keys[p].role))
  BY DEF process_update_operator_bn128_keys, UpdateOperatorBN128KeysInstruction, Meets, Lacking, R, W, S, WS,
         Expects, Plain, Loaded, Unloaded, Signs, SignsWritable
<1>4. MayOmit(<<UpdateOperatorBN128KeysInstruction, UpdateOperatorBN128KeysBuilder>>)
  BY DEF MayOmit, OptionalFields, UpdateOperatorBN128KeysBuilder, FieldsOf, UpdateOperatorBN128KeysInstruction, R, W, S, WS
<1>5. QED
  BY <1>1, <1>2, <1>3, <1>4 DEF FitsSome, Fits

LEMMA RemoveOperatorFits == FitsSome(RemoveOperatorInstruction) /\ MayOmit(<<RemoveOperatorInstruction, RemoveOperatorBuilder>>)
<1>1. /\ NCNProgramInstruction[RemoveOperatorInstruction.discriminator + 1] = <<process_remove_operator, RemoveOperatorInstruction.args>>
  BY DEF NCNProgramInstruction, RemoveOperatorInstruction
<1>2. /\ Len(process_remove_operator) = Len(RemoveOperatorInstruction.accounts)
      /\ DOMAIN process_remove_operator = DOMAIN RemoveOperatorInstruction.accounts
  BY DEF process_remove_operator, RemoveOperatorInstruction
<1>3. \A p \in DOMAIN process_remove_operator :
        Meets(RemoveOperatorInstruction.accounts[p], process_remove_operator[p], Lacking(RemoveOperatorInstruction, process_remove_operator[p].role))
  BY DEF process_remove_operator, RemoveOperatorInstruction, Meets, Lacking, R, W, S, WS,
         Expects, Plain, Loaded, Unloaded, Signs, SignsWritable
<1>4. MayOmit(<<RemoveOperatorInstruction, RemoveOperatorBuilder>>)
  BY DEF MayOmit, OptionalFields, RemoveOperatorBuilder, FieldsOf, RemoveOperatorInstruction, R, W, S, WS
<1>5. QED
  BY <1>1, <1>2, <1>3, <1>4 DEF FitsSome, Fits

LEMMA UpdateOperatorIpPortFits == FitsSome(UpdateOperatorIpPortInstruction) /\ MayOmit(<<UpdateOperatorIpPortInstruction, UpdateOperatorIpPortBuilder>>)
<1>1. /\ NCNProgramInstruction[UpdateOperatorIpPortInstruction.discriminator + 1] = <<process_update_operator_ip_port, UpdateOperatorIpPortInstruction.args>>
  BY DEF NCNProgramInstruction, UpdateOperatorIpPortInstruction
<1>2. /\ Len(process_update_operator_ip_port) = Len(UpdateOperatorIpPortInstruction.accounts)
      /\ DOMAIN process_update_operator_ip_port = DOMAIN UpdateOperatorIpPortInstruction.accounts
  BY DEF process_update_operator_ip_port, UpdateOperatorIpPortInstruction
<1>3. \A p \in DOMAIN process_update_operator_ip_port :
        Meets(UpdateOperatorIpPortInstruction.accounts[p], process_update_operator_ip_port[p], Lacking(UpdateOperatorIpPortInstruction, process_update_operator_ip_port[p].role))
  BY DEF process_update_operator_ip_port, UpdateOperatorIpPortInstruction, Meets, Lacking, R, W, S, WS,
         Expects, Plain, Loaded, Unloaded, Signs, SignsWritable
<1>4. MayOmit(<<UpdateOperatorIpPortInstruction, UpdateOperatorIpPortBuilder>>)
  BY DEF MayOmit, OptionalFields, UpdateOperatorIpPortBuilder, FieldsOf, UpdateOperatorIpPortInstruction, R, W, S, WS
<1>5. QED
  BY <1>1, <1>2, <1>3, <1>4 DEF FitsSome, Fits

LEMMA InitializeSnapshotFits == FitsSome(InitializeSnapshotInstruction) /\ MayOmit(<<InitializeSnapshotInstruction, InitializeSnapshotBuilder>>)
<1>1. /\ NCNProgramInstruction[InitializeSnapshotInstruction.discriminator + 1] = <<process_initialize_snapshot, InitializeSnapshotInstruction.args>>
  BY DEF NCNProgramInstruction, InitializeSnapshotInstruction
<1>2. /\ Len(process_initialize_snapshot) = Len(InitializeSnapshotInstruction.accounts)
      /\ DOMAIN process_initialize_snapshot = DOMAIN InitializeSnapshotInstruction.accounts
  BY DEF process_initialize_snapshot, InitializeSnapshotInstruction
<1>3. \A p \in DOMAIN process_initialize_snapshot :
        Meets(InitializeSnapshotInstruction.accounts[p], process_initialize_snapshot[p], Lacking(InitializeSnapshotInstruction, process_initialize_snapshot[p].role))
  BY DEF process_initialize_snapshot, InitializeSnapshotInstruction, Meets, Lacking, R, W, S, WS,
         Expects, Plain, Loaded, Unloaded, Signs, SignsWritable
<1>4. MayOmit(<<InitializeSnapshotInstruction, InitializeSnapshotBuilder>>)
  BY DEF MayOmit, OptionalFields, InitializeSnapshotBuilder, FieldsOf, InitializeSnapshotInstruction, R, W, S, WS
<1>5. QED
  BY <1>1, <1>2, <1>3, <1>4 DEF FitsSome, Fits

LEMMA ReallocSnapshotFits == FitsSome(ReallocSnapshotInstruction) /\ MayOmit(<<ReallocSnapshotInstruction, ReallocSnapshotBuilder>>)
<1>1. /\ NCNProgramInstruction[ReallocSnapshotInstruction.discriminator + 1] = <<process_realloc_snapshot, ReallocSnapshotInstruction.args>>
  BY DEF NCNProgramInstruction, ReallocSnapshotInstruction
<1>2. /\ Len(process_realloc_snapshot) = Len(ReallocSnapshotInstruction.accounts)
      /\ DOMAIN process_realloc_snapshot = DOMAIN ReallocSnapshotInstruction.accounts
  BY DEF process_realloc_snapshot, ReallocSnapshotInstruction
<1>3. \A p \in DOMAIN process_realloc_snapshot :
        Meets(ReallocSnapshotInstruction.accounts[p], process_realloc_snapshot[p], Lacking(ReallocSnapshotInstruction, process_realloc_snapshot[p].role))
  BY DEF process_realloc_snapshot, ReallocSnapshotInstruction, Meets, Lacking, R, W, S, WS,
         Expects, Plain, Loaded, Unloaded, Signs, SignsWritable
<1>4. MayOmit(<<ReallocSnapshotInstruction, ReallocSnapshotBuilder>>)
  BY DEF MayOmit, OptionalFields, ReallocSnapshotBuilder, FieldsOf, ReallocSnapshotInstruction, R, W, S, WS
<1>5. QED
  BY <1>1, <1>2, <1>3, <1>4 DEF FitsSome, Fits

LEMMA SnapshotVaultOperatorDelegationFits == FitsSome(SnapshotVaultOperatorDelegationInstruction) /\ MayOmit(<<SnapshotVaultOperatorDelegationInstruction, SnapshotVaultOperatorDelegationBuilder>>)
<1>1. /\ NCNProgramInstruction[SnapshotVaultOperatorDelegationInstruction.discriminator + 1] = <<process_snapshot_vault_operator_delegation, SnapshotVaultOperatorDelegationInstruction.args>>
  BY DEF NCNProgramInstruction, SnapshotVaultOperatorDelegationInstruction
<1>2. /\ Len(process_snapshot_vault_operator_delegation) = Len(SnapshotVaultOperatorDelegationInstruction.accounts)
      /\ DOMAIN process_snapshot_vault_operator_delegation = DOMAIN SnapshotVaultOperatorDelegationInstruction.accounts
  BY DEF process_snapshot_vault_operator_delegation, SnapshotVaultOperatorDelegationInstruction
<1>3. \A p \in DOMAIN process_snapshot_vault_operator_delegation :
        Meets(SnapshotVaultOperatorDelegationInstruction.accounts[p], process_snapshot_vault_operator_delegation[p], Lacking(SnapshotVaultOperatorDelegationInstruction, process_snapshot_vault_operator_delegation[p].role))
  BY DEF process_snapshot_vault_operator_delegation, SnapshotVaultOperatorDelegationInstruction, Meets, Lacking, R, W, S, WS,
         Expects, Plain, Loaded, Unloaded, Signs, SignsWritable
<1>4. MayOmit(<<SnapshotVaultOperatorDelegationInstruction, SnapshotVaultOperatorDelegationBuilder>>)
  BY DEF MayOmit, OptionalFields, SnapshotVaultOperatorDelegationBuilder, FieldsOf, SnapshotVaultOperatorDelegationInstruction, R, W, S, WS
<1>5. QED
  BY <1>1, <1>2, <1>3, <1>4 DEF FitsSome, Fits

LEMMA VerifyCertificateFits == FitsSome(VerifyCertificateInstruction) /\ MayOmit(<<VerifyCertificateInstruction, VerifyCertificateBuilder>>)
<1>1. /\ NCNProgramInstruction[VerifyCertificateInstruction.discriminator + 1] = <<process_verify_certificate, VerifyCertificateInstruction.args>>
  BY DEF NCNProgramInstruction, VerifyCertificateInstruction
<1>2. /\ Len(process_verify_certificate) = Len(VerifyCertificateInstruction.accounts)
      /\ DOMAIN process_verify_certificate = DOMAIN VerifyCertificateInstruction.accounts
  BY DEF process_verify_certificate, VerifyCertificateInstruction
<1>3. \A p \in DOMAIN process_verify_certificate :
        Meets(VerifyCertificateInstruction.accounts[p], process_verify_certificate[p], Lacking(VerifyCertificateInstruction, process_verify_certificate[p].role))
  BY DEF process_verify_certificate, VerifyCertificateInstruction, Meets, Lacking, R, W, S, WS,
         Expects, Plain, Loaded, Unloaded, Signs, SignsWritable
<1>4. MayOmit(<<VerifyCertificateInstruction, VerifyCertificateBuilder>>)
  BY DEF MayOmit, OptionalFields, VerifyCertificateBuilder, FieldsOf, VerifyCertificateInstruction, R, W, S, WS
<1>5. QED
  BY <1>1, <1>2, <1>3, <1>4 DEF FitsSome, Fits

LEMMA AdminSetParametersFits == FitsSome(AdminSetParametersInstruction) /\ MayOmit(<<AdminSetParametersInstruction, AdminSetParametersBuilder>>)
<1>1. /\ NCNProgramInstruction[AdminSetParametersInstruction.discriminator + 1] = <<process_admin_set_parameters, AdminSetParametersInstruction.args>>
  BY DEF NCNProgramInstruction, AdminSetParametersInstruction
<1>2. /\ Len(process_admin_set_parameters) = Len(AdminSetParametersInstruction.accounts)
      /\ DOMAIN process_admin_set_parameters = DOMAIN AdminSetParametersInstruction.accounts
  BY DEF process_admin_set_parameters, AdminSetParametersInstruction
<1>3. \A p \in DOMAIN process_admin_set_parameters :
        Meets(AdminSetParametersInstruction.accounts[p], process_admin_set_parameters[p], Lacking(AdminSetParametersInstruction, process_admin_set_parameters[p].role))
  BY DEF process_admin_set_parameters, AdminSetParametersInstruction, Meets, Lacking, R, W, S, WS,
         Expects, Plain, Loaded, Unloaded, Signs, SignsWritable
<1>4. MayOmit(<<AdminSetParametersInstruction, AdminSetParametersBuilder>>)
  BY DEF MayOmit, OptionalFields, AdminSetParametersBuilder, FieldsOf, AdminSetParametersInstruction, R, W, S, WS
<1>5. QED
  BY <1>1, <1>2, <1>3, <1>4 DEF FitsSome, Fits

LEMMA AdminSetNewAdminFits == FitsSome(AdminSetNewAdminInstruction) /\ MayOmit(<<AdminSetNewAdminInstruction, AdminSetNewAdminBuilder>>)
<1>1. /\ NCNProgramInstruction[AdminSetNewAdminInstruction.discriminator + 1] = <<process_admin_set_new_admin, AdminSetNewAdminInstruction.args>>
  BY DEF NCNProgramInstruction, AdminSetNewAdminInstruction
<1>2. /\ Len(process_admin_set_new_admin) = Len(AdminSetNewAdminInstruction.accounts)
      /\ DOMAIN process_admin_set_new_admin = DOMAIN AdminSetNewAdminInstruction.accounts
  BY DEF process_admin_set_new_admin, AdminSetNewAdminInstruction
<1>3. \A p \in DOMAIN process_admin_set_new_admin :
        Meets(AdminSetNewAdminInstruction.accounts[p], process_admin_set_new_admin[p], Lacking(AdminSetNewAdminInstruction, process_admin_set_new_admin[p].role))
  BY DEF process_admin_set_new_admin, AdminSetNewAdminInstruction, Meets, Lacking, R, W, S, WS,
         Expects, Plain, Loaded, Unloaded, Signs, SignsWritable
<1>4. MayOmit(<<AdminSetNewAdminInstruction, AdminSetNewAdminBuilder>>)
  BY DEF MayOmit, OptionalFields, AdminSetNewAdminBuilder, FieldsOf, AdminSetNewAdminInstruction, R, W, S, WS
<1>5. QED
  BY <1>1, <1>2, <1>3, <1>4 DEF FitsSome, Fits

LEMMA AdminRegisterStMintFits == FitsSome(AdminRegisterStMintInstruction) /\ MayOmit(<<AdminRegisterStMintInstruction, AdminRegisterStMintBuilder>>)
<1>1. /\ NCNProgramInstruction[AdminRegisterStMintInstruction.discriminator + 1] = <<process_admin_register_st_mint, AdminRegisterStMintInstruction.args>>
  BY DEF NCNProgramInstruction, AdminRegisterStMintInstruction
<1>2. /\ Len(process_admin_register_st_mint) = Len(AdminRegisterStMintInstruction.accounts)
      /\ DOMAIN process_admin_register_st_mint = DOMAIN AdminRegisterStMintInstruction.accounts
  BY DEF process_admin_register_st_mint, AdminRegisterStMintInstruction
<1>3. \A p \in DOMAIN process_admin_register_st_mint :
        Meets(AdminRegisterStMintInstruction.accounts[p], process_admin_register_st_mint[p], Lacking(AdminRegisterStMintInstruction, process_admin_register_st_mint[p].role))
  BY DEF process_admin_register_st_mint, AdminRegisterStMintInstruction, Meets, Lacking, R, W, S, WS,
         Expects, Plain, Loaded, Unloaded, Signs, SignsWritable
<1>4. MayOmit(<<AdminRegisterStMintInstruction, AdminRegisterStMintBuilder>>)
  BY DEF MayOmit, OptionalFields, AdminRegisterStMintBuilder, FieldsOf, AdminRegisterStMintInstruction, R, W, S, WS
<1>5. QED
  BY <1>1, <1>2, <1>3, <1>4 DEF FitsSome, Fits

LEMMA EveryInstructionFits ==
    ASSUME NEW entry \in ClientInstructions
    PROVE  FitsSome(entry[1]) /\ MayOmit(entry)
BY InitializeConfigFits, InitializeVaultRegistryFits, RegisterVaultFits,
   RegisterOperatorFits, UpdateOperatorBN128KeysFits, RemoveOperatorFits,
   UpdateOperatorIpPortFits, InitializeSnapshotFits, ReallocSnapshotFits,
   SnapshotVaultOperatorDelegationFits, VerifyCertificateFits, AdminSetParametersFits,
   AdminSetNewAdminFits, AdminRegisterStMintFits
DEF ClientInstructions

-------------------------------------------------------------------------------
MetaAt(i, p) == message[i].accounts[p]

\* A key has whatever some instruction of the message asks for it.
LEMMA Granted ==
    ASSUME NEW i \in DOMAIN message, NEW p \in DOMAIN message[i].accounts
    PROVE  /\ MetaAt(i, p).signer => IsSigner(KeyOf(MetaAt(i, p).role))
           /\ MetaAt(i, p).writable => IsWritable(KeyOf(MetaAt(i, p).role))
<1>1. MetaAt(i, p) \in MetasOf(KeyOf(MetaAt(i, p).role))
  BY DEF MetasOf, MetaAt
<1>2. QED
  BY <1>1 DEF IsSigner, IsWritable

\* The result at one position: none but the privilege that may be lacking.
LEMMA CheckResult ==
    ASSUME NEW i \in DOMAIN message, NEW p \in DOMAIN message[i].accounts,
           NEW expected, NEW lacking \in SUBSET {"writable"},
           Meets(MetaAt(i, p), expected, lacking)
    PROVE  \/ Check(expected, MetaAt(i, p).role) = "ok"
           \/ /\ Check(expected, MetaAt(i, p).role) = "InvalidAccountData"
              /\ "writable" \in lacking
              /\ KeyOf(expected.role) # fee_payer
<1>1. CASE "signer" \in expected.needs /\ ~IsSigner(KeyOf(expected.role))
  BY <1>1, Granted DEF Meets
<1>2. CASE "writable" \in expected.needs /\ ~IsWritable(KeyOf(expected.role))
  <2>1. "writable" \in lacking
    BY <1>2, Granted DEF Meets
  <2>2. KeyOf(expected.role) # fee_payer
    BY <1>2 DEF IsWritable
  <2>3. Check(expected, MetaAt(i, p).role) = "InvalidAccountData"
    <3>1. ~("signer" \in expected.needs /\ ~IsSigner(KeyOf(expected.role)))
      BY Granted DEF Meets
    <3>2. QED
      BY <1>2, <3>1 DEF Check, Meets
  <2>4. QED
    BY <2>1, <2>2, <2>3
<1>3. CASE expected.writes /\ ~IsWritable(KeyOf(expected.role))
  BY <1>3, Granted DEF Meets
<1>4. CASE /\ ~("signer" \in expected.needs /\ ~IsSigner(KeyOf(expected.role)))
           /\ ~("writable" \in expected.needs /\ ~IsWritable(KeyOf(expected.role)))
           /\ ~(expected.writes /\ ~IsWritable(KeyOf(expected.role)))
  BY <1>4 DEF Check, Meets
<1>5. QED
  BY <1>1, <1>2, <1>3, <1>4

LEMMA InstructionResult ==
    ASSUME NEW i \in DOMAIN message, FitsSome(message[i]),
           NEW result \in process_instruction(message[i])
    PROVE  \/ result = "ok"
           \/ /\ result = "InvalidAccountData"
              /\ message[i].discriminator \in {11, 12}
              /\ holder["ncn_admin"] # fee_payer
<1> DEFINE ix == message[i]
<1>1. PICK handler, args : Fits(ix, handler, args)
  BY DEF FitsSome
<1>2. process_instruction(ix) = {Check(handler[p], ix.accounts[p].role) : p \in DOMAIN handler}
  BY <1>1 DEF Fits, process_instruction
<1>3. PICK p \in DOMAIN handler : result = Check(handler[p], ix.accounts[p].role)
  BY <1>2
<1>4. /\ p \in DOMAIN message[i].accounts
      /\ Meets(MetaAt(i, p), handler[p], Lacking(ix, handler[p].role))
  BY <1>1, <1>3 DEF Fits, MetaAt
<1>5. Lacking(ix, handler[p].role) \in SUBSET {"writable"}
  BY DEF Lacking
<1>6. \/ result = "ok"
      \/ /\ result = "InvalidAccountData"
         /\ "writable" \in Lacking(ix, handler[p].role)
         /\ KeyOf(handler[p].role) # fee_payer
  BY <1>3, <1>4, <1>5, CheckResult DEF MetaAt
<1>7. "writable" \in Lacking(ix, handler[p].role) =>
        ix.discriminator \in {11, 12} /\ handler[p].role = "ncn_admin"
  BY DEF Lacking
<1>8. KeyOf("ncn_admin") = holder["ncn_admin"]
  BY DEF KeyOf, SigningRoles
<1>9. QED
  BY <1>6, <1>7, <1>8

\* A message holds generated instructions.
InterfaceInv ==
    /\ message \in Seq({entry[1] : entry \in ClientInstructions})
    /\ OnlyAReadonlyAdminIsRefused

LEMMA InterfaceNextInv ==
    InterfaceInv /\ [InterfaceNext]_interfaceVars => InterfaceInv'
<1> SUFFICES ASSUME InterfaceInv, [InterfaceNext]_interfaceVars PROVE InterfaceInv'
  OBVIOUS
<1>1. ASSUME NEW entry \in ClientInstructions, NEW omitted \in SUBSET OptionalFields(entry[1]),
             Build(entry, omitted)
      PROVE  InterfaceInv'
  <2>1. entry[2] \cap omitted = {}
    BY EveryInstructionFits DEF MayOmit
  <2>2. /\ message' = Append(message, entry[1])
        /\ outcome = "none" /\ outcome' = "none"
    BY <1>1, <2>1 DEF Build
  <2>3. message' \in Seq({e[1] : e \in ClientInstructions})
    BY <2>2 DEF InterfaceInv
  <2>4. QED
    BY <2>2, <2>3 DEF InterfaceInv, OnlyAReadonlyAdminIsRefused
<1>2. CASE SendMessage
  <2> DEFINE results == UNION {process_instruction(message[i]) : i \in DOMAIN message}
  <2>1. \A i \in DOMAIN message : FitsSome(message[i])
    <3>1. \A i \in DOMAIN message : message[i] \in {entry[1] : entry \in ClientInstructions}
      BY DEF InterfaceInv
    <3>2. QED
      BY <3>1, EveryInstructionFits
  <2>2. CASE outcome' = "ok"
    BY <1>2, <2>2 DEF SendMessage, InterfaceInv, OnlyAReadonlyAdminIsRefused
  <2>3. CASE outcome' # "ok"
    <3>1. outcome' \in results \ {"ok"}
      BY <1>2, <2>3 DEF SendMessage
    <3>2. PICK i \in DOMAIN message : outcome' \in process_instruction(message[i])
      BY <3>1
    <3>3. /\ outcome' = "InvalidAccountData"
          /\ message[i].discriminator \in {11, 12}
          /\ holder["ncn_admin"] # fee_payer
      BY <2>1, <2>3, <3>2, InstructionResult
    <3>4. UNCHANGED <<fee_payer, holder, message>>
      BY <1>2 DEF SendMessage
    <3>5. QED
      BY <3>2, <3>3, <3>4 DEF InterfaceInv, OnlyAReadonlyAdminIsRefused
  <2>4. QED
    BY <2>2, <2>3
<1>3. CASE UNCHANGED interfaceVars
  BY <1>3 DEF interfaceVars, InterfaceInv, OnlyAReadonlyAdminIsRefused
<1>4. QED
  BY <1>1, <1>2, <1>3 DEF InterfaceNext

\* The generated clients and the handlers agree on order, number and privileges
\* of accounts in any message of any length, whoever signs and pays: what is
\* refused is a message that changes the Config and that the NCN's admin does
\* not pay for (admin_set_parameters.rs:52, admin_set_new_admin.rs:33).
THEOREM ClientsFitHandlers == InterfaceSpec => []OnlyAReadonlyAdminIsRefused
<1>1. InterfaceInit => InterfaceInv
  BY DEF InterfaceInit, InterfaceInv, OnlyAReadonlyAdminIsRefused
<1>2. InterfaceInv => OnlyAReadonlyAdminIsRefused
  BY DEF InterfaceInv
<1>3. QED
  BY <1>1, <1>2, InterfaceNextInv, PTL DEF InterfaceSpec

(***************************************************************************)
(* The keeper, with any number of keepers and operators and with epochs of *)
(* any two lengths.  A copy of the snapshot is old as soon as it is read.  *)
(* What stays true of it: its operators are still registered or were       *)
(* removed, and its markers are not ahead of the chain's.                  *)
(***************************************************************************)

CopyIsOld(k) ==
    \A o \in DOMAIN keeper[k].copy :
        /\ o \in registered \cup removed
        /\ o \in registered => keeper[k].copy[o] <= last_snapshot_slot[o]

KeeperInv ==
    /\ KeeperTypeOK
    /\ vault_epoch <= get_epoch(slot)
    /\ \A o \in Operators : last_snapshot_slot[o] <= slot
    /\ CrankedAfterUpdate
    /\ \A k \in Keepers : CopyIsOld(k)

\* A later slot is in no earlier epoch.
LEMMA LaterEpoch ==
    ASSUME NEW a \in Nat, NEW b \in Nat, a <= b
    PROVE  get_epoch(a) \in Nat /\ get_epoch(b) \in Nat /\ get_epoch(a) <= get_epoch(b)
BY DivMonotone, KeeperAssumption DEF get_epoch

\* Epochs that occur.
LEMMA EpochOfSlot ==
    ASSUME KeeperTypeOK
    PROVE  /\ get_epoch(slot) \in 0 .. get_epoch(MAX_SLOT)
           /\ cluster_epoch \in Nat
<1>1. slot \in Nat /\ MAX_SLOT \in Nat /\ slot <= MAX_SLOT
  BY KeeperAssumption DEF KeeperTypeOK
<1>2. get_epoch(slot) \in 0 .. get_epoch(MAX_SLOT)
  BY <1>1, LaterEpoch
<1>3. cluster_epoch \in Nat
  BY <1>1, DivMonotone, KeeperAssumption DEF cluster_epoch
<1>4. QED
  BY <1>2, <1>3

\* The snapshot as it is read.
LEMMA SnapshotIsCopy ==
    ASSUME KeeperTypeOK
    PROVE  Snapshot \in Copies /\ DOMAIN Snapshot = registered
<1>1. registered \in SUBSET Operators /\ last_snapshot_slot \in [Operators -> 0 .. MAX_SLOT]
  BY DEF KeeperTypeOK
<1>2. Snapshot \in [registered -> 0 .. MAX_SLOT]
  BY <1>1 DEF Snapshot
<1>3. QED
  BY <1>1, <1>2 DEF Copies

\* A copy is about operators.
LEMMA CopyIs ==
    ASSUME NEW c \in Copies
    PROVE  DOMAIN c \subseteq Operators /\ \A o \in DOMAIN c : c[o] \in 0 .. MAX_SLOT
BY DEF Copies

\* What any step does to the chain: time passes, operators come and go for good,
\* and markers of registered operators move forward, behind the vault's update.
ChainMoves ==
    /\ slot' \in 0 .. MAX_SLOT /\ slot <= slot'
    /\ opted_in \subseteq opted_in' /\ opted_in' \subseteq Operators
    /\ registered' \subseteq opted_in' /\ registered \subseteq registered' \cup removed'
    /\ removed \subseteq removed' /\ removed' \subseteq Operators \ registered'
    /\ last_snapshot_slot' \in [Operators -> 0 .. MAX_SLOT]
    /\ \A o \in Operators : last_snapshot_slot'[o] <= slot'
    /\ \A o \in registered : last_snapshot_slot[o] <= last_snapshot_slot'[o]
    /\ vault_epoch' \in 0 .. get_epoch(MAX_SLOT) /\ vault_epoch' <= get_epoch(slot')
    /\ \A o \in registered' : get_epoch(last_snapshot_slot'[o]) <= vault_epoch'
    /\ vault_listed' \in BOOLEAN

\* No step does too.
LEMMA StillMoves ==
    ASSUME KeeperInv, UNCHANGED chainVars
    PROVE  ChainMoves
<1>1. UNCHANGED <<slot, opted_in, registered, removed, last_snapshot_slot, vault_epoch, vault_listed>>
  BY DEF chainVars
<1>2. slot <= slot /\ \A o \in registered : last_snapshot_slot[o] <= last_snapshot_slot[o]
  BY KeeperAssumption DEF KeeperInv, KeeperTypeOK
<1>3. QED
  BY <1>1, <1>2 DEF KeeperInv, KeeperTypeOK, CrankedAfterUpdate, ChainMoves, get_epoch

\* Nor does any step of the chain do more.
LEMMA ChainStepMoves ==
    ASSUME KeeperInv, ChainStep
    PROVE  ChainMoves
<1>1. /\ slot \in 0 .. MAX_SLOT /\ slot \in Nat /\ slot <= slot
      /\ get_epoch(slot) \in 0 .. get_epoch(MAX_SLOT)
      /\ \A o \in registered : last_snapshot_slot[o] <= last_snapshot_slot[o]
  BY EpochOfSlot, KeeperAssumption DEF KeeperInv, KeeperTypeOK
<1>2. CASE Tick
  <2>1. slot' \in 0 .. MAX_SLOT /\ slot' \in Nat /\ slot <= slot'
    BY <1>1, <1>2, KeeperAssumption DEF Tick
  <2>2. get_epoch(slot) <= get_epoch(slot') /\ get_epoch(slot') \in Nat
    BY <1>1, <2>1, LaterEpoch
  <2>3. /\ vault_epoch' <= get_epoch(slot')
        /\ \A o \in Operators : last_snapshot_slot'[o] <= slot'
    BY <1>1, <1>2, <2>1, <2>2 DEF Tick, KeeperInv, KeeperTypeOK
  <2>4. QED
    BY <1>1, <1>2, <2>1, <2>3 DEF Tick, ChainMoves, KeeperInv, KeeperTypeOK, CrankedAfterUpdate
<1>3. CASE RegisterFirstVault
  BY <1>1, <1>3 DEF RegisterFirstVault, ChainMoves, KeeperInv, KeeperTypeOK, CrankedAfterUpdate
<1>4. CASE UpdateVault
  <2>1. vault_epoch <= get_epoch(slot) /\ vault_epoch \in Nat
    BY DEF KeeperInv, KeeperTypeOK
  <2>2. \A o \in registered : get_epoch(last_snapshot_slot[o]) <= get_epoch(slot)
    BY LaterEpoch, <1>1 DEF KeeperInv, KeeperTypeOK
  <2>3. QED
    BY <1>1, <1>4, <2>2 DEF UpdateVault, ChainMoves, KeeperInv, KeeperTypeOK
<1>5. ASSUME NEW o \in Operators, OptIn(o) PROVE ChainMoves
  BY <1>1, <1>5 DEF OptIn, ChainMoves, KeeperInv, KeeperTypeOK, CrankedAfterUpdate
<1>6. ASSUME NEW o \in Operators, Register(o) PROVE ChainMoves
  <2>1. 0 <= slot /\ 0 \in 0 .. MAX_SLOT /\ get_epoch(0) <= get_epoch(slot)
    <3>1. 0 \in Nat /\ 0 <= slot /\ 0 <= MAX_SLOT
      BY <1>1, KeeperAssumption
    <3>2. QED
      BY <1>1, <3>1, LaterEpoch
  <2>2. get_epoch(0) <= vault_epoch
    <3>1. get_epoch(0) = 0
      BY KeeperAssumption DEF get_epoch
    <3>2. QED
      BY <3>1 DEF KeeperInv, KeeperTypeOK
  <2>3. QED
    BY <1>1, <1>6, <2>1, <2>2 DEF Register, ChainMoves, KeeperInv, KeeperTypeOK, CrankedAfterUpdate
<1>7. ASSUME NEW o \in Operators, Remove(o) PROVE ChainMoves
  BY <1>1, <1>7 DEF Remove, ChainMoves, KeeperInv, KeeperTypeOK, CrankedAfterUpdate
<1>8. ASSUME NEW o \in Operators, CrankOperator(o) PROVE ChainMoves
  BY <1>1, <1>8 DEF CrankOperator, CanCrank, ChainMoves, KeeperInv, KeeperTypeOK, CrankedAfterUpdate
<1>9. QED
  BY <1>2, <1>3, <1>4, <1>5, <1>6, <1>7, <1>8 DEF ChainStep

\* A step of the chain leaves copies true that are in their type.
LEMMA InvKept ==
    ASSUME KeeperInv, ChainMoves, rpc_responds' \in BOOLEAN,
           keeper' \in [Keepers -> KeeperState],
           \A k \in Keepers : keeper'[k].copy \in {keeper[k].copy, Snapshot}
    PROVE  KeeperInv'
<1>1. KeeperTypeOK'
  BY DEF ChainMoves, KeeperTypeOK, get_epoch
<1>2. CrankedAfterUpdate' /\ (vault_epoch <= get_epoch(slot))'
      /\ (\A o \in Operators : last_snapshot_slot[o] <= slot)'
  BY DEF ChainMoves, CrankedAfterUpdate, get_epoch
<1>3. ASSUME NEW k \in Keepers PROVE CopyIsOld(k)'
  <2> SUFFICES ASSUME NEW o \in DOMAIN keeper'[k].copy
               PROVE  /\ o \in registered' \cup removed'
                      /\ o \in registered' => keeper'[k].copy[o] <= last_snapshot_slot'[o]
    BY DEF CopyIsOld
  <2>1. /\ o \in registered \cup removed
        /\ o \in registered => keeper'[k].copy[o] <= last_snapshot_slot[o]
    <3>1. CASE keeper'[k].copy = keeper[k].copy
      BY <3>1 DEF KeeperInv, CopyIsOld
    <3>2. CASE keeper'[k].copy = Snapshot
      BY <3>2 DEF KeeperInv, KeeperTypeOK, Snapshot
    <3>3. QED
      BY <3>1, <3>2
  <2>2. keeper'[k].copy \in Copies
    BY DEF KeeperState
  <2>3. o \in Operators /\ keeper'[k].copy[o] \in 0 .. MAX_SLOT
    BY <2>2, CopyIs
  <2>4. QED
    BY <2>1, <2>3 DEF ChainMoves, KeeperInv, KeeperTypeOK
<1>4. QED
  BY <1>1, <1>2, <1>3 DEF KeeperInv

\* What a keeper becomes is a state of a keeper, with the copy it had or a new one.
Follows(k, state) == state \in KeeperState /\ state.copy \in {keeper[k].copy, Snapshot}

\* Of one keeper, the others staying as they are.
LEMMA KeeperBecomes ==
    ASSUME KeeperInv, NEW k \in Keepers, NEW state, Follows(k, state), Becomes(k, state)
    PROVE  /\ keeper' \in [Keepers -> KeeperState]
           /\ \A j \in Keepers : keeper'[j].copy \in {keeper[j].copy, Snapshot}
BY DEF KeeperInv, KeeperTypeOK, Becomes, Follows

\* Each step of a keeper is of that kind, and on chain an instruction or nothing.
LEMMA KeeperStepFollows ==
    ASSUME KeeperInv, NEW k \in Keepers, KeeperStep(k)
    PROVE  /\ \E state : Follows(k, state) /\ Becomes(k, state)
           /\ ChainStep \/ UNCHANGED chainVars
<1>1. /\ keeper[k] \in KeeperState /\ Snapshot \in Copies /\ cluster_epoch \in Nat
      /\ DOMAIN keeper[k].copy \subseteq Operators
  BY SnapshotIsCopy, EpochOfSlot, CopyIs DEF KeeperInv, KeeperTypeOK, KeeperState
<1>2. CASE CheckEpoch(k)
  <2>1. PICK e \in {cluster_epoch, 0} :
          /\ Becomes(k, [keeper[k] EXCEPT !.pc = "state", !.epoch = e])
          /\ UNCHANGED chainVars
    BY <1>2 DEF CheckEpoch
  <2>2. e \in Nat
    BY <1>1
  <2>3. Follows(k, [keeper[k] EXCEPT !.pc = "state", !.epoch = e])
    BY <1>1, <2>2 DEF Follows, KeeperState, PCs
  <2>4. QED
    BY <2>1, <2>3
<1>3. CASE ReadState(k)
  <2> DEFINE fetching == keeper[k].state_epoch # keeper[k].epoch
             recorded == [keeper[k] EXCEPT !.state_epoch = keeper[k].epoch,
                                           !.address_set = fetching \/ keeper[k].address_set]
  <2>1. fetching \/ keeper[k].address_set \in BOOLEAN
    BY <1>1 DEF KeeperState
  <2>2. recorded \in KeeperState /\ recorded.copy = keeper[k].copy
    BY <1>1 DEF KeeperState
  <2> HIDE DEF recorded
  <2>3. /\ Follows(k, [recorded EXCEPT !.pc = "operators", !.copy = Snapshot])
        /\ Follows(k, [recorded EXCEPT !.pc = "epoch"])
        /\ Follows(k, [keeper[k] EXCEPT !.pc = "decide", !.should_snapshot = FALSE])
    BY <1>1, <2>2 DEF Follows, KeeperState, PCs
  <2>4. QED
    BY <1>3, <2>3 DEF recorded, ReadState, Fail
<1>4. CASE ReadOperators(k)
  BY <1>1, <1>4 DEF ReadOperators, Fail, Follows, KeeperState, PCs
<1>5. CASE Decide(k)
  BY <1>1, <1>5 DEF Decide, Follows, KeeperState, PCs
<1>6. CASE ReadRegistry(k)
  BY <1>1, <1>6 DEF ReadRegistry, Fail, Follows, KeeperState, PCs
<1>7. CASE ReadSnapshot(k)
  BY <1>1, <1>7 DEF ReadSnapshot, Fail, Follows, KeeperState, PCs
<1>8. CASE UpdateFirstVault(k)
  BY <1>1, <1>8 DEF UpdateFirstVault, Fail, Follows, KeeperState, PCs, ChainStep
<1>9. ASSUME NEW o \in Operators, CrankNext(k, o)
      PROVE  /\ \E state : Follows(k, state) /\ Becomes(k, state)
             /\ ChainStep \/ UNCHANGED chainVars
  BY <1>1, <1>9 DEF CrankNext, Follows, KeeperState, ChainStep
<1>10. CASE CrankEnd(k) \/ WakeUp(k)
  BY <1>1, <1>10 DEF CrankEnd, WakeUp, Follows, KeeperState, PCs
<1>11. QED
  BY <1>2, <1>3, <1>4, <1>5, <1>6, <1>7, <1>8, <1>9, <1>10 DEF KeeperStep

\* The invariant is preserved, ...
LEMMA KeeperNextInv == KeeperInv /\ [KeeperNext]_keeperVars => KeeperInv'
<1> SUFFICES ASSUME KeeperInv, [KeeperNext]_keeperVars PROVE KeeperInv'
  OBVIOUS
<1>1. rpc_responds \in BOOLEAN /\ keeper \in [Keepers -> KeeperState]
  BY DEF KeeperInv, KeeperTypeOK
<1>2. CASE ChainStep /\ UNCHANGED <<rpc_responds, keeper>>
  BY <1>1, <1>2, ChainStepMoves, InvKept
<1>3. CASE RpcRecovers
  <2>1. ChainMoves
    BY <1>3, StillMoves DEF RpcRecovers
  <2>2. QED
    BY <1>1, <1>3, <2>1, InvKept DEF RpcRecovers
<1>4. ASSUME NEW k \in Keepers, KeeperStep(k), UNCHANGED rpc_responds PROVE KeeperInv'
  <2>1. PICK state : Follows(k, state) /\ Becomes(k, state)
    BY <1>4, KeeperStepFollows
  <2>2. ChainMoves
    BY <1>4, KeeperStepFollows, ChainStepMoves, StillMoves
  <2>3. QED
    BY <1>1, <1>4, <2>1, <2>2, KeeperBecomes, InvKept
<1>5. CASE UNCHANGED keeperVars
  <2>1. UNCHANGED <<chainVars, rpc_responds, keeper>>
    BY <1>5 DEF keeperVars
  <2>2. QED
    BY <1>1, <2>1, StillMoves, InvKept
<1>6. QED
  BY <1>2, <1>3, <1>4, <1>5 DEF KeeperNext

\* ... holds initially, ...
LEMMA KeeperInitInv == KeeperInit => KeeperInv
<1> SUFFICES ASSUME KeeperInit PROVE KeeperInv
  OBVIOUS
<1>1. slot \in Nat /\ slot \in 0 .. MAX_SLOT
  BY KeeperAssumption DEF KeeperInit
<1>2. cluster_epoch \in Nat
  BY <1>1, DivMonotone, KeeperAssumption DEF cluster_epoch
<1>3. get_epoch(slot) \in Nat /\ get_epoch(MAX_SLOT) \in Nat
  BY <1>1, LaterEpoch, KeeperAssumption
<1>4. NoCopy \in Copies /\ DOMAIN NoCopy = {}
  <2>1. NoCopy \in [{} -> 0 .. MAX_SLOT] /\ {} \in SUBSET Operators
    BY DEF NoCopy
  <2>2. QED
    BY <2>1 DEF Copies
<1>5. KeeperTypeOK
  <2>1. keeper \in [Keepers -> KeeperState]
    BY <1>2, <1>4 DEF KeeperInit, KeeperState, PCs
  <2>2. 0 \in 0 .. MAX_SLOT /\ 0 \in 0 .. get_epoch(MAX_SLOT)
    BY <1>3, KeeperAssumption
  <2>3. QED
    BY <1>1, <2>1, <2>2 DEF KeeperInit, KeeperTypeOK
<1>6. \A k \in Keepers : CopyIsOld(k)
  BY <1>4 DEF KeeperInit, CopyIsOld
<1>7. QED
  BY <1>1, <1>3, <1>5, <1>6 DEF KeeperInit, KeeperInv, CrankedAfterUpdate

\* ... and always.
LEMMA KeeperInvariance == KeeperSafety => []KeeperInv
BY KeeperInitInv, KeeperNextInv, PTL DEF KeeperSafety

\* Keepers and the chain stay in their types.
THEOREM KeeperIsTyped == KeeperSafety => []KeeperTypeOK
<1>1. KeeperInv => KeeperTypeOK
  BY DEF KeeperInv
<1>2. QED
  BY <1>1, KeeperInvariance, PTL

\* However keepers, other crankers, updates of the vault and the clock interleave,
\* no operator's marker is in a later epoch than the last update of the vault.
THEOREM CranksFollowUpdates == KeeperSafety => []CrankedAfterUpdate
<1>1. KeeperInv => CrankedAfterUpdate
  BY DEF KeeperInv
<1>2. QED
  BY <1>1, KeeperInvariance, PTL

\* What a keeper compared was a copy behind the chain.
LEMMA UpToDate ==
    ASSUME KeeperInv, [KeeperNext]_keeperVars, NEW k \in Keepers,
           keeper[k].pc = "operators", keeper'[k].pc = "decide", ~keeper'[k].should_snapshot,
           NEW o \in registered
    PROVE  get_epoch(last_snapshot_slot[o]) >= keeper[k].epoch
<1>1. ~ \E x \in opted_in : NeedsSnapshot(k, x)
  <2>1. ReadOperators(k)
    <3>1. \A j \in Keepers : \A state : j # k /\ Becomes(j, state) => keeper'[k] = keeper[k]
      BY DEF KeeperInv, KeeperTypeOK, Becomes
    <3>2. keeper' # keeper
      OBVIOUS
    <3>3. PICK j \in Keepers : KeeperStep(j)
      BY <3>2 DEF KeeperNext, keeperVars, RpcRecovers
    <3>4. PICK state : Becomes(j, state)
      BY <3>3, KeeperStepFollows
    <3>5. j = k
      BY <3>1, <3>4
    <3>6. QED
      BY <3>3, <3>5 DEF KeeperStep, CheckEpoch, ReadState, Decide, ReadRegistry, ReadSnapshot,
                        UpdateFirstVault, CrankNext, CrankEnd, WakeUp
  <2>2. keeper[k] \in KeeperState
    BY DEF KeeperInv, KeeperTypeOK
  <2>3. \A state \in KeeperState : Becomes(k, state) => keeper'[k] = state
    BY DEF KeeperInv, KeeperTypeOK, Becomes
  <2>4. QED
    BY <2>1, <2>2, <2>3 DEF ReadOperators, Fail, KeeperState, PCs, Becomes, KeeperInv, KeeperTypeOK
<1>2. o \in opted_in /\ o \in Operators
  BY DEF KeeperInv, KeeperTypeOK
<1>3. o \in DOMAIN keeper[k].copy /\ ~(get_epoch(keeper[k].copy[o]) < keeper[k].epoch)
  BY <1>1, <1>2 DEF NeedsSnapshot
<1>4. keeper[k] \in KeeperState
  BY DEF KeeperInv, KeeperTypeOK
<1>5. keeper[k].copy[o] \in Nat /\ keeper[k].epoch \in Nat /\ last_snapshot_slot[o] \in Nat
  BY <1>2, <1>3, <1>4, CopyIs DEF KeeperState, KeeperInv, KeeperTypeOK
<1>6. keeper[k].copy[o] <= last_snapshot_slot[o]
  BY <1>3 DEF KeeperInv, CopyIsOld
<1>7. QED
  BY <1>3, <1>5, <1>6, LaterEpoch

\* A keeper that reports all operators to be up to date is right at that moment: its
\* copy is behind the chain, so what is done in the copy is done on chain, and an
\* operator that the copy lacks counts as not done (keeper_loop.rs:165).
THEOREM RestIsEarned == KeeperSafety => SaysUpToDateTruly
<1>1. KeeperInv /\ [KeeperNext]_keeperVars =>
        [\A k \in Keepers :
           keeper[k].pc = "operators" /\ keeper'[k].pc = "decide" /\ ~keeper'[k].should_snapshot
           => \A o \in registered : get_epoch(last_snapshot_slot[o]) >= keeper[k].epoch]_keeperVars
  BY UpToDate
<1>2. QED
  BY <1>1, KeeperInvariance, PTL DEF KeeperSafety, SaysUpToDateTruly
===============================================================================
