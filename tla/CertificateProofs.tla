--------------------------- MODULE CertificateProofs ---------------------------
(***************************************************************************)
(* Proofs about StakeSnapshot and Certificate, for any operators, keys,    *)
(* vaults, weights, thresholds and windows; the one about backed stake is  *)
(* for one vault, with two it is false.  What is proved about OperatorSet  *)
(* carries over: the stake and the certificate only observe the operator   *)
(* set.                                                                    *)
(***************************************************************************)
EXTENDS Certificate, OperatorSetProofs, NumberTheorems, SequenceTheorems

(***************************************************************************)
(* StakeSnapshot and Certificate implement OperatorSet                     *)
(***************************************************************************)

\* A step of the stake is a step of the operator set, or none for it.
LEMMA StakeStep == ASSUME [StakeNext]_stakeVars PROVE [Next]_vars
<1>1. CASE Tick
  BY <1>1 DEF Tick
<1>2. ASSUME NEW v \in Vaults, ChangeVaultConnection(v) \/ UpdateVault(v)
      PROVE  [Next]_vars
  BY <1>2 DEF ChangeVaultConnection, UpdateVault
<1>3. ASSUME NEW o \in Operators, OptIn(o) \/ ChangeConnection(o) \/ ProcessRemoveOperator(o)
      PROVE  [Next]_vars
  BY <1>3 DEF OptIn, ChangeConnection, ProcessRemoveOperator, Next
<1>4. ASSUME NEW o \in Operators, NEW key \in Keys,
             ProcessRegisterOperator(o, key) \/ ProcessUpdateOperatorBN128Keys(o, key)
      PROVE  [Next]_vars
  BY <1>4 DEF ProcessRegisterOperator, ProcessUpdateOperatorBN128Keys, Next
<1>5. ASSUME NEW v \in Vaults, NEW o \in Operators,
             \/ AddDelegation(v, o)
             \/ CooldownDelegation(v, o)
             \/ SnapshotVaultOperatorDelegation(v, o)
      PROVE  [Next]_vars
  BY <1>5 DEF AddDelegation, CooldownDelegation, SnapshotVaultOperatorDelegation
<1>6. CASE UNCHANGED stakeVars
  BY <1>6 DEF stakeVars
<1>7. QED
  BY <1>1, <1>2, <1>3, <1>4, <1>5, <1>6, StakeSnapshotAssumption DEF StakeNext

\* Cranks, delegations, opt-ins and the clock leave the operator set alone, and
\* every registration, removal and rotation is one of OperatorSet.
THEOREM StakeImplementsOperatorSet == StakeSpec => Spec
<1>1. StakeInit => Init
  BY DEF StakeInit
<1>2. [StakeNext]_stakeVars => [Next]_vars
  BY StakeStep
<1>3. QED
  BY <1>1, <1>2, PTL DEF StakeSpec, Spec

\* A certificate in flight changes nothing on chain.
THEOREM CertificateImplementsOperatorSet == CertificateSpec => Spec
<1>1. CertificateInit => Init
  BY DEF CertificateInit, StakeInit
<1>2. [CertificateNext]_certificateVars => [StakeNext]_stakeVars
  BY DEF CertificateNext, certificateVars, AssembleCertificate
<1>3. [StakeNext]_stakeVars => [Next]_vars
  BY StakeStep
<1>4. QED
  BY <1>1, <1>2, <1>3, PTL DEF CertificateSpec, Spec

(***************************************************************************)
(* Freshness                                                               *)
(***************************************************************************)

\* Strengthening: the slots that are compared are there and are numbers.
FreshnessInv ==
    /\ slot \in Nat /\ last_snapshot_slot \in Nat
    /\ DOMAIN stake = Index
    /\ \A i \in Index : stake[i].last_snapshot_slot \in Nat
    /\ FreshnessDominates

\* Only the crank and a registration write stake that is not older, and both
\* stamp the snapshot with the same slot.
LEMMA FreshnessStep ==
    ASSUME FreshnessInv, [StakeNext]_stakeVars
    PROVE  FreshnessInv'
<1> USE DEF FreshnessInv, FreshnessDominates
<1>1. CASE Tick
  BY <1>1 DEF Tick, snapshotVars
<1>2. ASSUME NEW v \in Vaults, ChangeVaultConnection(v) \/ UpdateVault(v)
      PROVE  FreshnessInv'
  BY <1>2 DEF ChangeVaultConnection, UpdateVault, snapshotVars
<1>3. ASSUME NEW o \in Operators, OptIn(o) \/ ChangeConnection(o)
      PROVE  FreshnessInv'
  BY <1>3 DEF OptIn, ChangeConnection, snapshotVars
<1>4. ASSUME NEW o \in Operators, ProcessRemoveOperator(o)
      PROVE  FreshnessInv'
  BY <1>4 DEF ProcessRemoveOperator, FreshStake
<1>5. ASSUME NEW o \in Operators, NEW key \in Keys, ProcessRegisterOperator(o, key)
      PROVE  FreshnessInv'
  <2>1. /\ slot' = slot /\ last_snapshot_slot' = slot
        /\ stake' = [stake EXCEPT ![ncn_operator_index[o]] = FreshStake]
    BY <1>5 DEF ProcessRegisterOperator
  <2>2. FreshStake.last_snapshot_slot = 0
    BY DEF FreshStake
  <2>3. \A i \in Index : stake'[i] \in {stake[i], FreshStake}
    BY <2>1
  <2>4. QED
    BY <2>1, <2>2, <2>3
<1>6. ASSUME NEW o \in Operators, NEW key \in Keys, ProcessUpdateOperatorBN128Keys(o, key)
      PROVE  FreshnessInv'
  BY <1>6 DEF ProcessUpdateOperatorBN128Keys, snapshotVars
<1>7. ASSUME NEW v \in Vaults, NEW o \in Operators, AddDelegation(v, o) \/ CooldownDelegation(v, o)
      PROVE  FreshnessInv'
  BY <1>7 DEF AddDelegation, CooldownDelegation, snapshotVars
<1>8. ASSUME NEW v \in Vaults, NEW o \in Operators, SnapshotVaultOperatorDelegation(v, o)
      PROVE  FreshnessInv'
  <2>1. /\ slot' = slot /\ last_snapshot_slot' = slot
        /\ \E i \in SlotsOf(o) : \E c : stake' = [stake EXCEPT ![i] = SnapshotStake(c)]
    BY <1>8 DEF SnapshotVaultOperatorDelegation
  <2>2. PICK i \in SlotsOf(o) : \E c : stake' = [stake EXCEPT ![i] = SnapshotStake(c)]
    BY <2>1
  <2> PICK c : stake' = [stake EXCEPT ![i] = SnapshotStake(c)]
    BY <2>2
  <2>3. SnapshotStake(c).last_snapshot_slot = slot
    BY DEF SnapshotStake
  <2>4. \A j \in Index : stake'[j] \in {stake[j], SnapshotStake(c)}
    BY <2>2
  <2>5. DOMAIN stake' = Index
    BY <2>2
  <2>6. QED
    BY <2>1, <2>3, <2>4, <2>5
<1>9. CASE UNCHANGED stakeVars
  BY <1>9 DEF stakeVars, snapshotVars
<1>10. QED
  BY <1>1, <1>2, <1>3, <1>4, <1>5, <1>6, <1>7, <1>8, <1>9, StakeSnapshotAssumption DEF StakeNext

\* certificate.rs subtracts the slot of an operator and of the snapshot from the
\* clock: in no order of cranks, registrations, removals and ticks is either
\* ahead of it, or an operator fresher than the snapshot claims to be.
THEOREM FreshnessHolds == StakeSpec => []FreshnessDominates
<1>1. StakeInit => FreshnessInv
  BY DEF StakeInit, FreshnessInv, FreshnessDominates, FreshStake
<1>2. FreshnessInv /\ [StakeNext]_stakeVars => FreshnessInv'
  BY FreshnessStep
<1>3. FreshnessInv => FreshnessDominates
  BY DEF FreshnessInv
<1>4. QED
  BY <1>1, <1>2, <1>3, PTL DEF StakeSpec

(***************************************************************************)
(* A certificate and the set it was assembled against                      *)
(***************************************************************************)

\* Strengthening: the generation never returns to the certificate's, so while the
\* two are equal the slots are still those the aggregator read.
GenerationInv ==
    certificate # None =>
        /\ certificate.generation \in Nat
        /\ certificate.generation <= generation
        /\ certificate.generation = generation => certificate.slots = operator_snapshots

\* Delayed however long, and whatever happened meanwhile, a certificate that
\* verifies under the generation of its assembly meets the same operators with
\* the same keys at the same indices.
THEOREM AcceptedSetIsAssembledSet == CertificateSpec => []AcceptedAgainstAssembledSet
<1>1. CertificateInit => GenerationInv
  BY DEF CertificateInit, GenerationInv
<1>2. TypeOK /\ TypeOK' /\ GenerationInv /\ [CertificateNext]_certificateVars => GenerationInv'
  <2> SUFFICES ASSUME TypeOK, TypeOK', GenerationInv, [CertificateNext]_certificateVars
               PROVE  GenerationInv'
    OBVIOUS
  <2>1. generation \in Nat /\ generation' \in Nat
    BY OperatorSetAssumption DEF TypeOK
  <2>2. ASSUME [StakeNext]_stakeVars, UNCHANGED certificate
        PROVE  GenerationInv'
    <3>1. /\ generation' >= generation
          /\ generation' = generation => operator_snapshots' = operator_snapshots
      BY <2>2, StakeStep, GenerationGuardsSlots
    <3>2. QED
      BY <2>1, <2>2, <3>1 DEF GenerationInv
  <2>3. ASSUME NEW bitmap \in Bitmaps, NEW signers \in SUBSET Operators,
               AssembleCertificate(bitmap, signers)
        PROVE  GenerationInv'
    BY <2>1, <2>3 DEF AssembleCertificate, GenerationInv, stakeVars, vars, slotVars, aggregateVars
  <2>4. QED
    BY <2>2, <2>3 DEF CertificateNext, certificateVars
<1>3. GenerationInv => AcceptedAgainstAssembledSet
  BY DEF GenerationInv, AcceptedAgainstAssembledSet, verify_certificate
<1>4. CertificateSpec => []TypeOK
  BY CertificateImplementsOperatorSet, TypeCorrect, PTL
<1>5. QED
  BY <1>1, <1>2, <1>3, <1>4, PTL DEF CertificateSpec

(***************************************************************************)
(* The bits that count                                                     *)
(***************************************************************************)

\* The APK holds at least the live keys.
LEMMA AggregateCoversLive ==
    ASSUME TypeOK, AggregateWithinOneOrphan, NEW k \in Keys
    PROVE  total_aggregated_g1_pubkey[k] >= LiveSum[k]
<1>1. LiveSum[k] \in Nat
  BY IndexFinite, FS_Subset, FS_CardinalityType DEF LiveSum, SumOf
<1>2. CASE total_aggregated_g1_pubkey = LiveSum
  BY <1>1, <1>2
<1>3. ASSUME NEW key \in Keys, total_aggregated_g1_pubkey = Plus(LiveSum, PointOf(key))
      PROVE  total_aggregated_g1_pubkey[k] >= LiveSum[k]
  <2>1. total_aggregated_g1_pubkey[k] = LiveSum[k] + PointOf(key)[k]
    BY <1>3 DEF Plus
  <2>2. PointOf(key)[k] \in {0, 1}
    BY DEF PointOf
  <2> HIDE DEF LiveSum
  <2>3. QED
    BY <1>1, <2>1, <2>2
<1>4. QED
  BY <1>2, <1>3 DEF AggregateWithinOneOrphan

\* Disjoint sets of slots hold at most the keys that all slots hold.
LEMMA KeysOfDisjointSlots ==
    ASSUME NEW A \in SUBSET Index, NEW B \in SUBSET Index, A \cap B = {}, NEW k \in Keys
    PROVE  /\ KeysOfSlots(A)[k] \in Nat
           /\ KeysOfSlots(B)[k] \in Nat
           /\ LiveSum[k] \in Nat
           /\ KeysOfSlots(A)[k] + KeysOfSlots(B)[k] <= LiveSum[k]
<1> DEFINE With(S) == {i \in S : operator_snapshots[i].g1_pubkey = k}
<1>1. /\ IsFiniteSet(With(A)) /\ IsFiniteSet(With(B)) /\ IsFiniteSet(With(Index))
      /\ IsFiniteSet(With(A) \cup With(B))
  BY IndexFinite, FS_Subset
<1>2. /\ KeysOfSlots(A)[k] = Cardinality(With(A))
      /\ KeysOfSlots(B)[k] = Cardinality(With(B))
      /\ LiveSum[k] = Cardinality(With(Index))
  BY DEF KeysOfSlots, LiveSum, SumOf
<1>3. With(A) \cap With(B) = {} /\ With(A) \cup With(B) \subseteq With(Index)
  OBVIOUS
<1> HIDE DEF With
<1>4. Cardinality(With(A) \cup With(B)) =
        Cardinality(With(A)) + Cardinality(With(B)) - Cardinality(With(A) \cap With(B))
  BY <1>1, FS_Union
<1>5. Cardinality(With(A) \cap With(B)) = 0
  BY <1>3, FS_EmptySet
<1>6. Cardinality(With(A) \cup With(B)) <= Cardinality(With(Index))
  BY <1>1, <1>3, FS_Subset
<1>7. /\ Cardinality(With(A)) \in Nat /\ Cardinality(With(B)) \in Nat
      /\ Cardinality(With(Index)) \in Nat
  BY <1>1, FS_CardinalityType
<1>8. QED
  BY <1>2, <1>4, <1>5, <1>6, <1>7

\* Whatever the bitmap and the expected generation say, the keys of the slots
\* whose bits count were signed with: the non-signers are subtracted from an APK
\* that holds every live key.
THEOREM CountedSigned == CertificateSpec => []CountedSignersSigned
<1>1. TypeOK /\ AggregateWithinOneOrphan => CountedSignersSigned
  <2> SUFFICES ASSUME TypeOK, AggregateWithinOneOrphan, Presented(DefaultGeneration), NEW k \in Keys
               PROVE  KeysOfSlots(WalkedSlots \cap certificate.bitmap)[k] <= certificate.apk[k]
    BY DEF CountedSignersSigned
  <2> DEFINE signed == WalkedSlots \cap certificate.bitmap
             others == WalkedSlots \ signed
  <2>1. certificate.apk = Minus(total_aggregated_g1_pubkey, KeysOfSlots(others))
    BY DEF Presented, DefaultGeneration, verify_certificate, SignersKey
  <2>2. certificate.apk[k] = total_aggregated_g1_pubkey[k] - KeysOfSlots(others)[k]
    BY <2>1 DEF Minus
  <2>3. signed \in SUBSET Index /\ others \in SUBSET Index /\ signed \cap others = {}
    BY DEF WalkedSlots, LiveSlots
  <2> HIDE DEF signed, others
  <2>4. /\ KeysOfSlots(signed)[k] \in Nat
        /\ KeysOfSlots(others)[k] \in Nat
        /\ LiveSum[k] \in Nat
        /\ KeysOfSlots(signed)[k] + KeysOfSlots(others)[k] <= LiveSum[k]
    BY <2>3, KeysOfDisjointSlots
  <2>5. total_aggregated_g1_pubkey[k] >= LiveSum[k]
    BY AggregateCoversLive
  <2>6. total_aggregated_g1_pubkey[k] \in Int
    BY DEF TypeOK, Point
  <2>7. KeysOfSlots(signed)[k] <= certificate.apk[k]
    BY <2>2, <2>4, <2>5, <2>6
  <2>8. QED
    BY <2>7 DEF signed
<1>2. CertificateSpec => [](TypeOK /\ AggregateWithinOneOrphan)
  BY CertificateImplementsOperatorSet, TypeCorrect, AggregateBounded, PTL
<1>3. QED
  BY <1>1, <1>2, PTL

(***************************************************************************)
(* The contributions of an operator                                        *)
(***************************************************************************)

\* There are finitely many contributions.
LEMMA ContributionsFinite ==
    ASSUME NEW s \in Seq(VaultContribution)
    PROVE  IsFiniteSet(DOMAIN s)
<1>1. DOMAIN s = 1 .. Len(s) /\ Len(s) \in Nat
  BY LenProperties
<1>2. QED
  BY <1>1, FS_Interval

\* The totals of any list of contributions are natural numbers, ...
LEMMA TotalsAreNat ==
    ASSUME NEW s \in Seq(VaultContribution)
    PROVE  SumWeights(s) \in Nat /\ SumNextWeights(s) \in Nat
<1>1. \A j \in DOMAIN s : s[j] \in VaultContribution
  BY LenProperties, ElementOfSeq
<1> DEFINE f == [j \in DOMAIN s |-> s[j].stake_weight]
           g == [j \in DOMAIN s |-> s[j].next_epoch_stake_weight]
<1>2. /\ DOMAIN f = DOMAIN s /\ DOMAIN g = DOMAIN s
      /\ \A j \in DOMAIN s : f[j] \in Nat /\ g[j] \in Nat
  BY <1>1 DEF VaultContribution
<1>3. IsFiniteSet(DOMAIN s)
  BY ContributionsFinite
<1>4. /\ SumWeights(s) = SumFunctionOnSet(f, DOMAIN s)
      /\ SumNextWeights(s) = SumFunctionOnSet(g, DOMAIN s)
  BY <1>2 DEF SumWeights, SumNextWeights, SumFunction
<1> HIDE DEF f, g
<1>5. QED
  BY <1>2, <1>3, <1>4, SumIsNat

\* Nothing adds up to nothing, ...
LEMMA NoContributions == SumWeights(<<>>) = 0 /\ SumNextWeights(<<>>) = 0
<1>1. DOMAIN <<>> = {}
  OBVIOUS
<1> DEFINE f == [j \in DOMAIN <<>> |-> <<>>[j].stake_weight]
           g == [j \in DOMAIN <<>> |-> <<>>[j].next_epoch_stake_weight]
<1>2. DOMAIN f = {} /\ DOMAIN g = {}
  BY <1>1
<1>3. SumFunctionOnSet(f, {}) = 0 /\ SumFunctionOnSet(g, {}) = 0
  BY SumOfNone
<1>4. QED
  BY <1>2, <1>3 DEF SumWeights, SumNextWeights, SumFunction

\* ... and one contribution to itself.
LEMMA OneContribution ==
    ASSUME NEW c \in VaultContribution
    PROVE  SumWeights(<<c>>) = c.stake_weight /\ SumNextWeights(<<c>>) = c.next_epoch_stake_weight
<1> DEFINE s == <<c>>
           f == [j \in DOMAIN s |-> s[j].stake_weight]
           g == [j \in DOMAIN s |-> s[j].next_epoch_stake_weight]
<1>1. DOMAIN s = {1} /\ s[1] = c
  OBVIOUS
<1>2. /\ DOMAIN f = {1} /\ DOMAIN g = {1}
      /\ f[1] = c.stake_weight /\ g[1] = c.next_epoch_stake_weight
      /\ f[1] \in Nat /\ g[1] \in Nat
  BY <1>1 DEF VaultContribution
<1>3. SumWeights(s) = SumFunctionOnSet(f, {1}) /\ SumNextWeights(s) = SumFunctionOnSet(g, {1})
  BY <1>2 DEF SumWeights, SumNextWeights, SumFunction
<1> HIDE DEF f, g
<1>4. QED
  BY <1>2, <1>3, SumOfOne

\* More stake has no less weight.
LEMMA WeightApplied ==
    ASSUME NEW v \in Vaults, NEW a \in Nat, NEW b \in Nat, a <= b
    PROVE  /\ ApplyWeight(v, a) \in Nat /\ ApplyWeight(v, b) \in Nat
           /\ ApplyWeight(v, a) <= ApplyWeight(v, b)
<1> DEFINE w == WEIGHT_BPS[v]
<1>1. w \in Nat
  BY StakeSnapshotAssumption
<1>2. a * w \in Nat /\ b * w \in Nat /\ a * w <= b * w
  BY <1>1
<1>3. FULL_WEIGHT_BPS \in Nat \ {0}
  BY DEF FULL_WEIGHT_BPS
<1>4. QED
  BY <1>2, <1>3, DivMonotone DEF ApplyWeight

\* A contribution is appended, when there is none of its vault, or replaces one of
\* its vault.
LEMMA UpsertIs ==
    ASSUME NEW s \in Seq(VaultContribution), NEW c \in VaultContribution
    PROVE  /\ Upsert(s, c) \in Seq(VaultContribution)
           /\ \/ /\ \A j \in DOMAIN s : s[j].vault # c.vault
                 /\ Upsert(s, c) = Append(s, c)
              \/ \E p \in DOMAIN s : s[p].vault = c.vault /\ Upsert(s, c) = [s EXCEPT ![p] = c]
<1> DEFINE I == {i \in 1 .. Len(s) : s[i].vault = c.vault}
<1>1. DOMAIN s = 1 .. Len(s) /\ Len(s) \in Nat
  BY LenProperties
<1>2. CASE I = {}
  <2>1. SelectInSeq(s, LAMBDA x : x.vault = c.vault) = 0
    BY <1>2 DEF SelectInSeq
  <2>2. Upsert(s, c) = Append(s, c)
    BY <2>1 DEF Upsert
  <2>3. Append(s, c) \in Seq(VaultContribution)
    BY AppendProperties
  <2>4. \A j \in DOMAIN s : s[j].vault # c.vault
    BY <1>1, <1>2
  <2>5. QED
    BY <2>2, <2>3, <2>4
<1>3. CASE I # {}
  <2>1. PICK p \in I : \A q \in I : p <= q
    <3>1. I \in SUBSET Nat
      OBVIOUS
    <3> HIDE DEF I
    <3>2. QED
      BY <1>3, <3>1, LeastNat
  <2>2. Min(I) \in I
    <3> HIDE DEF I
    <3>1. QED
      BY <2>1 DEF Min
  <2>3. SelectInSeq(s, LAMBDA x : x.vault = c.vault) = Min(I)
    BY <1>3 DEF SelectInSeq
  <2> PICK m \in I : m = Min(I)
    BY <2>2
  <2>4. m \in 1 .. Len(s) /\ m # 0 /\ s[m].vault = c.vault
    BY <1>1
  <2>5. Upsert(s, c) = [s EXCEPT ![m] = c]
    BY <2>3, <2>4 DEF Upsert, ReplaceAt
  <2>6. [s EXCEPT ![m] = c] \in Seq(VaultContribution)
    BY <2>4, ExceptSeq
  <2>7. QED
    BY <1>1, <2>4, <2>5, <2>6
<1>4. QED
  BY <1>2, <1>3

(***************************************************************************)
(* Types of the vaults and the stake                                       *)
(***************************************************************************)

\* What is delegated to an operator through a vault never exceeds the bound, so
\* neither does any of its three parts.
DelegationsBounded ==
    \A vo \in Vaults \X Operators : TotalSecurity(delegation[vo]) <= MAX_DELEGATION

\* The types of all but the stake, with the bound of the delegations.
VaultsTypeOK ==
    /\ slot \in 0 .. MAX_SLOT
    /\ last_snapshot_slot \in 0 .. MAX_SLOT
    /\ delegation \in [Vaults \X Operators -> DelegationState]
    /\ vault_epoch \in [Vaults -> Nat]
    /\ vault_connected \in SUBSET Vaults
    /\ connection \in [Operators -> Connection]
    /\ DelegationsBounded

\* Epochs are natural numbers.
LEMMA EpochIsNat == ASSUME NEW s \in Nat PROVE get_epoch(s) \in Nat
  BY DivMonotone, StakeSnapshotAssumption DEF get_epoch

\* One delegation changes within its bound.
LEMMA DelegationChanges ==
    ASSUME NEW vo \in Vaults \X Operators, NEW d \in DelegationState,
           delegation \in [Vaults \X Operators -> DelegationState], DelegationsBounded,
           TotalSecurity(d) <= MAX_DELEGATION,
           delegation' = [delegation EXCEPT ![vo] = d]
    PROVE  delegation' \in [Vaults \X Operators -> DelegationState] /\ DelegationsBounded'
BY DEF DelegationsBounded

\* What is cooled down stays within the bound.
LEMMA CooledDown ==
    ASSUME NEW d \in DelegationState, d.staked > 0, TotalSecurity(d) <= MAX_DELEGATION
    PROVE  LET e == [d EXCEPT !.staked = @ - 1, !.enqueued = @ + 1]
           IN  e \in DelegationState /\ TotalSecurity(e) <= MAX_DELEGATION
<1> DEFINE x == d.staked - 1
           y == d.enqueued + 1
           e == [d EXCEPT !.staked = x, !.enqueued = y]
<1>1. /\ x \in 0 .. MAX_DELEGATION /\ y \in 0 .. MAX_DELEGATION
      /\ x + y + d.cooling_down <= MAX_DELEGATION
  BY StakeSnapshotAssumption DEF DelegationState, TotalSecurity
<1>2. /\ e \in DelegationState
      /\ e.staked = x /\ e.enqueued = y /\ e.cooling_down = d.cooling_down
  <2>1. x \in 0 .. MAX_DELEGATION /\ y \in 0 .. MAX_DELEGATION
    BY <1>1
  <2> HIDE DEF x, y
  <2>2. QED
    BY <2>1 DEF DelegationState
<1>3. TotalSecurity(e) <= MAX_DELEGATION
  <2> HIDE DEF x, y, e
  <2>1. QED
    BY <1>1, <1>2 DEF TotalSecurity
<1>4. QED
  BY <1>2, <1>3

\* No step leaves the types of the vaults' part.
LEMMA VaultsStep ==
    ASSUME VaultsTypeOK, [StakeNext]_stakeVars
    PROVE  VaultsTypeOK'
<1> USE StakeSnapshotAssumption DEF VaultsTypeOK
<1>1. CASE Tick
  BY <1>1 DEF Tick, vaultVars, snapshotVars, DelegationsBounded
<1>2. ASSUME NEW v \in Vaults, ChangeVaultConnection(v)
      PROVE  VaultsTypeOK'
  BY <1>2 DEF ChangeVaultConnection, snapshotVars, SymDiff, DelegationsBounded
<1>3. ASSUME NEW v \in Vaults, UpdateVault(v)
      PROVE  VaultsTypeOK'
  <2> DEFINE missed == get_epoch(slot) - vault_epoch[v] > 1
             Rolled(d) == [staked |-> d.staked, enqueued |-> 0,
                           cooling_down |-> IF missed THEN 0 ELSE d.enqueued]
  <2>1. /\ delegation' = [vo \in Vaults \X Operators |->
                            IF vo[1] = v THEN Rolled(delegation[vo]) ELSE delegation[vo]]
        /\ vault_epoch' = [vault_epoch EXCEPT ![v] = get_epoch(slot)]
        /\ UNCHANGED <<slot, last_snapshot_slot, vault_connected, connection>>
    BY <1>3 DEF UpdateVault, snapshotVars
  <2>2. get_epoch(slot) \in Nat
    BY EpochIsNat
  <2>3. \A d \in DelegationState : TotalSecurity(d) <= MAX_DELEGATION =>
          Rolled(d) \in DelegationState /\ TotalSecurity(Rolled(d)) <= MAX_DELEGATION
    BY DEF DelegationState, TotalSecurity
  <2> HIDE DEF Rolled
  <2>4. \A vo \in Vaults \X Operators :
          delegation'[vo] \in DelegationState /\ TotalSecurity(delegation'[vo]) <= MAX_DELEGATION
    BY <2>1, <2>3 DEF DelegationsBounded
  <2>5. QED
    BY <2>1, <2>2, <2>4 DEF DelegationsBounded
<1>4. ASSUME NEW o \in Operators, OptIn(o) \/ ChangeConnection(o)
      PROVE  VaultsTypeOK'
  <2>1. UNCHANGED <<slot, snapshotVars, vaultVars>>
    BY <1>4 DEF OptIn, ChangeConnection
  <2>2. connection' \in [Operators -> Connection]
    BY <1>4 DEF OptIn, ChangeConnection, NextConnection, Connection, MayRegister, MayCount
  <2>3. QED
    BY <2>1, <2>2 DEF vaultVars, snapshotVars, DelegationsBounded
<1>5. ASSUME NEW o \in Operators,
             \/ ProcessRemoveOperator(o)
             \/ \E key \in Keys : \/ ProcessRegisterOperator(o, key)
                                  \/ ProcessUpdateOperatorBN128Keys(o, key)
      PROVE  VaultsTypeOK'
  BY <1>5 DEF ProcessRemoveOperator, ProcessRegisterOperator, ProcessUpdateOperatorBN128Keys,
              vaultVars, snapshotVars, DelegationsBounded
<1>6. ASSUME NEW v \in Vaults, NEW o \in Operators, AddDelegation(v, o) \/ CooldownDelegation(v, o)
      PROVE  VaultsTypeOK'
  <2>1. UNCHANGED <<slot, snapshotVars, vault_epoch, vault_connected, connection>>
    BY <1>6 DEF AddDelegation, CooldownDelegation
  <2> DEFINE d == delegation[<<v, o>>]
  <2>2. d \in DelegationState /\ TotalSecurity(d) <= MAX_DELEGATION
    BY DEF DelegationsBounded
  <2>3. \E e \in DelegationState :
          TotalSecurity(e) <= MAX_DELEGATION /\ delegation' = [delegation EXCEPT ![<<v, o>>] = e]
    <3>1. CASE AddDelegation(v, o)
      <4> DEFINE e == [d EXCEPT !.staked = @ + 1]
      <4>1. TotalSecurity(d) < MAX_DELEGATION /\ delegation' = [delegation EXCEPT ![<<v, o>>] = e]
        BY <3>1 DEF AddDelegation
      <4>2. e \in DelegationState /\ TotalSecurity(e) <= MAX_DELEGATION
        <5> HIDE DEF d
        <5>1. QED
          BY <2>2, <4>1 DEF DelegationState, TotalSecurity
      <4>3. QED
        BY <4>1, <4>2
    <3>2. CASE CooldownDelegation(v, o)
      <4> DEFINE e == [d EXCEPT !.staked = @ - 1, !.enqueued = @ + 1]
      <4>1. d.staked > 0 /\ delegation' = [delegation EXCEPT ![<<v, o>>] = e]
        BY <3>2 DEF CooldownDelegation
      <4>2. e \in DelegationState /\ TotalSecurity(e) <= MAX_DELEGATION
        BY <2>2, <4>1, CooledDown
      <4>3. QED
        BY <4>1, <4>2
    <3>3. QED
      BY <1>6, <3>1, <3>2
  <2>4. delegation' \in [Vaults \X Operators -> DelegationState] /\ DelegationsBounded'
    BY <2>3, DelegationChanges
  <2>5. QED
    BY <2>1, <2>4 DEF snapshotVars
<1>7. ASSUME NEW v \in Vaults, NEW o \in Operators, SnapshotVaultOperatorDelegation(v, o)
      PROVE  VaultsTypeOK'
  BY <1>7 DEF SnapshotVaultOperatorDelegation, vaultVars, DelegationsBounded
<1>8. CASE UNCHANGED stakeVars
  BY <1>8 DEF stakeVars, vaultVars, snapshotVars, DelegationsBounded
<1>9. QED
  BY <1>1, <1>2, <1>3, <1>4, <1>5, <1>6, <1>7, <1>8 DEF StakeNext

\* What a crank writes is a stake record, ...
LEMMA SnapshotStakeIs ==
    ASSUME VaultsTypeOK, NEW s \in Seq(VaultContribution)
    PROVE  SnapshotStake(s) \in OperatorStake
<1>1. SumWeights(s) \in Nat /\ SumNextWeights(s) \in Nat
  BY TotalsAreNat
<1>2. slot \in Nat
  BY StakeSnapshotAssumption DEF VaultsTypeOK
<1>3. QED
  BY <1>1, <1>2 DEF SnapshotStake, OperatorStake

\* ... and so is what a registration or a removal leaves.
LEMMA FreshStakeIs == FreshStake \in OperatorStake
  BY DEF FreshStake, OperatorStake

\* The stake at every index is a stake record.
StakesTypeOK == stake \in [Index -> OperatorStake]

\* What a crank of v writes for an operator with the delegation d: no more than
\* what is delegated, and nothing of what cools down for the next epoch.
IsContribution(c, v, d) ==
    /\ c \in VaultContribution
    /\ c.vault = v
    /\ c.stake_weight <= ApplyWeight(v, TotalSecurity(d))
    /\ c.next_epoch_stake_weight <= ApplyWeight(v, d.staked + d.enqueued)

\* A crank replaces the contribution of an updated vault in one slot of the
\* operator, by one that is within what is delegated.
LEMMA CrankIs ==
    ASSUME VaultsTypeOK, NEW v \in Vaults, NEW o \in Operators,
           SnapshotVaultOperatorDelegation(v, o)
    PROVE  /\ VaultUpdated(v)
           /\ \E i \in SlotsOf(o), c \in VaultContribution :
                /\ IsContribution(c, v, delegation[<<v, o>>])
                /\ stake' = [stake EXCEPT ![i] =
                               SnapshotStake(Upsert(stake[i].vault_contributions, c))]
<1> DEFINE d == delegation[<<v, o>>]
           counted == connection[o] \in MayCount /\ v \in vault_connected
           raw == IF counted THEN calculate_stake_weights(d) ELSE <<0, 0>>
           c == [vault |-> v, stake_weight |-> ApplyWeight(v, raw[1]),
                 next_epoch_stake_weight |-> ApplyWeight(v, raw[2])]
<1>1. /\ d.staked \in Nat /\ d.enqueued \in Nat /\ d.cooling_down \in Nat
  BY DEF VaultsTypeOK, DelegationState
<1>2. /\ raw[1] \in Nat /\ raw[2] \in Nat
      /\ TotalSecurity(d) \in Nat /\ d.staked + d.enqueued \in Nat
      /\ raw[1] <= TotalSecurity(d) /\ raw[2] <= d.staked + d.enqueued
  <2> HIDE DEF d, counted
  <2>1. CASE counted
    BY <1>1, <2>1 DEF calculate_stake_weights, TotalSecurity
  <2>2. CASE ~counted
    BY <1>1, <2>2 DEF TotalSecurity
  <2>3. QED
    BY <2>1, <2>2
<1>3. IsContribution(c, v, d)
  <2>1. /\ ApplyWeight(v, raw[1]) \in Nat
        /\ ApplyWeight(v, raw[1]) <= ApplyWeight(v, TotalSecurity(d))
    <3> HIDE DEF raw, d
    <3>1. QED
      BY <1>2, WeightApplied
  <2>2. /\ ApplyWeight(v, raw[2]) \in Nat
        /\ ApplyWeight(v, raw[2]) <= ApplyWeight(v, d.staked + d.enqueued)
    <3> HIDE DEF raw
    <3> DEFINE b == d.staked + d.enqueued
    <3>0. b \in Nat /\ raw[2] <= b
      BY <1>2
    <3> HIDE DEF b
    <3>2. ApplyWeight(v, raw[2]) \in Nat /\ ApplyWeight(v, raw[2]) <= ApplyWeight(v, b)
      BY <1>2, <3>0, WeightApplied
    <3>1. QED
      BY <3>2 DEF b
  <2> HIDE DEF raw, d
  <2>3. QED
    BY <2>1, <2>2 DEF IsContribution, VaultContribution
<1>4. c \in VaultContribution
  BY <1>3 DEF IsContribution
<1>5. /\ VaultUpdated(v)
      /\ \E i \in SlotsOf(o) :
           stake' = [stake EXCEPT ![i] = SnapshotStake(Upsert(stake[i].vault_contributions, c))]
  BY DEF SnapshotVaultOperatorDelegation
<1> HIDE DEF c
<1>6. QED
  BY <1>3, <1>4, <1>5

\* The tenant of an index is the same after the step.
SameOperator(i) == operator_snapshots'[i].operator = operator_snapshots[i].operator

\* What a step may do to the stake: nothing, start some indices afresh, or a crank.
LEMMA StakeEffect ==
    ASSUME TypeOK, VaultsTypeOK, StakesTypeOK, [StakeNext]_stakeVars
    PROVE  \/ stake' = stake /\ \A i \in Index : SameOperator(i)
           \/ \E S \in SUBSET Index :
                /\ stake' = [i \in Index |-> IF i \in S THEN FreshStake ELSE stake[i]]
                /\ \A i \in Index \ S : SameOperator(i)
           \/ \E v \in Vaults, o \in Operators :
                /\ SnapshotVaultOperatorDelegation(v, o)
                /\ operator_snapshots' = operator_snapshots
<1> DEFINE Nothing == stake' = stake /\ \A i \in Index : SameOperator(i)
           Afresh == \E S \in SUBSET Index :
                       /\ stake' = [i \in Index |-> IF i \in S THEN FreshStake ELSE stake[i]]
                       /\ \A i \in Index \ S : SameOperator(i)
           Crank == \E v \in Vaults, o \in Operators :
                      /\ SnapshotVaultOperatorDelegation(v, o)
                      /\ operator_snapshots' = operator_snapshots
<1>1. CASE Tick
  BY <1>1 DEF Tick, snapshotVars, vars, slotVars, SameOperator
<1>2. ASSUME NEW v \in Vaults, ChangeVaultConnection(v) \/ UpdateVault(v)
      PROVE  Nothing
  BY <1>2 DEF ChangeVaultConnection, UpdateVault, snapshotVars, vars, slotVars, SameOperator
<1>3. ASSUME NEW o \in Operators, OptIn(o) \/ ChangeConnection(o)
      PROVE  Nothing
  BY <1>3 DEF OptIn, ChangeConnection, InitializeNcnOperatorState, snapshotVars, vars, slotVars,
              SameOperator
<1>4. ASSUME NEW o \in Operators, ProcessRemoveOperator(o)
      PROVE  Afresh
  <2>1. /\ stake' = [i \in Index |-> IF i \in SlotsOf(o) THEN FreshStake ELSE stake[i]]
        /\ \E i \in SlotsOf(o) : operator_snapshots' = [operator_snapshots EXCEPT ![i] = EmptySlot]
    BY <1>4 DEF ProcessRemoveOperator, RemoveOperator
  <2>2. \A i \in Index \ SlotsOf(o) : SameOperator(i)
    BY <2>1 DEF TypeOK, SameOperator
  <2>3. SlotsOf(o) \in SUBSET Index
    BY DEF SlotsOf
  <2>4. QED
    BY <2>1, <2>2, <2>3
<1>5. ASSUME NEW o \in Operators, NEW key \in Keys, ProcessRegisterOperator(o, key)
      PROVE  Afresh
  <2> DEFINE n == ncn_operator_index[o]
  <2>1. /\ n # None /\ n < MAX_OPERATORS
        /\ stake' = [stake EXCEPT ![n] = FreshStake]
        /\ operator_snapshots' =
             [operator_snapshots EXCEPT ![n] = [operator |-> o, g1_pubkey |-> key]]
    BY <1>5 DEF ProcessRegisterOperator, RegisterOperator
  <2>2. n \in Index
    BY <2>1, OperatorSetAssumption DEF TypeOK, Index
  <2>3. \A i \in Index \ {n} : SameOperator(i)
    BY <2>1 DEF TypeOK, SameOperator
  <2>4. stake' = [i \in Index |-> IF i \in {n} THEN FreshStake ELSE stake[i]]
    BY <2>1 DEF StakesTypeOK
  <2>5. QED
    BY <2>2, <2>3, <2>4
<1>6. ASSUME NEW o \in Operators, NEW key \in Keys, ProcessUpdateOperatorBN128Keys(o, key)
      PROVE  Nothing
  BY <1>6 DEF ProcessUpdateOperatorBN128Keys, UpdateOperatorBN128Keys, ReplaceAggregate, SwapKey,
              SwapNothing, SlotsOf, TypeOK, snapshotVars, SameOperator
<1>7. ASSUME NEW v \in Vaults, NEW o \in Operators, AddDelegation(v, o) \/ CooldownDelegation(v, o)
      PROVE  Nothing
  BY <1>7 DEF AddDelegation, CooldownDelegation, snapshotVars, vars, slotVars, SameOperator
<1>8. ASSUME NEW v \in Vaults, NEW o \in Operators, SnapshotVaultOperatorDelegation(v, o)
      PROVE  Crank
  BY <1>8 DEF SnapshotVaultOperatorDelegation, vars, slotVars
<1>9. CASE UNCHANGED stakeVars
  BY <1>9 DEF stakeVars, snapshotVars, vars, slotVars, SameOperator
<1> HIDE DEF Nothing, Afresh, Crank
<1>10. CASE StakeNext
  BY <1>1, <1>2, <1>3, <1>4, <1>5, <1>6, <1>7, <1>8, <1>10, StakeSnapshotAssumption
     DEF StakeNext, Nothing, Afresh, Crank
<1>11. QED
  BY <1>9, <1>10

\* No step leaves the type of the stake.
LEMMA StakesStep ==
    ASSUME TypeOK, VaultsTypeOK, StakesTypeOK, [StakeNext]_stakeVars
    PROVE  StakesTypeOK'
<1>1. CASE stake' = stake
  BY <1>1 DEF StakesTypeOK
<1>2. ASSUME NEW S \in SUBSET Index,
             stake' = [i \in Index |-> IF i \in S THEN FreshStake ELSE stake[i]]
      PROVE  StakesTypeOK'
  BY <1>2, FreshStakeIs DEF StakesTypeOK
<1>3. ASSUME NEW v \in Vaults, NEW o \in Operators, SnapshotVaultOperatorDelegation(v, o)
      PROVE  StakesTypeOK'
  <2>1. PICK i \in SlotsOf(o), c \in VaultContribution :
          stake' = [stake EXCEPT ![i] = SnapshotStake(Upsert(stake[i].vault_contributions, c))]
    BY <1>3, CrankIs
  <2>2. i \in Index /\ stake[i].vault_contributions \in Seq(VaultContribution)
    BY DEF SlotsOf, StakesTypeOK, OperatorStake
  <2>3. Upsert(stake[i].vault_contributions, c) \in Seq(VaultContribution)
    BY <2>2, UpsertIs
  <2>4. SnapshotStake(Upsert(stake[i].vault_contributions, c)) \in OperatorStake
    BY <2>3, SnapshotStakeIs
  <2>5. QED
    BY <2>1, <2>2, <2>4 DEF StakesTypeOK
<1>4. QED
  BY <1>1, <1>2, <1>3, StakeEffect

\* The types, strengthened by the bound of the delegations: StakeTypeOK alone is
\* not inductive, as a cooldown adds to a part that must still have room.
StakeInv == VaultsTypeOK /\ StakesTypeOK

\* The invariant of types holds initially, ...
LEMMA StakeInvInit == StakeInit => StakeInv
<1> SUFFICES ASSUME StakeInit PROVE StakeInv
  OBVIOUS
<1>1. StakesTypeOK
  BY FreshStakeIs DEF StakeInit, StakesTypeOK
<1>2. /\ slot \in 0 .. MAX_SLOT /\ last_snapshot_slot \in 0 .. MAX_SLOT
      /\ vault_epoch \in [Vaults -> Nat] /\ vault_connected \in SUBSET Vaults
      /\ connection \in [Operators -> Connection]
  BY StakeSnapshotAssumption DEF StakeInit, Connection, MayRegister, MayCount
<1>3. delegation \in [Vaults \X Operators -> DelegationState] /\ DelegationsBounded
  BY StakeSnapshotAssumption DEF StakeInit, DelegationState, DelegationsBounded, TotalSecurity
<1>4. QED
  BY <1>1, <1>2, <1>3 DEF StakeInv, VaultsTypeOK

\* ... and always.
LEMMA StakeInvariant == StakeSpec => []StakeInv
<1>1. TypeOK /\ StakeInv /\ [StakeNext]_stakeVars => StakeInv'
  BY VaultsStep, StakesStep DEF StakeInv
<1>2. QED
  BY <1>1, StakeInvInit, StakeImplementsOperatorSet, TypeCorrect, PTL DEF StakeSpec

\* The stake, the delegations and the clock stay in their types.
THEOREM StakeTypeCorrect == StakeSpec => []StakeTypeOK
<1>1. StakeInv => StakeTypeOK
  BY DEF StakeInv, VaultsTypeOK, StakesTypeOK, StakeTypeOK
<1>2. QED
  BY <1>1, StakeInvariant, PTL

(***************************************************************************)
(* Totals                                                                  *)
(***************************************************************************)

\* TotalsMatchContributions at one index.
Adds(s) ==
    LET c == s.vault_contributions
    IN  /\ s.stake_weight = SumWeights(c)
        /\ s.next_epoch_stake_weight = SumNextWeights(c)
        /\ \A j, k \in DOMAIN c : c[j].vault = c[k].vault => j = k
        /\ c # <<>> => /\ s.has_minimum_stake <=> s.stake_weight >= MINIMUM_STAKE
                       /\ s.has_minimum_stake_next_epoch <=>
                            s.next_epoch_stake_weight >= MINIMUM_STAKE

\* A fresh slot adds up.
LEMMA FreshAdds == Adds(FreshStake)
<1>1. /\ FreshStake.vault_contributions = <<>>
      /\ FreshStake.stake_weight = 0 /\ FreshStake.next_epoch_stake_weight = 0
  BY DEF FreshStake
<1>2. DOMAIN <<>> = {}
  OBVIOUS
<1>3. QED
  BY <1>1, <1>2, NoContributions DEF Adds

\* No vault has two contributions after a crank if none had before.
LEMMA UpsertDistinct ==
    ASSUME NEW s \in Seq(VaultContribution), NEW c \in VaultContribution,
           \A j, k \in DOMAIN s : s[j].vault = s[k].vault => j = k
    PROVE  LET t == Upsert(s, c)
           IN  \A j, k \in DOMAIN t : t[j].vault = t[k].vault => j = k
<1> DEFINE t == Upsert(s, c)
<1>0. DOMAIN s = 1 .. Len(s) /\ Len(s) \in Nat
  BY LenProperties
<1>1. CASE /\ \A j \in DOMAIN s : s[j].vault # c.vault
           /\ t = Append(s, c)
  <2>1. /\ DOMAIN t = 1 .. Len(s) + 1
        /\ \A j \in 1 .. Len(s) : t[j] = s[j]
        /\ t[Len(s) + 1] = c
    BY <1>0, <1>1, AppendProperties
  <2> HIDE DEF t
  <2>2. \A j \in 1 .. Len(s) + 1 : j \in 1 .. Len(s) \/ j = Len(s) + 1
    BY <1>0
  <2>3. \A j, k \in DOMAIN t : t[j].vault = t[k].vault => j = k
    BY <1>0, <1>1, <2>1, <2>2
  <2>4. QED
    BY <2>3 DEF t
<1>2. ASSUME NEW p \in DOMAIN s, s[p].vault = c.vault, t = [s EXCEPT ![p] = c]
      PROVE  \A j, k \in DOMAIN t : t[j].vault = t[k].vault => j = k
  <2>1. DOMAIN t = DOMAIN s /\ t[p] = c /\ \A j \in DOMAIN s : j # p => t[j] = s[j]
    BY <1>2
  <2> HIDE DEF t
  <2>2. \A j \in DOMAIN s : t[j].vault = s[j].vault
    BY <1>2, <2>1
  <2>3. QED
    BY <2>1, <2>2
<1>3. QED
  <2> HIDE DEF t
  <2>1. \/ /\ \A j \in DOMAIN s : s[j].vault # c.vault
           /\ t = Append(s, c)
        \/ \E p \in DOMAIN s : s[p].vault = c.vault /\ t = [s EXCEPT ![p] = c]
    BY UpsertIs DEF t
  <2>2. \A j, k \in DOMAIN t : t[j].vault = t[k].vault => j = k
    BY <1>1, <1>2, <2>1
  <2>3. QED
    BY <2>2 DEF t

\* TotalsMatchContributions, index by index.
LEMMA TotalsSplit ==
    TotalsMatchContributions <=>
       \A i \in Index : Adds(stake[i]) /\ (i \notin LiveSlots => stake[i] = FreshStake)
BY DEF TotalsMatchContributions, Adds

\* No step makes totals and contributions drift apart.
LEMMA TotalsStep ==
    ASSUME TypeOK, StakeInv, TotalsMatchContributions, [StakeNext]_stakeVars
    PROVE  TotalsMatchContributions'
<1>0. \A i \in Index : Adds(stake[i]) /\ (i \notin LiveSlots => stake[i] = FreshStake)
  BY TotalsSplit
<1>1. SUFFICES \A i \in Index : Adds(stake'[i]) /\ (i \notin LiveSlots' => stake'[i] = FreshStake)
  BY TotalsSplit DEF TotalsMatchContributions, Adds
<1> USE DEF StakeInv
<1>2. \A i \in Index : SameOperator(i) => (i \in LiveSlots' <=> i \in LiveSlots)
  BY DEF SameOperator, LiveSlots
<1>3. CASE stake' = stake /\ \A i \in Index : SameOperator(i)
  BY <1>0, <1>2, <1>3
<1>4. ASSUME NEW S \in SUBSET Index,
             stake' = [i \in Index |-> IF i \in S THEN FreshStake ELSE stake[i]],
             \A i \in Index \ S : SameOperator(i)
      PROVE  \A i \in Index : Adds(stake'[i]) /\ (i \notin LiveSlots' => stake'[i] = FreshStake)
  BY <1>0, <1>2, <1>4, FreshAdds
<1>5. ASSUME NEW v \in Vaults, NEW o \in Operators, SnapshotVaultOperatorDelegation(v, o),
             operator_snapshots' = operator_snapshots
      PROVE  \A i \in Index : Adds(stake'[i]) /\ (i \notin LiveSlots' => stake'[i] = FreshStake)
  <2>1. PICK n \in SlotsOf(o), c \in VaultContribution :
          stake' = [stake EXCEPT ![n] = SnapshotStake(Upsert(stake[n].vault_contributions, c))]
    BY <1>5, CrankIs
  <2> DEFINE s == stake[n].vault_contributions
             t == Upsert(s, c)
  <2>2. n \in Index /\ s \in Seq(VaultContribution)
    BY DEF SlotsOf, StakesTypeOK, OperatorStake
  <2>3. n \in LiveSlots /\ LiveSlots' = LiveSlots
    BY <1>5, OperatorSetAssumption DEF SlotsOf, LiveSlots
  <2>4. \A j, k \in DOMAIN t : t[j].vault = t[k].vault => j = k
    <3>1. \A j, k \in DOMAIN s : s[j].vault = s[k].vault => j = k
      BY <1>0, <2>2 DEF Adds
    <3> HIDE DEF s
    <3>2. QED
      BY <2>2, <3>1, UpsertDistinct
  <2>5. Adds(SnapshotStake(t))
    <3> HIDE DEF t
    <3>1. QED
      BY <2>4 DEF SnapshotStake, Adds
  <2>6. stake'[n] = SnapshotStake(t) /\ \A i \in Index \ {n} : stake'[i] = stake[i]
    BY <2>1, <2>2 DEF StakesTypeOK
  <2> HIDE DEF t
  <2>7. QED
    BY <1>0, <2>3, <2>5, <2>6
<1>6. QED
  BY <1>3, <1>4, <1>5, StakeEffect

\* However often and in whatever order vaults are cranked, removed operators'
\* slots emptied and indices registered, the totals of a slot are those of its
\* contributions, one for each vault (snapshot_vault_operator_delegation).
THEOREM TotalsAreContributions == StakeSpec => []TotalsMatchContributions
<1>1. StakeInit => TotalsMatchContributions
  <2> SUFFICES ASSUME StakeInit PROVE \A i \in Index : stake[i] = FreshStake
    BY FreshAdds, TotalsSplit
  <2>1. QED
    BY DEF StakeInit
<1>2. TypeOK /\ StakeInv /\ TotalsMatchContributions /\ [StakeNext]_stakeVars
      => TotalsMatchContributions'
  BY TotalsStep
<1>3. QED
  BY <1>1, <1>2, StakeInvariant, StakeImplementsOperatorSet, TypeCorrect, PTL DEF StakeSpec

(***************************************************************************)
(* Backed stake                                                            *)
(***************************************************************************)

\* BackedStake for one vault.
LEMMA BackedByOne ==
    ASSUME NEW v, Vaults = {v}, VaultsTypeOK, NEW o \in Operators
    PROVE  BackedStake(o) = ApplyWeight(v, TotalSecurity(delegation[<<v, o>>]))
<1> DEFINE f == [u \in Vaults |-> ApplyWeight(u, TotalSecurity(delegation[<<u, o>>]))]
<1>1. DOMAIN f = {v} /\ f[v] = ApplyWeight(v, TotalSecurity(delegation[<<v, o>>]))
  OBVIOUS
<1>2. TotalSecurity(delegation[<<v, o>>]) \in Nat
  BY DEF VaultsTypeOK, DelegationState, TotalSecurity
<1>3. f[v] \in Nat
  BY <1>1, <1>2, WeightApplied
<1>4. BackedStake(o) = SumFunctionOnSet(f, {v})
  BY <1>1 DEF BackedStake, SumFunction
<1> HIDE DEF f
<1>5. QED
  BY <1>1, <1>3, <1>4, SumOfOne

\* Strengthening of CountedStakeIsBacked, for a stake record s, the delegation d
\* it was taken from and the epoch e of the vault's last update: an update cannot
\* be older than the crank, and until the next one the stake is all there; after
\* the next one, what the record promised for the next epoch is.
Backed(v, s, d, e) ==
    LET taken == get_epoch(s.last_snapshot_slot)
    IN  /\ taken <= e
        /\ e = taken => /\ s.stake_weight <= ApplyWeight(v, TotalSecurity(d))
                        /\ s.next_epoch_stake_weight <= ApplyWeight(v, d.staked + d.enqueued)
        /\ e = taken + 1 => s.next_epoch_stake_weight <= ApplyWeight(v, TotalSecurity(d))

BackedInv(v) ==
    /\ vault_epoch[v] <= get_epoch(slot)
    /\ \A i \in LiveSlots :
         Backed(v, stake[i], delegation[<<v, operator_snapshots[i].operator>>], vault_epoch[v])

\* A later slot is in no earlier epoch.
LEMMA EpochMonotone ==
    ASSUME NEW a \in Nat, NEW b \in Nat, a <= b
    PROVE  get_epoch(a) \in Nat /\ get_epoch(b) \in Nat /\ get_epoch(a) <= get_epoch(b)
BY DivMonotone, StakeSnapshotAssumption DEF get_epoch

\* The weights of a delegation, in this epoch and in the next.
LEMMA WeightsOf ==
    ASSUME NEW v \in Vaults, NEW d \in DelegationState
    PROVE  /\ TotalSecurity(d) \in Nat /\ d.staked + d.enqueued \in Nat
           /\ ApplyWeight(v, TotalSecurity(d)) \in Nat
           /\ ApplyWeight(v, d.staked + d.enqueued) \in Nat
           /\ ApplyWeight(v, d.staked + d.enqueued) <= ApplyWeight(v, TotalSecurity(d))
<1> DEFINE a == d.staked + d.enqueued
           b == TotalSecurity(d)
<1>1. a \in Nat /\ b \in Nat /\ a <= b
  BY DEF DelegationState, TotalSecurity
<1> HIDE DEF a, b
<1>2. /\ ApplyWeight(v, a) \in Nat /\ ApplyWeight(v, b) \in Nat
      /\ ApplyWeight(v, a) <= ApplyWeight(v, b)
  BY <1>1, WeightApplied
<1>3. QED
  BY <1>1, <1>2 DEF a, b

\* A fresh slot counts for nothing.
LEMMA FreshIsBacked ==
    ASSUME NEW v \in Vaults, NEW d \in DelegationState, NEW e \in Nat
    PROVE  Backed(v, FreshStake, d, e)
<1>1. get_epoch(0) = 0
  BY StakeSnapshotAssumption DEF get_epoch
<1>2. FreshStake.last_snapshot_slot = 0 /\ FreshStake.stake_weight = 0
      /\ FreshStake.next_epoch_stake_weight = 0
  BY DEF FreshStake
<1>3. QED
  BY <1>1, <1>2, WeightsOf DEF Backed

\* A delegation that grows keeps a record backed, and so does cooling down.
LEMMA GrowsBacked ==
    ASSUME NEW v \in Vaults, NEW s \in OperatorStake, NEW e \in Nat,
           NEW d \in DelegationState, NEW f \in DelegationState,
           TotalSecurity(d) <= TotalSecurity(f),
           d.staked + d.enqueued <= f.staked + f.enqueued,
           Backed(v, s, d, e)
    PROVE  Backed(v, s, f, e)
<1> DEFINE a == d.staked + d.enqueued
           b == f.staked + f.enqueued
<1>1. /\ TotalSecurity(d) \in Nat /\ TotalSecurity(f) \in Nat /\ a \in Nat /\ b \in Nat
  BY WeightsOf
<1>2. a <= b
  OBVIOUS
<1>3. s.stake_weight \in Nat /\ s.next_epoch_stake_weight \in Nat /\ s.last_snapshot_slot \in Nat
  BY DEF OperatorStake
<1> HIDE DEF a, b
<1>4. /\ ApplyWeight(v, a) \in Nat /\ ApplyWeight(v, b) \in Nat
      /\ ApplyWeight(v, a) <= ApplyWeight(v, b)
  BY <1>1, <1>2, WeightApplied
<1>5. /\ ApplyWeight(v, TotalSecurity(d)) \in Nat /\ ApplyWeight(v, TotalSecurity(f)) \in Nat
      /\ ApplyWeight(v, TotalSecurity(d)) <= ApplyWeight(v, TotalSecurity(f))
  BY <1>1, WeightApplied
<1>6. QED
  BY <1>3, <1>4, <1>5 DEF Backed, a, b

\* The next update of the vault, one epoch later or more.
LEMMA RollsBacked ==
    ASSUME NEW v \in Vaults, NEW s \in OperatorStake, NEW e \in Nat, NEW now \in Nat, e < now,
           NEW d \in DelegationState, NEW f \in DelegationState,
           now = e + 1 => TotalSecurity(f) = d.staked + d.enqueued,
           Backed(v, s, d, e)
    PROVE  Backed(v, s, f, now)
<1>1. get_epoch(s.last_snapshot_slot) \in Nat
  BY EpochIsNat DEF OperatorStake
<1>2. QED
  BY <1>1 DEF Backed

\* With one vault a crank leaves one contribution, and it is backed.
LEMMA CrankIsBacked ==
    ASSUME NEW v, Vaults = {v}, StakeInv,
           NEW s \in Seq(VaultContribution), NEW c \in VaultContribution,
           \A j, k \in DOMAIN s : s[j].vault = s[k].vault => j = k,
           NEW d \in DelegationState, IsContribution(c, v, d)
    PROVE  Backed(v, SnapshotStake(Upsert(s, c)), d, get_epoch(slot))
<1> DEFINE t == Upsert(s, c)
<1>0. DOMAIN s = 1 .. Len(s) /\ Len(s) \in Nat
  BY LenProperties
<1>1. \A j \in DOMAIN s : s[j] \in VaultContribution /\ s[j].vault = v
  <2>1. \A j \in DOMAIN s : s[j] \in VaultContribution
    BY <1>0, ElementOfSeq
  <2>2. \A x \in VaultContribution : x.vault = v
    BY DEF VaultContribution
  <2>3. QED
    BY <2>1, <2>2
<1>2. c.vault = v
  BY DEF IsContribution
<1>3. t = <<c>>
  <2>1. CASE /\ \A j \in DOMAIN s : s[j].vault # c.vault
             /\ t = Append(s, c)
    <3>1. Len(s) = 0
      BY <1>0, <1>1, <1>2, <2>1
    <3>2. s = <<>>
      BY <3>1, EmptySeq
    <3>3. QED
      BY <2>1, <3>2
  <2>2. ASSUME NEW p \in DOMAIN s, t = [s EXCEPT ![p] = c]
        PROVE  t = <<c>>
    <3>1. \A j \in 1 .. Len(s) : j = 1
      BY <1>0, <1>1
    <3>2. Len(s) = 1 /\ p = 1
      BY <1>0, <3>1
    <3>3. DOMAIN t = 1 .. 1 /\ t[1] = c /\ t \in Seq(VaultContribution)
      BY <1>0, <2>2, <3>2, UpsertIs
    <3>4. Len(t) = 1
      BY <3>3, LenProperties
    <3> HIDE DEF t
    <3>5. QED
      BY <3>3, <3>4
  <2> HIDE DEF t
  <2>3. \/ /\ \A j \in DOMAIN s : s[j].vault # c.vault
           /\ t = Append(s, c)
        \/ \E p \in DOMAIN s : s[p].vault = c.vault /\ t = [s EXCEPT ![p] = c]
    BY UpsertIs DEF t
  <2>4. QED
    BY <2>1, <2>2, <2>3
<1>4. SumWeights(t) = c.stake_weight /\ SumNextWeights(t) = c.next_epoch_stake_weight
  BY <1>3, OneContribution
<1>5. get_epoch(slot) \in Nat
  <2>1. slot \in 0 .. MAX_SLOT
    BY DEF StakeInv, VaultsTypeOK
  <2>2. slot \in Nat
    BY <2>1, StakeSnapshotAssumption
  <2>3. QED
    BY <2>2, EpochIsNat
<1> HIDE DEF t
<1>6. /\ SnapshotStake(t).last_snapshot_slot = slot
      /\ SnapshotStake(t).stake_weight = c.stake_weight
      /\ SnapshotStake(t).next_epoch_stake_weight = c.next_epoch_stake_weight
  BY <1>4 DEF SnapshotStake
<1>7. Backed(v, SnapshotStake(t), d, get_epoch(slot))
  BY <1>5, <1>6 DEF Backed, IsContribution
<1>8. QED
  BY <1>7 DEF t

\* What a step may do to the delegations and the vaults: nothing while the clock
\* may tick, an update of a vault, or a change of one delegation.
LEMMA VaultEffect ==
    ASSUME VaultsTypeOK, [StakeNext]_stakeVars
    PROVE  \/ UNCHANGED <<delegation, vault_epoch>> /\ slot <= slot'
           \/ \E v \in Vaults : UpdateVault(v)
           \/ \E v \in Vaults, o \in Operators : AddDelegation(v, o) \/ CooldownDelegation(v, o)
<1> USE DEF vaultVars
<1>0. slot \in Nat
  BY StakeSnapshotAssumption DEF VaultsTypeOK
<1>1. CASE Tick
  BY <1>0, <1>1 DEF Tick
<1>2. ASSUME NEW v \in Vaults, ChangeVaultConnection(v)
      PROVE  UNCHANGED <<delegation, vault_epoch>> /\ slot <= slot'
  BY <1>0, <1>2 DEF ChangeVaultConnection
<1>3. ASSUME NEW o \in Operators, OptIn(o) \/ ChangeConnection(o) \/ ProcessRemoveOperator(o)
      PROVE  UNCHANGED <<delegation, vault_epoch>> /\ slot <= slot'
  BY <1>0, <1>3 DEF OptIn, ChangeConnection, ProcessRemoveOperator
<1>4. ASSUME NEW o \in Operators, NEW key \in Keys,
             ProcessRegisterOperator(o, key) \/ ProcessUpdateOperatorBN128Keys(o, key)
      PROVE  UNCHANGED <<delegation, vault_epoch>> /\ slot <= slot'
  BY <1>0, <1>4 DEF ProcessRegisterOperator, ProcessUpdateOperatorBN128Keys
<1>5. ASSUME NEW v \in Vaults, NEW o \in Operators, SnapshotVaultOperatorDelegation(v, o)
      PROVE  UNCHANGED <<delegation, vault_epoch>> /\ slot <= slot'
  BY <1>0, <1>5 DEF SnapshotVaultOperatorDelegation
<1>6. CASE UNCHANGED stakeVars
  BY <1>0, <1>6 DEF stakeVars
<1>7. CASE StakeNext
  BY <1>1, <1>2, <1>3, <1>4, <1>5, <1>7, StakeSnapshotAssumption DEF StakeNext
<1>8. QED
  BY <1>6, <1>7

\* What v delegates to the operator at an index.
Delegated(v, i) == delegation[<<v, operator_snapshots[i].operator>>]

\* No step leaves counted stake without backing.
LEMMA BackedStep ==
    ASSUME NEW v, Vaults = {v}, TypeOK, TypeOK', StakeInv, StakeInv',
           TotalsMatchContributions, BackedInv(v), [StakeNext]_stakeVars
    PROVE  BackedInv(v)'
<1> USE DEF StakeInv
<1>1. /\ \A i \in LiveSlots : i \in Index /\ operator_snapshots[i].operator \in Operators
      /\ \A i \in Index : stake[i] \in OperatorStake
      /\ \A o \in Operators : delegation[<<v, o>>] \in DelegationState
      /\ \A o \in Operators : delegation'[<<v, o>>] \in DelegationState
      /\ vault_epoch[v] \in Nat /\ get_epoch(slot) \in Nat
  <2>1. \A i \in LiveSlots : i \in Index /\ operator_snapshots[i].operator \in Operators
    BY DEF TypeOK, LiveSlots, OperatorSnapshot
  <2>2. get_epoch(slot) \in Nat
    BY EpochIsNat, StakeSnapshotAssumption DEF VaultsTypeOK
  <2>3. QED
    BY <2>1, <2>2 DEF StakesTypeOK, VaultsTypeOK
<1>2. /\ vault_epoch[v] <= get_epoch(slot)
      /\ \A i \in LiveSlots : Backed(v, stake[i], Delegated(v, i), vault_epoch[v])
  BY DEF BackedInv, Delegated
<1>3. SUFFICES /\ vault_epoch'[v] <= get_epoch(slot')
               /\ \A i \in LiveSlots' : Backed(v, stake'[i], Delegated(v, i)', vault_epoch'[v])
  BY DEF BackedInv, Delegated, Backed, get_epoch, ApplyWeight, TotalSecurity
<1>4. CASE UNCHANGED <<delegation, vault_epoch>> /\ slot <= slot'
  <2>1. vault_epoch'[v] <= get_epoch(slot')
    <3>1. slot \in Nat /\ slot' \in Nat
      BY StakeSnapshotAssumption DEF VaultsTypeOK
    <3>2. get_epoch(slot) <= get_epoch(slot') /\ get_epoch(slot') \in Nat
      BY <1>4, <3>1, EpochMonotone
    <3>3. QED
      BY <1>1, <1>2, <1>4, <3>2
  <2>2. \A i \in Index : SameOperator(i) =>
          (i \in LiveSlots' <=> i \in LiveSlots) /\ Delegated(v, i)' = Delegated(v, i)
    BY <1>4 DEF SameOperator, LiveSlots, Delegated
  <2>3. CASE stake' = stake /\ \A i \in Index : SameOperator(i)
    <3>1. \A i \in LiveSlots' : i \in Index
      BY DEF LiveSlots
    <3>2. QED
      BY <1>2, <1>4, <2>1, <2>2, <2>3, <3>1
  <2>4. ASSUME NEW S \in SUBSET Index,
               stake' = [i \in Index |-> IF i \in S THEN FreshStake ELSE stake[i]],
               \A i \in Index \ S : SameOperator(i),
               NEW i \in LiveSlots'
        PROVE  Backed(v, stake'[i], Delegated(v, i)', vault_epoch'[v])
    <3>1. i \in Index
      BY DEF LiveSlots
    <3>2. CASE i \in S
      <4>1. operator_snapshots'[i].operator \in Operators
        BY <3>1 DEF TypeOK, LiveSlots, OperatorSnapshot
      <4>2. Delegated(v, i)' \in DelegationState
        BY <1>1, <4>1 DEF Delegated
      <4>3. QED
        BY <1>1, <1>4, <2>4, <3>1, <3>2, <4>2, FreshIsBacked
    <3>3. CASE i \notin S
      BY <1>2, <1>4, <2>2, <2>4, <3>1, <3>3
    <3>4. QED
      BY <3>2, <3>3
  <2>5. ASSUME NEW u \in Vaults, NEW o \in Operators, SnapshotVaultOperatorDelegation(u, o),
               operator_snapshots' = operator_snapshots, NEW i \in LiveSlots'
        PROVE  Backed(v, stake'[i], Delegated(v, i)', vault_epoch'[v])
    <3>1. /\ VaultUpdated(v) /\ u = v
          /\ \E n \in SlotsOf(o), c \in VaultContribution :
               /\ IsContribution(c, v, delegation[<<v, o>>])
               /\ stake' = [stake EXCEPT ![n] =
                              SnapshotStake(Upsert(stake[n].vault_contributions, c))]
      BY <2>5, CrankIs
    <3>2. PICK n \in SlotsOf(o), c \in VaultContribution :
               /\ IsContribution(c, v, delegation[<<v, o>>])
               /\ stake' = [stake EXCEPT ![n] =
                              SnapshotStake(Upsert(stake[n].vault_contributions, c))]
      BY <3>1
    <3> DEFINE s == stake[n].vault_contributions
    <3>3. i \in LiveSlots /\ i \in Index /\ Delegated(v, i)' = Delegated(v, i)
      BY <1>4, <2>5 DEF LiveSlots, Delegated
    <3>4. n \in Index /\ Delegated(v, n) = delegation[<<v, o>>]
      BY DEF SlotsOf, Delegated
    <3>5. CASE i = n
      <4>1. s \in Seq(VaultContribution)
        BY <3>4 DEF StakesTypeOK, OperatorStake
      <4>2. \A j, k \in DOMAIN s : s[j].vault = s[k].vault => j = k
        BY <3>4 DEF TotalsMatchContributions
      <4>3. stake'[i] = SnapshotStake(Upsert(s, c))
        BY <3>2, <3>4, <3>5 DEF StakesTypeOK
      <4>4. vault_epoch'[v] = get_epoch(slot)
        BY <1>4, <3>1 DEF VaultUpdated
      <4> HIDE DEF s
      <4>5. Backed(v, SnapshotStake(Upsert(s, c)), delegation[<<v, o>>], get_epoch(slot))
        BY <1>1, <3>2, <4>1, <4>2, CrankIsBacked
      <4>6. QED
        BY <3>3, <3>4, <3>5, <4>3, <4>4, <4>5
    <3>6. CASE i # n
      BY <1>2, <1>4, <3>2, <3>3, <3>6 DEF StakesTypeOK
    <3>7. QED
      BY <3>5, <3>6
  <2>6. QED
    <3>1. \A i \in LiveSlots' : Backed(v, stake'[i], Delegated(v, i)', vault_epoch'[v])
      BY <2>3, <2>4, <2>5, StakeEffect
    <3>2. QED
      BY <2>1, <3>1
<1>5. ASSUME NEW u \in Vaults, UpdateVault(u)
      PROVE  /\ vault_epoch'[v] <= get_epoch(slot')
             /\ \A i \in LiveSlots' : Backed(v, stake'[i], Delegated(v, i)', vault_epoch'[v])
  <2> DEFINE missed == get_epoch(slot) - vault_epoch[v] > 1
  <2>1. /\ vault_epoch[v] # get_epoch(slot) /\ vault_epoch'[v] = get_epoch(slot)
        /\ delegation' = [vo \in Vaults \X Operators |->
                            IF vo[1] = v THEN [staked |-> delegation[vo].staked, enqueued |-> 0,
                                cooling_down |-> IF missed THEN 0 ELSE delegation[vo].enqueued]
                            ELSE delegation[vo]]
        /\ slot' = slot /\ stake' = stake /\ operator_snapshots' = operator_snapshots
    BY <1>5 DEF UpdateVault, VaultUpdated, VaultsTypeOK, vars, slotVars, snapshotVars
  <2>2. vault_epoch[v] < get_epoch(slot)
    <3>1. vault_epoch[v] \in Nat /\ get_epoch(slot) \in Nat
      BY <1>1
    <3>2. vault_epoch[v] <= get_epoch(slot)
      BY <1>2
    <3>3. vault_epoch[v] # get_epoch(slot)
      BY <2>1
    <3>4. QED
      BY <3>1, <3>2, <3>3
  <2>3. ASSUME NEW i \in LiveSlots
        PROVE  Backed(v, stake[i], Delegated(v, i)', get_epoch(slot))
    <3> DEFINE o == operator_snapshots[i].operator
               d == delegation[<<v, o>>]
               f == delegation'[<<v, o>>]
    <3>1. o \in Operators /\ i \in Index
      BY <1>1
    <3>2. f = [staked |-> d.staked, enqueued |-> 0,
               cooling_down |-> IF missed THEN 0 ELSE d.enqueued]
      BY <2>1, <3>1
    <3>3. d \in DelegationState /\ f \in DelegationState
      BY <1>1, <3>1
    <3>4. Backed(v, stake[i], d, vault_epoch[v]) /\ Delegated(v, i)' = f
      BY <1>2, <2>1 DEF Delegated
    <3>5. get_epoch(slot) = vault_epoch[v] + 1 => ~missed
      BY <1>1
    <3> HIDE DEF missed, d
    <3>6. get_epoch(slot) = vault_epoch[v] + 1 => TotalSecurity(f) = d.staked + d.enqueued
      <4> SUFFICES ASSUME ~missed PROVE TotalSecurity(f) = d.staked + d.enqueued
        BY <3>5
      <4>1. f.staked = d.staked /\ f.enqueued = 0 /\ f.cooling_down = d.enqueued
        BY <3>2
      <4>2. d.staked \in Nat /\ d.enqueued \in Nat
        BY <3>3 DEF DelegationState
      <4> HIDE DEF f
      <4>3. QED
        BY <4>1, <4>2 DEF TotalSecurity
    <3> HIDE DEF f
    <3>7. QED
      BY <1>1, <2>2, <3>1, <3>3, <3>4, <3>6, RollsBacked
  <2>4. LiveSlots' = LiveSlots
    BY <2>1 DEF LiveSlots
  <2>5. QED
    BY <1>1, <2>1, <2>3, <2>4
<1>6. ASSUME NEW u \in Vaults, NEW p \in Operators, AddDelegation(u, p) \/ CooldownDelegation(u, p)
      PROVE  /\ vault_epoch'[v] <= get_epoch(slot')
             /\ \A i \in LiveSlots' : Backed(v, stake'[i], Delegated(v, i)', vault_epoch'[v])
  <2>1. UNCHANGED <<slot, vault_epoch, stake, operator_snapshots>> /\ LiveSlots' = LiveSlots
    BY <1>6 DEF AddDelegation, CooldownDelegation, vars, slotVars, snapshotVars, LiveSlots
  <2>2. ASSUME NEW o \in Operators
        PROVE  /\ TotalSecurity(delegation[<<v, o>>]) <= TotalSecurity(delegation'[<<v, o>>])
               /\ delegation[<<v, o>>].staked + delegation[<<v, o>>].enqueued
                    <= delegation'[<<v, o>>].staked + delegation'[<<v, o>>].enqueued
    <3> DEFINE d == delegation[<<v, o>>]
               f == delegation'[<<v, o>>]
    <3>1. d \in DelegationState
      BY <1>1
    <3>2. \/ f = d
          \/ f = [d EXCEPT !.staked = @ + 1]
          \/ f = [d EXCEPT !.staked = @ - 1, !.enqueued = @ + 1]
      BY <1>6 DEF AddDelegation, CooldownDelegation, VaultsTypeOK
    <3> HIDE DEF d, f
    <3>3. /\ d.staked \in Nat /\ d.enqueued \in Nat /\ d.cooling_down \in Nat
          /\ f.staked \in Int /\ f.enqueued \in Int /\ f.cooling_down = d.cooling_down
          /\ d.staked + d.enqueued <= f.staked + f.enqueued
      <4>1. d.staked \in Nat /\ d.enqueued \in Nat /\ d.cooling_down \in Nat
        BY <3>1 DEF DelegationState
      <4>2. CASE f = d
        BY <4>1, <4>2
      <4>3. CASE f = [d EXCEPT !.staked = @ + 1]
        <5>1. f.staked = d.staked + 1 /\ f.enqueued = d.enqueued /\ f.cooling_down = d.cooling_down
          BY <3>1, <4>3 DEF DelegationState
        <5>2. QED
          BY <4>1, <5>1
      <4>4. CASE f = [d EXCEPT !.staked = @ - 1, !.enqueued = @ + 1]
        <5>1. /\ f.staked = d.staked - 1 /\ f.enqueued = d.enqueued + 1
              /\ f.cooling_down = d.cooling_down
          BY <3>1, <4>4 DEF DelegationState
        <5>2. QED
          BY <4>1, <5>1
      <4>5. QED
        BY <3>2, <4>2, <4>3, <4>4
    <3>4. TotalSecurity(d) <= TotalSecurity(f) /\ d.staked + d.enqueued <= f.staked + f.enqueued
      BY <3>3 DEF TotalSecurity
    <3>5. QED
      BY <3>4 DEF d, f
  <2>3. ASSUME NEW i \in LiveSlots
        PROVE  Backed(v, stake[i], Delegated(v, i)', vault_epoch[v])
    <3> DEFINE o == operator_snapshots[i].operator
    <3>1. o \in Operators /\ i \in Index
      BY <1>1
    <3>2. Delegated(v, i)' = delegation'[<<v, o>>] /\ Delegated(v, i) = delegation[<<v, o>>]
      BY <2>1 DEF Delegated
    <3>3. delegation[<<v, o>>] \in DelegationState /\ delegation'[<<v, o>>] \in DelegationState
      BY <1>1, <3>1
    <3>4. Backed(v, stake[i], delegation[<<v, o>>], vault_epoch[v]) /\ stake[i] \in OperatorStake
      BY <1>1, <1>2, <3>1, <3>2
    <3>5. /\ TotalSecurity(delegation[<<v, o>>]) <= TotalSecurity(delegation'[<<v, o>>])
          /\ delegation[<<v, o>>].staked + delegation[<<v, o>>].enqueued
               <= delegation'[<<v, o>>].staked + delegation'[<<v, o>>].enqueued
      BY <2>2, <3>1
    <3> HIDE DEF o
    <3>6. QED
      BY <1>1, <3>2, <3>3, <3>4, <3>5, GrowsBacked
  <2>4. QED
    BY <1>2, <2>1, <2>3
<1>7. QED
  BY <1>4, <1>5, <1>6, VaultEffect

\* What is counted is backed.
LEMMA BackedIsCounted ==
    ASSUME NEW v, Vaults = {v}, TypeOK, StakeInv, BackedInv(v)
    PROVE  CountedStakeIsBacked
<1> SUFFICES ASSUME NEW i \in LiveSlots
             PROVE  EffectiveStake(i) <= BackedStake(operator_snapshots[i].operator)
  BY DEF CountedStakeIsBacked
<1> DEFINE o == operator_snapshots[i].operator
           d == delegation[<<v, o>>]
           s == stake[i]
           now == get_epoch(slot)
           taken == get_epoch(s.last_snapshot_slot)
<1>1. i \in Index /\ o \in Operators
  BY DEF TypeOK, LiveSlots, OperatorSnapshot
<1>2. s \in OperatorStake /\ d \in DelegationState
  BY <1>1 DEF StakeInv, StakesTypeOK, VaultsTypeOK
<1>3. BackedStake(o) = ApplyWeight(v, TotalSecurity(d))
  BY <1>1, BackedByOne DEF StakeInv
<1>4. /\ ApplyWeight(v, TotalSecurity(d)) \in Nat /\ ApplyWeight(v, d.staked + d.enqueued) \in Nat
      /\ ApplyWeight(v, d.staked + d.enqueued) <= ApplyWeight(v, TotalSecurity(d))
  BY <1>2, WeightsOf
<1>5. now \in Nat /\ taken \in Nat /\ vault_epoch[v] \in Nat /\ vault_epoch[v] <= now
  <2>1. slot \in Nat /\ s.last_snapshot_slot \in Nat
    BY <1>2, StakeSnapshotAssumption DEF StakeInv, VaultsTypeOK, OperatorStake
  <2>2. vault_epoch[v] \in Nat /\ vault_epoch[v] <= now
    BY DEF StakeInv, VaultsTypeOK, BackedInv
  <2> HIDE DEF s
  <2>3. QED
    BY <2>1, <2>2, EpochIsNat
<1>6. Backed(v, s, d, vault_epoch[v])
  BY DEF BackedInv
<1>7. s.stake_weight \in Nat /\ s.next_epoch_stake_weight \in Nat
  BY <1>2 DEF OperatorStake
<1>8. EffectiveStake(i) = CASE now - taken = 0 -> s.stake_weight
                            [] now - taken = 1 -> s.next_epoch_stake_weight
                            [] OTHER -> 0
  BY DEF EffectiveStake
<1>9. EffectiveStake(i) <= ApplyWeight(v, TotalSecurity(d))
  <2>1. /\ taken <= vault_epoch[v]
        /\ vault_epoch[v] = taken => /\ s.stake_weight <= ApplyWeight(v, TotalSecurity(d))
                                     /\ s.next_epoch_stake_weight <= ApplyWeight(v, d.staked + d.enqueued)
        /\ vault_epoch[v] = taken + 1 => s.next_epoch_stake_weight <= ApplyWeight(v, TotalSecurity(d))
    BY <1>6 DEF Backed
  <2> HIDE DEF now, taken, s, d
  <2>2. CASE now - taken = 0
    <3>1. EffectiveStake(i) = s.stake_weight /\ vault_epoch[v] = taken
      BY <1>5, <1>8, <2>1, <2>2
    <3>2. QED
      BY <2>1, <3>1
  <2>3. CASE now - taken = 1
    <3>1. EffectiveStake(i) = s.next_epoch_stake_weight /\ vault_epoch[v] \in {taken, taken + 1}
      BY <1>5, <1>8, <2>1, <2>3
    <3>2. QED
      BY <1>4, <1>7, <2>1, <3>1
  <2>4. CASE now - taken # 0 /\ now - taken # 1
    BY <1>4, <1>5, <1>8, <2>4
  <2>5. QED
    BY <2>2, <2>3, <2>4
<1>10. QED
  BY <1>3, <1>9

\* With one vault, no cooldown, update, missed update or late crank lets an operator
\* sign with stake that has left: what verify_certificate counts is delegated at
\* that moment.  The assumption is needed: with two vaults the crank of one
\* refreshes the stamp under which the stake of the other is counted.
THEOREM OneVaultBacks ==
    ASSUME NEW CONSTANT v, Vaults = {v}
    PROVE  StakeSpec => []CountedStakeIsBacked
<1>1. StakeInit => BackedInv(v)
  <2> SUFFICES ASSUME StakeInit PROVE BackedInv(v)
    OBVIOUS
  <2>1. LiveSlots = {} /\ slot = 0 /\ vault_epoch[v] = 0
    BY DEF StakeInit, Init, LiveSlots, EmptySlot
  <2>2. get_epoch(slot) \in Nat
    BY <2>1, EpochIsNat
  <2>3. QED
    BY <2>1, <2>2 DEF BackedInv
<1>2. /\ TypeOK /\ TypeOK' /\ StakeInv /\ StakeInv' /\ TotalsMatchContributions
      /\ BackedInv(v) /\ [StakeNext]_stakeVars
      => BackedInv(v)'
  BY BackedStep
<1>3. TypeOK /\ StakeInv /\ BackedInv(v) => CountedStakeIsBacked
  BY BackedIsCounted
<1>4. StakeSpec => []TypeOK
  BY StakeImplementsOperatorSet, TypeCorrect, PTL
<1>5. QED
  BY <1>1, <1>2, <1>3, <1>4, StakeInvariant, TotalsAreContributions, PTL DEF StakeSpec

(***************************************************************************)
(* Quorums                                                                 *)
(***************************************************************************)

\* A certificate in flight changes no stake either.
THEOREM CertificateImplementsStake == CertificateSpec => StakeSpec
<1>1. CertificateInit => StakeInit
  BY DEF CertificateInit
<1>2. [CertificateNext]_certificateVars => [StakeNext]_stakeVars
  BY DEF CertificateNext, certificateVars, AssembleCertificate
<1>3. QED
  BY <1>1, <1>2, PTL DEF CertificateSpec, StakeSpec

\* The sums of verify_certificate's loop, for sets of indices.
LEMMA SumStakeIs ==
    ASSUME StakeInv, NEW A \in SUBSET Index, NEW B \in SUBSET Index
    PROVE  /\ SumStake(A) \in Nat
           /\ A \cap B = {} => SumStake(A \cup B) = SumStake(A) + SumStake(B)
           /\ A \subseteq B => SumStake(A) <= SumStake(B)
<1> DEFINE f == [i \in Index |-> EffectiveStake(i)]
<1>1. ASSUME NEW i \in Index
      PROVE  EffectiveStake(i) \in Nat
  BY DEF EffectiveStake, StakeInv, StakesTypeOK, OperatorStake
<1>2. \A i \in Index : f[i] \in Nat
  BY <1>1
<1>3. ASSUME NEW S \in SUBSET Index
      PROVE  IsFiniteSet(S) /\ SumStake(S) = SumFunctionOnSet(f, S)
  <2> DEFINE g == [i \in S |-> EffectiveStake(i)]
  <2>1. IsFiniteSet(S)
    BY IndexFinite, FS_Subset
  <2>2. DOMAIN g = S /\ \A i \in S : g[i] = f[i]
    OBVIOUS
  <2>3. SumStake(S) = SumFunctionOnSet(g, S)
    BY <2>2 DEF SumStake, SumFunction
  <2> HIDE DEF f, g
  <2>4. QED
    BY <2>1, <2>2, <2>3, SumSame
<1> HIDE DEF f
<1>4. SumStake(A) \in Nat
  BY <1>2, <1>3, SumIsNat
<1>5. ASSUME A \cap B = {}
      PROVE  SumStake(A \cup B) = SumStake(A) + SumStake(B)
  <2>1. A \cup B \in SUBSET Index
    OBVIOUS
  <2>2. SumFunctionOnSet(f, A \cup B) = SumFunctionOnSet(f, A) + SumFunctionOnSet(f, B)
    BY <1>2, <1>3, <1>5, SumOfTwo
  <2>3. QED
    BY <1>3, <2>1, <2>2
<1>6. ASSUME A \subseteq B
      PROVE  SumStake(A) <= SumStake(B)
  BY <1>2, <1>3, <1>6, SumOfPart
<1>7. QED
  BY <1>4, <1>5, <1>6

\* A slot in a set of live slots contributes its key.
LEMMA KeyOfMember ==
    ASSUME NEW A \in SUBSET Index, NEW i \in A
    PROVE  /\ KeysOfSlots(A) \in [Keys -> Nat]
           /\ operator_snapshots[i].g1_pubkey \in Keys =>
                KeysOfSlots(A)[operator_snapshots[i].g1_pubkey] > 0
<1> DEFINE With(k) == {j \in A : operator_snapshots[j].g1_pubkey = k}
<1>1. \A k \in Keys : IsFiniteSet(With(k)) /\ Cardinality(With(k)) \in Nat
  BY IndexFinite, FS_Subset, FS_CardinalityType
<1>2. \A k \in Keys : KeysOfSlots(A)[k] = Cardinality(With(k))
  BY DEF KeysOfSlots
<1>3. KeysOfSlots(A) \in [Keys -> Nat]
  BY <1>1 DEF KeysOfSlots
<1>4. ASSUME operator_snapshots[i].g1_pubkey \in Keys
      PROVE  KeysOfSlots(A)[operator_snapshots[i].g1_pubkey] > 0
  <2> DEFINE k == operator_snapshots[i].g1_pubkey
  <2>1. i \in With(k)
    OBVIOUS
  <2>2. k \in Keys
    BY <1>4
  <2> HIDE DEF k, With
  <2>3. Cardinality(With(k)) # 0
    BY <1>1, <2>1, <2>2, FS_EmptySet
  <2>4. QED
    BY <1>1, <1>2, <2>2, <2>3 DEF k
<1>5. QED
  BY <1>3, <1>4

\* A live slot has a key.
LEMMA LiveKey ==
    ASSUME TypeOK, SlotsMatchAccounts, NEW i \in LiveSlots
    PROVE  i \in Index /\ operator_snapshots[i].g1_pubkey \in Keys
BY OperatorSetAssumption DEF TypeOK, SlotsMatchAccounts, LiveSlots, OperatorSnapshot, Registered

\* The argument for AcceptedCarriesQuorum: the keys of counted slots and of slots
\* the loop does not reach are never subtracted from the APK, so both signed.
LEMMA AcceptedQuorum ==
    ASSUME TypeOK, SlotsMatchAccounts, AggregateWithinOneOrphan, StakeInv
    PROVE  AcceptedCarriesQuorum
<1> SUFFICES ASSUME Presented(DefaultGeneration)
             PROVE  SumStake({i \in LiveSlots : certificate.apk[operator_snapshots[i].g1_pubkey] > 0}) * MAX_BPS
                      >= SumStake(LiveSlots) * CONSENSUS_THRESHOLD_BPS
  BY DEF AcceptedCarriesQuorum
<1> DEFINE signers == {i \in LiveSlots : certificate.apk[operator_snapshots[i].g1_pubkey] > 0}
           signed == WalkedSlots \cap certificate.bitmap
           others == WalkedSlots \ signed
           beyond == LiveSlots \ WalkedSlots
           unrefused == signed \cup beyond
<1>1. /\ Quorum(signed)
      /\ certificate.apk = Minus(total_aggregated_g1_pubkey, KeysOfSlots(others))
  BY DEF Presented, DefaultGeneration, verify_certificate, SignersKey
<1>2. /\ LiveSlots \in SUBSET Index /\ WalkedSlots \subseteq LiveSlots
      /\ signed \in SUBSET Index /\ others \in SUBSET Index /\ beyond \in SUBSET Index
      /\ unrefused \in SUBSET Index /\ signers \in SUBSET Index /\ WalkedSlots \in SUBSET Index
      /\ unrefused \cap others = {} /\ signed \cap beyond = {} /\ WalkedSlots \cap beyond = {}
      /\ WalkedSlots \cup beyond = LiveSlots /\ unrefused \subseteq LiveSlots
  BY DEF WalkedSlots, LiveSlots
<1>3. ASSUME NEW i \in unrefused
      PROVE  i \in signers
  <2> DEFINE k == operator_snapshots[i].g1_pubkey
  <2>1. k \in Keys /\ i \in LiveSlots
    BY <1>2, LiveKey
  <2> HIDE DEF signed, others, beyond, unrefused
  <2>2. /\ KeysOfSlots(unrefused)[k] > 0
    BY <1>2, <1>3, <2>1, KeyOfMember
  <2> HIDE DEF k
  <2>3. /\ KeysOfSlots(unrefused)[k] \in Nat /\ KeysOfSlots(others)[k] \in Nat /\ LiveSum[k] \in Nat
        /\ KeysOfSlots(unrefused)[k] + KeysOfSlots(others)[k] <= LiveSum[k]
    BY <1>2, <2>1, KeysOfDisjointSlots
  <2>4. total_aggregated_g1_pubkey[k] >= LiveSum[k] /\ total_aggregated_g1_pubkey[k] \in Int
    BY <2>1, AggregateCoversLive DEF TypeOK, Point
  <2>5. certificate.apk[k] = total_aggregated_g1_pubkey[k] - KeysOfSlots(others)[k]
    BY <1>1, <2>1 DEF Minus
  <2>6. certificate.apk[k] > 0
    BY <2>2, <2>3, <2>4, <2>5
  <2>7. QED
    BY <2>1, <2>6 DEF k
<1> HIDE DEF signers, signed, others, beyond, unrefused
<1>4. /\ SumStake(signed) \in Nat /\ SumStake(beyond) \in Nat /\ SumStake(WalkedSlots) \in Nat
      /\ SumStake(signers) \in Nat
      /\ SumStake(unrefused) = SumStake(signed) + SumStake(beyond)
      /\ SumStake(LiveSlots) = SumStake(WalkedSlots) + SumStake(beyond)
      /\ SumStake(unrefused) <= SumStake(signers)
  <2>1. SumStake(unrefused) <= SumStake(signers)
    BY <1>2, <1>3, SumStakeIs
  <2>2. SumStake(LiveSlots) = SumStake(WalkedSlots) + SumStake(beyond)
    BY <1>2, SumStakeIs
  <2>3. SumStake(unrefused) = SumStake(signed) + SumStake(beyond)
    BY <1>2, SumStakeIs DEF unrefused
  <2>4. QED
    BY <1>2, <2>1, <2>2, <2>3, SumStakeIs
<1> DEFINE a == SumStake(signed)
           w == SumStake(WalkedSlots)
           u == SumStake(beyond)
           s == SumStake(signers)
           t == CONSENSUS_THRESHOLD_BPS
<1>5. a * 10000 >= w * t /\ t \in 1 .. 10000
  BY <1>1, CertificateAssumption DEF Quorum, MAX_BPS
<1>6. a \in Nat /\ w \in Nat /\ u \in Nat /\ s \in Nat /\ a + u <= s /\ SumStake(LiveSlots) = w + u
  BY <1>4
<1>7. s * 10000 >= (w + u) * t
  <2> HIDE DEF a, w, u, s, t
  <2> DEFINE wt == w * t
             ut == u * t
             both == (w + u) * t
             rest == u * (10000 - t)
  <2>1. wt \in Nat /\ ut \in Nat /\ rest \in Nat /\ a * 10000 >= wt
    BY <1>5, <1>6
  <2>2. rest = u * 10000 - ut /\ both = wt + ut
    BY <1>5, <1>6
  <2> HIDE DEF wt, ut, both, rest
  <2>3. s * 10000 >= both
    BY <1>6, <2>1, <2>2
  <2>4. QED
    BY <2>3 DEF both
<1>8. QED
  BY <1>6, <1>7 DEF signers, MAX_BPS

\* An accepted certificate was signed by operators with the threshold of all live
\* stake, for any threshold, any bitmap, slots the loop does not reach and an APK
\* with an orphan key (verify_certificate, certificate.rs).
THEOREM AcceptedHoldsQuorum == CertificateSpec => []AcceptedCarriesQuorum
<1>1. TypeOK /\ SlotsMatchAccounts /\ AggregateWithinOneOrphan /\ StakeInv => AcceptedCarriesQuorum
  BY AcceptedQuorum
<1>2. QED
  BY <1>1, CertificateImplementsStake, CertificateImplementsOperatorSet, StakeInvariant, TypeCorrect,
     SlotsMatch, AggregateBounded, PTL

\* The slots that hold a key are the live ones, and the keys of live slots in A
\* and of the others add up to all.
LEMMA KeysOfRest ==
    ASSUME TypeOK, SlotsMatchAccounts, NEW A \in SUBSET LiveSlots
    PROVE  KeysOfSlots(A) = Minus(LiveSum, KeysOfSlots(LiveSlots \ A))
<1> DEFINE With(S, k) == {i \in S : operator_snapshots[i].g1_pubkey = k}
           B == LiveSlots \ A
<1>1. ASSUME NEW k \in Keys
      PROVE  Cardinality(With(A, k)) = Cardinality(With(Index, k)) - Cardinality(With(B, k))
  <2>1. \A i \in Index : operator_snapshots[i].g1_pubkey = k => i \in LiveSlots
    BY OperatorSetAssumption DEF SlotsMatchAccounts, EmptySlot, LiveSlots
  <2>2. /\ With(A, k) \cup With(B, k) = With(Index, k)
        /\ With(A, k) \cap With(B, k) = {}
    BY <2>1 DEF LiveSlots
  <2>3. IsFiniteSet(With(Index, k))
    BY IndexFinite, FS_Subset
  <2>4. IsFiniteSet(With(A, k)) /\ IsFiniteSet(With(B, k))
    BY <2>2, <2>3, FS_Subset
  <2> HIDE DEF With, B
  <2>5. Cardinality(With(Index, k)) =
          Cardinality(With(A, k)) + Cardinality(With(B, k)) - Cardinality({})
    BY <2>2, <2>4, FS_Union
  <2>6. Cardinality({}) = 0
    BY FS_EmptySet
  <2>7. Cardinality(With(A, k)) \in Nat /\ Cardinality(With(B, k)) \in Nat
    BY <2>4, FS_CardinalityType
  <2>8. QED
    BY <2>5, <2>6, <2>7
<1>2. QED
  BY <1>1 DEF KeysOfSlots, LiveSum, SumOf, Minus

\* Rounded up, the bytes have a bit for every operator.
LEMMA BitForEvery ==
    ASSUME NEW n \in Nat
    PROVE  0 .. n - 1 \subseteq 0 .. BYTE_BITS * BitmapBytes(n) - 1
<1> DEFINE a == n + BYTE_BITS - 1
<1>1. a \in Nat /\ BYTE_BITS \in Nat \ {0}
  BY CertificateAssumption
<1>2. a = BYTE_BITS * (a \div BYTE_BITS) + (a % BYTE_BITS) /\ a % BYTE_BITS \in 0 .. BYTE_BITS - 1
  BY <1>1, CertificateAssumption, SMT
<1>3. BitmapBytes(n) = a \div BYTE_BITS /\ a \div BYTE_BITS \in Int
  BY <1>1, SMT DEF BitmapBytes
<1> DEFINE q == BYTE_BITS * BitmapBytes(n)
<1>4. a = q + (a % BYTE_BITS)
  BY <1>2, <1>3
<1>5. q \in Int
  BY <1>1, <1>3
<1> HIDE DEF q
<1>6. q >= n
  BY <1>1, <1>2, <1>4, <1>5
<1>7. 0 .. n - 1 \subseteq 0 .. q - 1
  BY <1>5, <1>6
<1>8. QED
  BY <1>7 DEF q

\* The argument for AcceptsHonestQuorum: without an orphan the APK is exactly the
\* live keys, and what is left of it are the signers', as the walked slots
\* whose bits are set are theirs when every other one is listed.
LEMMA HonestAccepted ==
    ASSUME TypeOK, SlotsMatchAccounts, StakeInv
    PROVE  AcceptsHonestQuorum
<1> SUFFICES ASSUME NEW signers \in SUBSET LiveSlots,
                    AggregateIsLiveSum,
                    LiveSlots \subseteq 0 .. operators_registered - 1,
                    slot - last_snapshot_slot <= VALID_SLOTS_AFTER_CONSENSUS,
                    \A i \in signers : has_minimum_stake_now(i),
                    SumStake(LiveSlots) > 0,
                    SumStake(signers) * MAX_BPS >= SumStake(LiveSlots) * CONSENSUS_THRESHOLD_BPS
             PROVE  /\ verify_certificate(
                         HonestCertificate(signers, (0 .. operators_registered - 1) \ signers),
                         generation)
                    /\ verify_certificate(HonestCertificate(signers, LiveSlots \ signers), generation)
                         <=> LiveSlots = 0 .. operators_registered - 1
  BY DEF AcceptsHonestQuorum
<1> DEFINE Below == 0 .. operators_registered - 1
           Bits == 0 .. BYTE_BITS * BitmapBytes(operators_registered) - 1
<1>1. operators_registered \in Nat /\ Below \subseteq Bits
  BY BitForEvery DEF TypeOK
<1>2. WalkedSlots = LiveSlots
  <2>1. \A i \in LiveSlots : i < operators_registered
    BY <1>1
  <2>2. QED
    BY <2>1 DEF WalkedSlots
<1>3. \A i \in Bits : i < operators_registered => i \in Below
  BY <1>1
<1>4. total_aggregated_g1_pubkey = LiveSum
  BY DEF AggregateIsLiveSum
<1>5. SignersKey(signers) = KeysOfSlots(signers)
  BY <1>2, <1>4, KeysOfRest DEF SignersKey
<1>6. total_aggregated_g1_pubkey # Identity
  <2>1. LiveSlots # {}
    <3>1. SumStake({}) = 0
      <4> DEFINE f == [i \in {} |-> EffectiveStake(i)]
      <4>1. DOMAIN f = {}
        OBVIOUS
      <4>2. SumFunctionOnSet(f, {}) = 0
        BY SumOfNone
      <4>3. QED
        BY <4>1, <4>2 DEF SumStake, SumFunction
    <3>2. SUFFICES ASSUME LiveSlots = {} PROVE FALSE
      OBVIOUS
    <3>3. SumStake(LiveSlots) = 0
      BY <3>1, <3>2, Zenon
    <3>4. QED
      BY <3>3
  <2>2. PICK i \in LiveSlots : TRUE
    BY <2>1
  <2>3. operator_snapshots[i].g1_pubkey \in Keys /\ i \in Index
    BY LiveKey
  <2>4. KeysOfSlots(Index)[operator_snapshots[i].g1_pubkey] > 0
    BY <2>3, KeyOfMember
  <2>5. KeysOfSlots(Index) = LiveSum
    BY DEF KeysOfSlots, LiveSum, SumOf
  <2>6. QED
    BY <1>4, <2>3, <2>4, <2>5 DEF Identity
<1>7. Quorum(signers)
  BY <1>2 DEF Quorum
<1>8. ASSUME NEW non_signers
      PROVE  /\ HonestCertificate(signers, non_signers).bytes = required_bitmap_bytes
             /\ HonestCertificate(signers, non_signers).bitmap = Bits \ non_signers
             /\ HonestCertificate(signers, non_signers).apk = KeysOfSlots(signers)
  BY DEF HonestCertificate, BitmapBytes, required_bitmap_bytes, create_signer_bitmap
<1>9. verify_certificate(HonestCertificate(signers, Below \ signers), generation)
  <2> DEFINE c == HonestCertificate(signers, Below \ signers)
  <2>1. c.bytes = required_bitmap_bytes /\ c.bitmap = Bits \ (Below \ signers)
        /\ c.apk = KeysOfSlots(signers)
    BY <1>8
  <2> HIDE DEF c, Below, Bits
  <2>2. WalkedSlots \cap c.bitmap = signers
    BY <1>1, <1>2, <2>1 DEF Below
  <2>3. SignersAreEligible(c.bitmap)
    BY <1>3, <2>1 DEF SignersAreEligible
  <2>4. verify_certificate(c, generation)
    BY <1>5, <1>6, <1>7, <2>1, <2>2, <2>3 DEF verify_certificate
  <2>5. QED
    BY <2>4 DEF c, Below
<1>10. CASE LiveSlots = Below
  BY <1>9, <1>10
<1>11. CASE LiveSlots # Below
  <2> DEFINE c == HonestCertificate(signers, LiveSlots \ signers)
  <2>1. PICK i \in Below : i \notin LiveSlots
    BY <1>11
  <2>2. i \in c.bitmap /\ i < operators_registered
    BY <1>1, <1>8, <2>1
  <2> HIDE DEF c
  <2>3. ~SignersAreEligible(c.bitmap)
    BY <2>1, <2>2 DEF SignersAreEligible
  <2>4. ~verify_certificate(c, generation)
    BY <2>3 DEF verify_certificate
  <2>5. QED
    BY <1>9, <1>11, <2>4 DEF c
<1>12. QED
  BY <1>10, <1>11

\* Without an orphan in the APK, and while the loop reaches every live slot,
\* verify_certificate refuses no certificate of eligible operators with the
\* threshold of the stake whose aggregator lists every other slot below the
\* count, for bytes of any number of bits.
THEOREM HonestQuorumAccepted == CertificateSpec => []AcceptsHonestQuorum
<1>1. TypeOK /\ SlotsMatchAccounts /\ StakeInv => AcceptsHonestQuorum
  BY HonestAccepted
<1>2. QED
  BY <1>1, CertificateImplementsStake, CertificateImplementsOperatorSet, StakeInvariant, TypeCorrect,
     SlotsMatch, PTL
===============================================================================
