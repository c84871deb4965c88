------------------------------ MODULE Certificate ------------------------------
(***************************************************************************)
(* BLS certificates: StakeSnapshot with one certificate that was assembled *)
(* off chain at some moment and may be presented at any later one.         *)
(*                                                                         *)
(* verify_certificate changes nothing, so it is a predicate on the         *)
(* certificate and the state it is presented in, not an action.  Operator  *)
(* set, stake and clock go on changing between the two moments.            *)
(*                                                                         *)
(* An aggregate signature verifies under the sum of its signers' keys and  *)
(* no other, so a signature and its G2 key are that sum.  The bitmap is    *)
(* whatever the aggregator wrote, its bits need not be the signers'.       *)
(***************************************************************************)
EXTENDS StakeSnapshot

CONSTANTS
    BYTE_BITS,                     \* bits in a byte of the bitmap (8)
    VALID_SLOTS_AFTER_CONSENSUS,   \* Config::valid_slots_after_consensus
    CONSENSUS_THRESHOLD_BPS,       \* Config::consensus_threshold_bps
    Bitmaps                        \* bound: the bitmaps aggregators write

MAX_BPS == 10000

ASSUME CertificateAssumption ==
    /\ BYTE_BITS \in Nat \ {0}
    /\ VALID_SLOTS_AFTER_CONSENSUS \in Nat
    /\ CONSENSUS_THRESHOLD_BPS \in 1 .. MAX_BPS
    /\ Bitmaps \subseteq SUBSET Index
    /\ None \notin [bitmap: SUBSET Index, bytes: Nat, generation: Nat,
                    apk: Point, slots: [Index -> OperatorSnapshot]]

VARIABLE certificate

certificateVars == <<stakeVars, certificate>>

\* The generation the aggregator read, and the slots it read, which the
\* certificate does not carry and only the properties look at.
CertificateRecord ==
    [bitmap: SUBSET Index, bytes: Nat, generation: Nat,
     apk: Point, slots: [Index -> OperatorSnapshot]]

KeysOfOperators(ops) ==
    [k \in Keys |-> Cardinality({o \in ops : ncn_operator_account[o] = k})]

KeysOfSlots(idx) ==
    [k \in Keys |-> Cardinality({i \in idx : operator_snapshots[i].g1_pubkey = k})]

SumStake(idx) == SumFunction([i \in idx |-> EffectiveStake(i)])

-------------------------------------------------------------------------------
CertificateTypeOK == certificate \in CertificateRecord \cup {None}

CertificateInit == StakeInit /\ certificate = None

\* create_signer_bitmap sizes the bitmap for the operators the aggregator knows.
BitmapBytes(total_operators) == (total_operators + BYTE_BITS - 1) \div BYTE_BITS

\* Every bit is set, those past the operators included, but the listed ones.
create_signer_bitmap(non_signers, total_operators) ==
    (0 .. BYTE_BITS * BitmapBytes(total_operators) - 1) \ non_signers

\* Some registered operators, removed ones included, sign with the key on their
\* account.  One certificate is enough: the properties are about any.
AssembleCertificate(bitmap, signers) ==
    /\ certificate = None
    /\ bitmap \subseteq 0 .. BYTE_BITS * BitmapBytes(operators_registered) - 1
    /\ signers # {} /\ signers \subseteq RegisteredOperators
    /\ certificate' = [bitmap |-> bitmap,
                       bytes |-> BitmapBytes(operators_registered),
                       generation |-> generation,
                       apk |-> KeysOfOperators(signers),
                       slots |-> operator_snapshots]
    /\ UNCHANGED stakeVars

CertificateNext ==
    \/ StakeNext /\ UNCHANGED certificate
    \/ \E bitmap \in Bitmaps, signers \in SUBSET Operators :
         AssembleCertificate(bitmap, signers)

CertificateSpec == CertificateInit /\ [][CertificateNext]_certificateVars

-------------------------------------------------------------------------------
(***************************************************************************)
(* verify_certificate                                                      *)
(***************************************************************************)

\* Mutant: the division is rounded down.
FlooredBitmapBytes == operators_registered \div BYTE_BITS

required_bitmap_bytes == (operators_registered + BYTE_BITS - 1) \div BYTE_BITS

\* The occupied slots the loop walks.  Bits past operators_registered are padding.
WalkedSlots == {i \in LiveSlots : i < operators_registered}

has_minimum_stake_now(i) ==
    LET age == get_epoch(slot) - get_epoch(stake[i].last_snapshot_slot)
    IN  \/ age = 0 /\ stake[i].has_minimum_stake
        \/ age = 1 /\ stake[i].has_minimum_stake_next_epoch

SignersAreEligible(bitmap) ==
    \A i \in bitmap :
        i < operators_registered => i \in LiveSlots /\ has_minimum_stake_now(i)

\* Mutant: the total is accumulated in the signers' branch only.
QuorumOfSigners(signed) ==
    LET total_stake == SumStake(signed)
    IN  /\ total_stake > 0
        /\ SumStake(signed) * MAX_BPS >= total_stake * CONSENSUS_THRESHOLD_BPS

\* Products instead of a quotient, and no quorum over no stake.
Quorum(signed) ==
    LET total_stake == SumStake(WalkedSlots)
    IN  /\ total_stake > 0
        /\ SumStake(signed) * MAX_BPS >= total_stake * CONSENSUS_THRESHOLD_BPS

\* The running APK without the keys of the walked slots that did not sign.
SignersKey(signed) ==
    Minus(total_aggregated_g1_pubkey, KeysOfSlots(WalkedSlots \ signed))

\* Mutant: the generation is not compared.
VerifiesAnyGeneration(c, expected_generation) ==
    LET signed == WalkedSlots \cap c.bitmap
    IN  /\ c.bytes = required_bitmap_bytes
        /\ slot - last_snapshot_slot <= VALID_SLOTS_AFTER_CONSENSUS
        /\ SignersAreEligible(c.bitmap)
        /\ Quorum(signed)
        /\ total_aggregated_g1_pubkey # Identity
        /\ c.apk = SignersKey(signed)

verify_certificate(c, expected_generation) ==
    LET signed == WalkedSlots \cap c.bitmap
    IN  /\ c.bytes = required_bitmap_bytes
        /\ generation = expected_generation
        /\ slot - last_snapshot_slot <= VALID_SLOTS_AFTER_CONSENSUS
        /\ SignersAreEligible(c.bitmap)
        /\ Quorum(signed)
        /\ total_aggregated_g1_pubkey # Identity
        /\ c.apk = SignersKey(signed)

\* The CLI's verify-certificate without --expected-generation reads the current
\* generation when it submits.
DefaultGeneration == generation

-------------------------------------------------------------------------------
(***************************************************************************)
(* Properties                                                              *)
(***************************************************************************)

Presented(g) == certificate # None /\ verify_certificate(certificate, g)

\* A certificate that verifies under the generation it was assembled against
\* meets exactly the slots it was assembled against: no operator joined, left or
\* rotated in between, whatever happened to stake and clock.
AcceptedAgainstAssembledSet ==
    certificate # None /\ verify_certificate(certificate, certificate.generation)
    => operator_snapshots = certificate.slots

\* No bit counts that has no signature behind it: in an accepted certificate the
\* key of every counted slot was signed with, as often as slots hold it.  This
\* holds for any expected_generation and any bitmap; it rests on the APK never
\* missing a live key.
CountedSignersSigned ==
    Presented(DefaultGeneration) =>
        \A k \in Keys :
            KeysOfSlots(WalkedSlots \cap certificate.bitmap)[k] <= certificate.apk[k]

\* The operators whose keys signed an accepted certificate hold the threshold of
\* the stake of all live operators, also of those whose index the loop does not
\* reach (out-of-order registration) and when the APK carries an orphan key.
AcceptedCarriesQuorum ==
    Presented(DefaultGeneration) =>
        LET signers == {i \in LiveSlots : certificate.apk[operator_snapshots[i].g1_pubkey] > 0}
        IN  SumStake(signers) * MAX_BPS >= SumStake(LiveSlots) * CONSENSUS_THRESHOLD_BPS

\* The certificate of an aggregator that lists these as non-signers.
HonestCertificate(signers, non_signers) ==
    [bitmap |-> create_signer_bitmap(non_signers, operators_registered),
     bytes |-> BitmapBytes(operators_registered),
     generation |-> generation, apk |-> KeysOfSlots(signers), slots |-> operator_snapshots]

\* No honest quorum is refused: while the loop reaches every live slot and the APK
\* has no orphan, eligible operators with the threshold of the stake are accepted
\* as soon as the snapshot is fresh, padding bits and tombstones included; an
\* aggregator that lists the live non-signers only is refused exactly when
\* there is a tombstone or a slot not taken yet below the count, as
\* create_signer_bitmap leaves its bit set.
AcceptsHonestQuorum ==
    \A signers \in SUBSET LiveSlots :
        /\ AggregateIsLiveSum
        /\ LiveSlots \subseteq 0 .. operators_registered - 1
        /\ slot - last_snapshot_slot <= VALID_SLOTS_AFTER_CONSENSUS
        /\ \A i \in signers : has_minimum_stake_now(i)
        /\ SumStake(LiveSlots) > 0
        /\ SumStake(signers) * MAX_BPS >= SumStake(LiveSlots) * CONSENSUS_THRESHOLD_BPS
        => /\ verify_certificate(
                HonestCertificate(signers, (0 .. operators_registered - 1) \ signers), generation)
           /\ verify_certificate(HonestCertificate(signers, LiveSlots \ signers), generation)
                <=> LiveSlots = 0 .. operators_registered - 1
===============================================================================
