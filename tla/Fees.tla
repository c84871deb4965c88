--------------------------------- MODULE Fees ---------------------------------
(***************************************************************************)
(* FeeConfig: two fee records, of which the epoch decides which one is     *)
(* charged and which one may be edited.  admin_initialize_config creates   *)
(* it; update_fee_config is in the library and its tests, no instruction   *)
(* calls it yet.  The configuration lives in an account: an operation that *)
(* returns an error leaves it as it was.                                   *)
(***************************************************************************)
EXTENDS Integers

CONSTANTS
    MAX_FEE_BPS,
    PROTOCOL_FEE_BPS,
    Bps,               \* values of a u16 a caller may pass
    Wallets,
    MAX_EPOCH          \* u64::MAX, the bound on the clock

ASSUME FeesAssumption ==
    /\ MAX_FEE_BPS \in Nat
    /\ PROTOCOL_FEE_BPS \in 1 .. MAX_FEE_BPS
    /\ Bps \subseteq Nat
    /\ MAX_EPOCH \in Nat

VARIABLES
    epoch,
    fee_1, fee_2,      \* a fee with the epoch it is charged from
    ncn_fee_wallet

feesVars == <<epoch, fee_1, fee_2, ncn_fee_wallet>>

Fees == [activation_epoch: 0 .. MAX_EPOCH, ncn_fee_bps: Bps]

total_fees_bps(fees) == PROTOCOL_FEE_BPS + fees.ncn_fee_bps

\* Mutant: the record for the next epoch is charged already.
current_fees_early(f1, f2, e) ==
    IF f1.activation_epoch > e + 1 THEN f2
    ELSE IF f2.activation_epoch > e + 1 THEN f1
    ELSE IF f1.activation_epoch >= f2.activation_epoch THEN f1 ELSE f2

current_fees(f1, f2, e) ==
    IF f1.activation_epoch > e THEN f2
    ELSE IF f2.activation_epoch > e THEN f1
    ELSE IF f1.activation_epoch >= f2.activation_epoch THEN f1 ELSE f2

\* updatable_fees returns fee_1, not fee_2.
first_is_updatable(f1, f2, e) ==
    \/ f1.activation_epoch > e
    \/ f2.activation_epoch <= e /\ f1.activation_epoch <= f2.activation_epoch

is_scheduled(f1, f2, e) == f1.activation_epoch > e \/ f2.activation_epoch > e

check_fees_okay(f1, f2, e) == total_fees_bps(current_fees(f1, f2, e)) \in 1 .. MAX_FEE_BPS

FeesTypeOK ==
    /\ epoch \in 0 .. MAX_EPOCH
    /\ fee_1 \in Fees
    /\ fee_2 \in Fees
    /\ ncn_fee_wallet \in Wallets

\* FeeConfig::new in some epoch.
FeesInit ==
    /\ epoch \in 0 .. MAX_EPOCH
    /\ \E bps \in Bps :
         /\ bps <= MAX_FEE_BPS
         /\ fee_1 = [activation_epoch |-> epoch, ncn_fee_bps |-> bps]
         /\ fee_2 = fee_1
         /\ check_fees_okay(fee_1, fee_2, epoch)
    /\ ncn_fee_wallet \in Wallets

\* Epochs may pass without an update.
NewEpoch ==
    /\ epoch' \in (epoch + 1) .. MAX_EPOCH
    /\ UNCHANGED <<fee_1, fee_2, ncn_fee_wallet>>

\* The records once the updatable one is a copy of the current one, or was
\* scheduled before.
set_fees_to_current(f1, f2, e) ==
    IF is_scheduled(f1, f2, e) THEN <<f1, f2>>
    ELSE IF first_is_updatable(f1, f2, e) THEN <<current_fees(f1, f2, e), f2>>
    ELSE <<f1, current_fees(f1, f2, e)>>

\* The record an update leaves: a new fee or, for {}, the one it had.
scheduled(f, e, bps) ==
    [activation_epoch |-> e + 1,
     ncn_fee_bps |-> IF bps = {} THEN f.ncn_fee_bps ELSE CHOOSE b \in bps : TRUE]

\* set_ncn_fee_bps and update_updatable_epoch each look for the updatable
\* record, and find the same one.
schedule(f1, f2, e, bps) ==
    IF first_is_updatable(f1, f2, e) THEN <<scheduled(f1, e, bps), f2>>
    ELSE <<f1, scheduled(f2, e, bps)>>

updated(bps) ==
    LET copied == set_fees_to_current(fee_1, fee_2, epoch)
    IN  schedule(copied[1], copied[2], epoch, bps)

\* Mutant: the fees of the next epoch are not checked.
IsAcceptedNow(bps) ==
    /\ \A b \in bps : b <= MAX_FEE_BPS
    /\ epoch + 1 <= MAX_EPOCH
    /\ check_fees_okay(updated(bps)[1], updated(bps)[2], epoch)

\* No error is returned for the new fee, none or one.
IsAccepted(bps) ==
    /\ \A b \in bps : b <= MAX_FEE_BPS
    /\ epoch + 1 <= MAX_EPOCH
    /\ check_fees_okay(updated(bps)[1], updated(bps)[2], epoch)
    /\ check_fees_okay(updated(bps)[1], updated(bps)[2], epoch + 1)

\* update_fee_config with a new fee or none and a new wallet or the old one.
update_fee_config(bps) ==
    /\ IsAccepted(bps)
    /\ fee_1' = updated(bps)[1]
    /\ fee_2' = updated(bps)[2]
    /\ ncn_fee_wallet' \in Wallets
    /\ UNCHANGED epoch

FeesNext ==
    \/ NewEpoch
    \/ \E bps \in {{}} \cup {{b} : b \in Bps} : update_fee_config(bps)

FeesSpec == FeesInit /\ [][FeesNext]_feesVars

-------------------------------------------------------------------------------
(***************************************************************************)
(* Properties                                                              *)
(***************************************************************************)

\* fees.rs:9-17: two records and an epoch amount to a fee that is fixed during
\* an epoch and one to come; updates in a row, in one epoch or after epochs
\* without any, never change what this epoch charges and never lose a fee
\* that was scheduled.
Schedule == INSTANCE FeeSchedule WITH
    NcnFees <- {b \in Bps : b <= MAX_FEE_BPS},
    fee_epoch <- epoch,
    fee_now <- current_fees(fee_1, fee_2, epoch).ncn_fee_bps,
    fee_next <- current_fees(fee_1, fee_2, epoch + 1).ncn_fee_bps
ImplementsFeeSchedule == Schedule!FeeScheduleSpec

\* set_fees_to_current's error FeeNotActive is unreachable, and no update waits
\* further than for the next epoch: at most one record is scheduled, for then.
OneIsScheduledForNext ==
    /\ ~(fee_1.activation_epoch > epoch /\ fee_2.activation_epoch > epoch)
    /\ fee_1.activation_epoch <= epoch + 1
    /\ fee_2.activation_epoch <= epoch + 1

\* Whatever was accepted, the fees of every epoch stay within the cap and
\* a legal fee is accepted in every epoch but the last that can be counted.
CapHoldsInEveryEpoch ==
    /\ \A e \in epoch .. MAX_EPOCH : total_fees_bps(current_fees(fee_1, fee_2, e)) \in 1 .. MAX_FEE_BPS
    /\ epoch < MAX_EPOCH =>
         \A b \in Bps : IsAccepted({b}) <=> PROTOCOL_FEE_BPS + b <= MAX_FEE_BPS
===============================================================================
