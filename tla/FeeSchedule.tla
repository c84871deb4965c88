------------------------------ MODULE FeeSchedule ------------------------------
(***************************************************************************)
(* What FeeConfig promises: a fee for this epoch that nothing changes, and *)
(* a fee for the coming epochs that an update may set until the epoch ends.*)
(***************************************************************************)
EXTENDS Naturals

CONSTANTS NcnFees      \* fees an update may set

VARIABLES
    fee_epoch,
    fee_now,           \* NCN fee of this epoch
    fee_next           \* NCN fee of the next epoch, were nothing set any more

FeeScheduleInit ==
    /\ fee_epoch \in Nat
    /\ fee_now \in NcnFees
    /\ fee_next = fee_now

NextEpochs ==
    /\ fee_epoch' \in Nat
    /\ fee_epoch' > fee_epoch
    /\ fee_now' = fee_next
    /\ fee_next' = fee_next

SetFee ==
    /\ fee_next' \in NcnFees
    /\ UNCHANGED <<fee_epoch, fee_now>>

FeeScheduleSpec == FeeScheduleInit /\ [][NextEpochs \/ SetFee]_<<fee_epoch, fee_now, fee_next>>
===============================================================================
