-------------------------------- MODULE Keeper --------------------------------
(***************************************************************************)
(* The keeper's loop next to the chain it cranks.  The keeper reads the    *)
(* epoch, the snapshot, the operators, the registry and the snapshot again *)
(* in separate RPC calls, and sends one transaction per operator; the      *)
(* chain moves between any two of them, other crankers and a second keeper *)
(* included.                                                               *)
(*                                                                         *)
(* Of the chain only what the loop depends on: the slot, which operators   *)
(* are opted in and which are in the snapshot, when each was cranked last, *)
(* and the epoch of the last update of the first vault of the registry,    *)
(* the only one the keeper cranks.  What a crank computes is in            *)
(* StakeSnapshot, the steps of full_vault_update in VaultUpdate, phase 0   *)
(* (get_or_create_snapshot) in Provisioning.                               *)
(***************************************************************************)
EXTENDS Integers, FiniteSets

CONSTANTS
    Keepers,
    Operators,
    Delegated,                \* operators the first vault has a delegation account for
    CLUSTER_EPOCH_LENGTH,     \* slots per epoch of get_epoch_info
    RESTAKING_EPOCH_LENGTH,   \* epoch_length of the restaking config
    MAX_SLOT                  \* bound on the clock

ASSUME KeeperAssumption ==
    /\ Delegated \subseteq Operators
    /\ CLUSTER_EPOCH_LENGTH \in Nat \ {0}
    /\ RESTAKING_EPOCH_LENGTH \in Nat \ {0}
    /\ MAX_SLOT \in Nat /\ CLUSTER_EPOCH_LENGTH <= MAX_SLOT

VARIABLES
    slot,
    opted_in,              \* operators with an NcnOperatorState account
    registered,            \* operators in the snapshot
    removed,               \* operators that were in it
    last_snapshot_slot,    \* of each operator's entry
    vault_epoch,           \* epoch of the first vault's last update
    vault_listed,          \* the registry is not empty
    rpc_responds,          \* from now on no read and no transaction fails
    keeper

chainVars == <<slot, opted_in, registered, removed, last_snapshot_slot, vault_epoch, vault_listed>>
keeperVars == <<chainVars, rpc_responds, keeper>>

get_epoch(s) == s \div RESTAKING_EPOCH_LENGTH
cluster_epoch == slot \div CLUSTER_EPOCH_LENGTH

\* The entry of each operator in the snapshot, by its last_snapshot_slot.
Snapshot == [o \in registered |-> last_snapshot_slot[o]]
Copies == UNION {[S -> 0 .. MAX_SLOT] : S \in SUBSET Operators}
NoCopy == [o \in {} |-> 0]

PCs == {"epoch", "state", "operators", "decide", "registry", "snapshot", "vault", "crank", "sleep"}

\* copy is the snapshot as it was read last, due the operators still to crank.
KeeperState == [pc: PCs, epoch: Nat, state_epoch: Nat, address_set: BOOLEAN,
                should_snapshot: BOOLEAN, copy: Copies, due: SUBSET Operators]

KeeperTypeOK ==
    /\ slot \in 0 .. MAX_SLOT
    /\ opted_in \subseteq Operators
    /\ registered \subseteq opted_in
    /\ removed \subseteq Operators \ registered
    /\ last_snapshot_slot \in [Operators -> 0 .. MAX_SLOT]
    /\ vault_epoch \in 0 .. get_epoch(MAX_SLOT)
    /\ vault_listed \in BOOLEAN
    /\ rpc_responds \in BOOLEAN
    /\ keeper \in [Keepers -> KeeperState]

\* The loop is entered some time after epoch 0, with the state's default.
KeeperInit ==
    /\ slot = CLUSTER_EPOCH_LENGTH
    /\ opted_in = {}
    /\ registered = {}
    /\ removed = {}
    /\ last_snapshot_slot = [o \in Operators |-> 0]
    /\ vault_epoch = 0
    /\ vault_listed = FALSE
    /\ rpc_responds = FALSE
    /\ keeper = [k \in Keepers |->
                   [pc |-> "epoch", epoch |-> cluster_epoch, state_epoch |-> 0,
                    address_set |-> FALSE, should_snapshot |-> FALSE,
                    copy |-> NoCopy, due |-> {}]]

-------------------------------------------------------------------------------
(***************************************************************************)
(* The chain                                                               *)
(***************************************************************************)

Tick ==
    /\ slot < MAX_SLOT
    /\ slot' = slot + 1
    /\ UNCHANGED <<opted_in, registered, removed, last_snapshot_slot, vault_epoch, vault_listed>>

OptIn(o) ==
    /\ opted_in' = opted_in \cup {o}
    /\ UNCHANGED <<slot, registered, removed, last_snapshot_slot, vault_epoch, vault_listed>>

RegisterFirstVault ==
    /\ vault_listed' = TRUE
    /\ UNCHANGED <<slot, opted_in, registered, removed, last_snapshot_slot, vault_epoch>>

Register(o) ==
    /\ o \in opted_in \ (registered \cup removed)
    /\ registered' = registered \cup {o}
    /\ last_snapshot_slot' = [last_snapshot_slot EXCEPT ![o] = 0]
    /\ UNCHANGED <<slot, opted_in, removed, vault_epoch, vault_listed>>

Remove(o) ==
    /\ o \in registered
    /\ registered' = registered \ {o}
    /\ removed' = removed \cup {o}
    /\ UNCHANGED <<slot, opted_in, last_snapshot_slot, vault_epoch, vault_listed>>

\* A complete update of the vault, by the keeper or anybody.
UpdateVault ==
    /\ vault_epoch' = get_epoch(slot)
    /\ UNCHANGED <<slot, opted_in, registered, removed, last_snapshot_slot, vault_listed>>

\* snapshot_vault_operator_delegation of the first vault and this operator.
CanCrank(o) == o \in registered /\ o \in Delegated /\ vault_epoch = get_epoch(slot)

CrankOperator(o) ==
    /\ CanCrank(o)
    /\ last_snapshot_slot' = [last_snapshot_slot EXCEPT ![o] = slot]
    /\ UNCHANGED <<slot, opted_in, registered, removed, vault_epoch, vault_listed>>

ChainStep ==
    \/ Tick
    \/ RegisterFirstVault
    \/ UpdateVault
    \/ \E o \in Operators : OptIn(o) \/ Register(o) \/ Remove(o) \/ CrankOperator(o)

-------------------------------------------------------------------------------
(***************************************************************************)
(* The keeper                                                              *)
(***************************************************************************)

Becomes(k, state) == keeper' = [keeper EXCEPT ![k] = state]

\* An error in a phase: the error timeout, then the loop from its start.
Fail(k, state) == ~rpc_responds /\ Becomes(k, [state EXCEPT !.pc = "epoch"])

\* Phase 1.  After ten failures the epoch is taken to be 0.
CheckEpoch(k) ==
    /\ keeper[k].pc = "epoch"
    /\ \E e \in {cluster_epoch} \cup (IF rpc_responds THEN {} ELSE {0}) :
         Becomes(k, [keeper[k] EXCEPT !.pc = "state", !.epoch = e])
    /\ UNCHANGED chainVars

\* Phase 2.  fetch records the epoch before it reads anything; update_state
\* reads the default address, where there is no snapshot, until a fetch.
ReadState(k) ==
    /\ keeper[k].pc = "state"
    /\ LET fetching == keeper[k].state_epoch # keeper[k].epoch
           recorded == [keeper[k] EXCEPT !.state_epoch = keeper[k].epoch,
                                         !.address_set = fetching \/ keeper[k].address_set]
       IN  \/ Becomes(k, IF ~recorded.address_set
                         THEN [keeper[k] EXCEPT !.pc = "decide", !.should_snapshot = FALSE]
                         ELSE [recorded EXCEPT !.pc = "operators", !.copy = Snapshot])
           \/ Fail(k, recorded)
    /\ UNCHANGED chainVars

\* Mutant: an operator that was cranked in this epoch is still due.
NeedsSnapshotAgain(k, o) ==
    o \in DOMAIN keeper[k].copy => get_epoch(keeper[k].copy[o]) <= keeper[k].epoch

\* Mutant: an operator that is not found in the snapshot is passed over.
NeedsSnapshotWhenFound(k, o) ==
    o \in DOMAIN keeper[k].copy /\ get_epoch(keeper[k].copy[o]) < keeper[k].epoch

\* operator_needs_snapshot, and the test of crank_snapshot_unupdated.
NeedsSnapshot(k, o) ==
    o \in DOMAIN keeper[k].copy => get_epoch(keeper[k].copy[o]) < keeper[k].epoch

\* All operators that opted in are looked up in the copy read before.
ReadOperators(k) ==
    /\ keeper[k].pc = "operators"
    /\ \/ Becomes(k, [keeper[k] EXCEPT !.pc = "decide",
                        !.should_snapshot = \E o \in opted_in : NeedsSnapshot(k, o)])
       \/ Fail(k, keeper[k])
    /\ UNCHANGED chainVars

\* Phase 3.
Decide(k) ==
    /\ keeper[k].pc = "decide"
    /\ Becomes(k, [keeper[k] EXCEPT !.pc = IF keeper[k].should_snapshot THEN "registry" ELSE "sleep"])
    /\ UNCHANGED chainVars

\* crank_snapshot_unupdated.
ReadRegistry(k) ==
    /\ keeper[k].pc = "registry"
    /\ \/ Becomes(k, [keeper[k] EXCEPT !.pc = IF vault_listed THEN "snapshot" ELSE "sleep"])
       \/ Fail(k, keeper[k])
    /\ UNCHANGED chainVars

ReadSnapshot(k) ==
    /\ keeper[k].pc = "snapshot"
    /\ \/ Becomes(k, [keeper[k] EXCEPT !.pc = "vault", !.copy = Snapshot])
       \/ Fail(k, keeper[k])
    /\ UNCHANGED chainVars

\* Mutant: the vault is left to others.
UpdateFirstVaultNever(k) ==
    /\ keeper[k].pc = "vault"
    /\ Becomes(k, [keeper[k] EXCEPT !.pc = "crank",
                     !.due = {o \in DOMAIN keeper[k].copy : NeedsSnapshot(k, o)}])
    /\ UNCHANGED chainVars

\* full_vault_update, whose failure is logged, and then the list to crank.
UpdateFirstVault(k) ==
    /\ keeper[k].pc = "vault"
    /\ \/ /\ Becomes(k, [keeper[k] EXCEPT !.pc = "crank",
                           !.due = {o \in DOMAIN keeper[k].copy : NeedsSnapshot(k, o)}])
          /\ UpdateVault \/ (~rpc_responds /\ UNCHANGED chainVars)
       \/ Fail(k, keeper[k]) /\ (UpdateVault \/ UNCHANGED chainVars)

\* One operator: the crank, or its failure, which is only counted.
CrankNext(k, o) ==
    /\ keeper[k].pc = "crank"
    /\ o \in keeper[k].due
    /\ Becomes(k, [keeper[k] EXCEPT !.due = @ \ {o}])
    /\ \/ CrankOperator(o)
       \/ (CanCrank(o) => ~rpc_responds) /\ UNCHANGED chainVars

CrankEnd(k) ==
    /\ keeper[k].pc = "crank"
    /\ keeper[k].due = {}
    /\ Becomes(k, [keeper[k] EXCEPT !.pc = "sleep"])
    /\ UNCHANGED chainVars

WakeUp(k) ==
    /\ keeper[k].pc = "sleep"
    /\ Becomes(k, [keeper[k] EXCEPT !.pc = "epoch"])
    /\ UNCHANGED chainVars

KeeperStep(k) ==
    \/ CheckEpoch(k) \/ ReadState(k) \/ ReadOperators(k) \/ Decide(k)
    \/ ReadRegistry(k) \/ ReadSnapshot(k) \/ UpdateFirstVault(k)
    \/ (\E o \in Operators : CrankNext(k, o)) \/ CrankEnd(k) \/ WakeUp(k)

RpcRecovers ==
    /\ ~rpc_responds
    /\ rpc_responds' = TRUE
    /\ UNCHANGED <<chainVars, keeper>>

KeeperNext ==
    \/ ChainStep /\ UNCHANGED <<rpc_responds, keeper>>
    \/ RpcRecovers
    \/ \E k \in Keepers : KeeperStep(k) /\ UNCHANGED rpc_responds

\* The loop has no end and the RPC node works at last; nothing else has to
\* happen: nobody else cranks, no vault is updated but by a keeper.
KeeperFairness ==
    /\ WF_keeperVars(RpcRecovers)
    /\ \A k \in Keepers : WF_keeperVars(KeeperStep(k) /\ UNCHANGED rpc_responds)

KeeperSafety == KeeperInit /\ [][KeeperNext]_keeperVars
KeeperSpec == KeeperSafety /\ KeeperFairness

-------------------------------------------------------------------------------
(***************************************************************************)
(* Properties                                                              *)
(***************************************************************************)

\* keeper_loop.rs:165, "all operators are up to date": when the keeper has compared
\* its operators with its copy of the snapshot and finds nothing to do, every
\* operator in the snapshot has been cranked in the keeper's epoch, whoever was
\* registered or removed since the copy was read.  The line is also logged when
\* nothing was compared, because the epoch fell back to 0 before the first fetch
\* and the address is still the default: then it says nothing about the chain.
SaysUpToDateTruly ==
    [][\A k \in Keepers :
         keeper[k].pc = "operators" /\ keeper'[k].pc = "decide" /\ ~keeper'[k].should_snapshot
         => \A o \in registered : get_epoch(last_snapshot_slot[o]) >= keeper[k].epoch]_keeperVars

\* An operator's marker is in no later epoch than the last update of the vault: no
\* crank counts stake of an epoch for which the vault was not updated.
CrankedAfterUpdate ==
    \A o \in registered : get_epoch(last_snapshot_slot[o]) <= vault_epoch

CrankedIn(o, e) ==
    (o \in registered /\ vault_listed /\ get_epoch(slot) = e)
      ~> (get_epoch(last_snapshot_slot[o]) >= e \/ get_epoch(slot) > e \/ o \in removed)

\* keeper_loop.rs:26, "taking snapshots when operators are due for updates": an
\* operator that the first vault delegates to is cranked in every epoch that
\* lasts, although each read may be stale when it is used, registrations,
\* removals and other crankers come in between, and reads and transactions
\* fail for a while.
CrankedInEveryEpoch ==
    \A o \in Delegated, e \in 1 .. get_epoch(MAX_SLOT) : CrankedIn(o, e)

\* instructions.rs:1038: when the epoch lasts, a keeper ends up cranking only
\* operators that cannot be cranked.  Those in the snapshot without a delegation
\* account of the first vault are tried, and fail, in every round, as they are
\* never up to date; everybody else is cranked once and left alone, although
\* should_snapshot stays set for them and for operators that opted in and never
\* register, and the list is made anew from a stale copy each time.
OnlyFailuresAreRetried == \A k \in Keepers : <>[](keeper[k].due \cap Delegated = {})
===============================================================================
