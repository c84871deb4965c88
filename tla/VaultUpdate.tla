------------------------------ MODULE VaultUpdate ------------------------------
(***************************************************************************)
(* full_vault_update: the reads and transactions with which a client       *)
(* brings a vault into the current epoch, run by several clients at once.  *)
(* The vault program is external: a tracker account per epoch, a crank per *)
(* delegation in the order of their indices from epoch % count on, and a   *)
(* close that records the epoch in the vault once all are cranked.  Keeper *)
(* takes the whole call for one step; OneCallIsEnough is its licence.      *)
(***************************************************************************)
EXTENDS Integers, Sequences

CONSTANTS
    Clients,
    MAX_DELEGATIONS,    \* bound on the delegations of the vault
    MAX_CLOCK_EPOCH     \* bound on the clock

ASSUME VaultUpdateAssumption == MAX_DELEGATIONS \in Nat /\ MAX_CLOCK_EPOCH \in Nat

VARIABLES
    clock_epoch,        \* of the clock
    vault_epoch,        \* of the last full update of the vault
    delegation_epoch,   \* of the last update of each delegation, by its index
    tracker,            \* last_updated_index of each epoch's tracker, if it exists
    rpc_responds,       \* from now on no read and no transaction fails
    client

vault == <<vault_epoch, delegation_epoch, tracker>>
vaultUpdateVars == <<clock_epoch, vault, rpc_responds, client>>

NONE == -2              \* no tracker account
MAX == -1               \* u64::MAX, nothing cranked yet
Epochs == 0 .. MAX_CLOCK_EPOCH
operator_count == Len(delegation_epoch)
is_update_needed(v, e) == v < e

ClientPCs == {"slot", "vault", "slot again", "tracker", "initialize", "operators", "index",
        "crank", "closing", "close", "ok", "error"}

\* began and undisturbed are history: the epoch the call began in, and whether
\* none of its own reads and transactions was lost.
ClientState ==
    [pc: ClientPCs, ncn_epoch: Epochs, vault_epoch: Epochs, operators: Seq(Nat),
     index: Nat, sent: 0 .. MAX_DELEGATIONS, began: Epochs, undisturbed: BOOLEAN]

VaultUpdateTypeOK ==
    /\ clock_epoch \in Epochs
    /\ vault_epoch \in 0 .. clock_epoch
    /\ operator_count <= MAX_DELEGATIONS
    /\ \A i \in 1 .. operator_count : delegation_epoch[i] \in vault_epoch .. clock_epoch
    /\ tracker \in [Epochs -> {NONE, MAX} \cup 0 .. (operator_count - 1)]
    /\ \A e \in Epochs : tracker[e] # NONE => vault_epoch < e \/ e < clock_epoch
    /\ rpc_responds \in BOOLEAN
    /\ client \in [Clients -> ClientState]

VaultUpdateInit ==
    /\ clock_epoch = 0
    /\ vault_epoch = 0
    /\ delegation_epoch = <<>>
    /\ tracker = [e \in Epochs |-> NONE]
    /\ rpc_responds = FALSE
    /\ client = [c \in Clients |->
                   [pc |-> "ok", ncn_epoch |-> 0, vault_epoch |-> 0, operators |-> <<>>,
                    index |-> 0, sent |-> 0, began |-> 0, undisturbed |-> FALSE]]

-------------------------------------------------------------------------------
(***************************************************************************)
(* The clock and the vault program                                         *)
(***************************************************************************)

Tick ==
    /\ clock_epoch < MAX_CLOCK_EPOCH
    /\ clock_epoch' = clock_epoch + 1
    /\ UNCHANGED <<vault, rpc_responds, client>>

RpcRecovers ==
    /\ ~rpc_responds
    /\ rpc_responds' = TRUE
    /\ UNCHANGED <<clock_epoch, vault, client>>

\* Delegations are added to a vault that is up to date.
AddDelegation ==
    /\ operator_count < MAX_DELEGATIONS
    /\ ~is_update_needed(vault_epoch, clock_epoch)
    /\ delegation_epoch' = Append(delegation_epoch, clock_epoch)
    /\ UNCHANGED <<clock_epoch, vault_epoch, tracker, rpc_responds, client>>

\* Initialize, crank and close are transactions that change the vault or fail.
CanInitialize(e) == e = clock_epoch /\ tracker[e] = NONE /\ is_update_needed(vault_epoch, clock_epoch)
InitializeTracker(e) ==
    /\ tracker' = [tracker EXCEPT ![e] = MAX]
    /\ UNCHANGED <<vault_epoch, delegation_epoch>>

NextIndex(e, n) == (IF tracker[e] = MAX THEN e ELSE tracker[e] + 1) % n

CanCrank(e, i) ==
    /\ e = clock_epoch
    /\ tracker[e] # NONE
    /\ i = NextIndex(e, operator_count)
    /\ delegation_epoch[i + 1] < clock_epoch
CrankDelegation(e, i) ==
    /\ tracker' = [tracker EXCEPT ![e] = i]
    /\ delegation_epoch' = [delegation_epoch EXCEPT ![i + 1] = clock_epoch]
    /\ UNCHANGED vault_epoch

CanClose(e) ==
    /\ tracker[e] # NONE
    /\ e = clock_epoch => \A i \in 1 .. operator_count : delegation_epoch[i] = clock_epoch
CloseTracker(e) ==
    /\ tracker' = [tracker EXCEPT ![e] = NONE]
    /\ vault_epoch' = IF e = clock_epoch THEN clock_epoch ELSE vault_epoch
    /\ UNCHANGED delegation_epoch

-------------------------------------------------------------------------------
(***************************************************************************)
(* full_vault_update                                                       *)
(***************************************************************************)

\* What a call has read ends with it.
ClientBecomes(c, state) ==
    client' = [client EXCEPT ![c] =
                 IF state.pc \in {"ok", "error"}
                 THEN [state EXCEPT !.ncn_epoch = 0, !.vault_epoch = 0, !.operators = <<>>,
                                    !.index = 0, !.sent = 0]
                 ELSE state]

\* A read that succeeds with `state`, or fails and ends the call.
Read(c, state) ==
    /\ \/ ClientBecomes(c, state)
       \/ ~rpc_responds /\ ClientBecomes(c, [client[c] EXCEPT !.pc = "error", !.undisturbed = FALSE])
    /\ UNCHANGED vault

\* A transaction that lands, fails on chain, or is lost; an error is only logged.
\* One that landed may be reported as lost.
Send(c, state, enabled, effect) ==
    \/ ClientBecomes(c, state) /\ enabled /\ effect
    \/ ClientBecomes(c, state) /\ ~enabled /\ UNCHANGED vault
    \/ ~rpc_responds /\ ClientBecomes(c, [state EXCEPT !.undisturbed = FALSE]) /\ UNCHANGED vault

Call(c) ==
    /\ client[c].pc \in {"ok", "error"}
    /\ ClientBecomes(c, [client[c] EXCEPT !.pc = "slot", !.began = clock_epoch, !.undisturbed = TRUE])
    /\ UNCHANGED vault

ReadSlot(c) ==
    /\ client[c].pc = "slot"
    /\ Read(c, [client[c] EXCEPT !.pc = "vault", !.ncn_epoch = clock_epoch])

ReadVault(c) ==
    /\ client[c].pc = "vault"
    /\ Read(c, [client[c] EXCEPT !.pc = "slot again", !.vault_epoch = vault_epoch])

ReadSlotAgain(c) ==
    /\ client[c].pc = "slot again"
    /\ Read(c, [client[c] EXCEPT !.pc =
                  IF is_update_needed(client[c].vault_epoch, clock_epoch) THEN "tracker" ELSE "ok"])

LookForTracker(c) ==
    /\ client[c].pc = "tracker"
    /\ Read(c, [client[c] EXCEPT !.pc =
                  IF tracker[client[c].ncn_epoch] = NONE THEN "initialize" ELSE "operators"])

SendInitialize(c) ==
    /\ client[c].pc = "initialize"
    /\ LET e == client[c].ncn_epoch
       IN  Send(c, [client[c] EXCEPT !.pc = "operators"], CanInitialize(e), InitializeTracker(e))

\* Mutant: the order in which the node returns the accounts.
operators_unsorted(n) == [i \in 1 .. n |-> n - i]

\* The operators of n delegations, sorted by the delegations' indices, each
\* named by the index.
get_all_sorted_operators_for_vault(n) == [i \in 1 .. n |-> i - 1]

ReadOperators(c) ==
    /\ client[c].pc = "operators"
    /\ LET operators == get_all_sorted_operators_for_vault(operator_count)
       IN  Read(c, [client[c] EXCEPT !.operators = operators, !.sent = 0,
                      !.pc = IF operators = <<>> THEN "closing" ELSE "index"])

\* The tracker must exist now.
ReadIndex(c) ==
    /\ client[c].pc = "index"
    /\ LET e == client[c].ncn_epoch
       IN  IF tracker[e] = NONE THEN Read(c, [client[c] EXCEPT !.pc = "error"])
           ELSE Read(c, [client[c] EXCEPT !.pc = "crank",
                           !.index = NextIndex(e, Len(client[c].operators))])

\* Mutant: one operator too few.
SendCranksButOne(c) ==
    /\ client[c].pc = "crank"
    /\ LET n == Len(client[c].operators)
           i == client[c].operators[((client[c].index + client[c].sent) % n) + 1]
           e == client[c].ncn_epoch
       IN  IF client[c].sent + 1 >= n
           THEN ClientBecomes(c, [client[c] EXCEPT !.pc = "closing"]) /\ UNCHANGED vault
           ELSE Send(c, [client[c] EXCEPT !.sent = @ + 1], CanCrank(e, i), CrankDelegation(e, i))

\* Every operator once, from that index on and around.
SendCranks(c) ==
    /\ client[c].pc = "crank"
    /\ LET n == Len(client[c].operators)
           i == client[c].operators[((client[c].index + client[c].sent) % n) + 1]
           e == client[c].ncn_epoch
       IN  Send(c, [client[c] EXCEPT !.sent = @ + 1,
                                     !.pc = IF client[c].sent + 1 = n THEN "closing" ELSE "crank"],
                CanCrank(e, i), CrankDelegation(e, i))

LookForTrackerAgain(c) ==
    /\ client[c].pc = "closing"
    /\ Read(c, [client[c] EXCEPT !.pc = IF tracker[client[c].ncn_epoch] = NONE THEN "ok" ELSE "close"])

SendClose(c) ==
    /\ client[c].pc = "close"
    /\ LET e == client[c].ncn_epoch
       IN  Send(c, [client[c] EXCEPT !.pc = "ok"], CanClose(e), CloseTracker(e))

ClientStep(c) ==
    /\ \/ Call(c) \/ ReadSlot(c) \/ ReadVault(c) \/ ReadSlotAgain(c)
       \/ LookForTracker(c) \/ SendInitialize(c) \/ ReadOperators(c) \/ ReadIndex(c)
       \/ SendCranks(c) \/ LookForTrackerAgain(c) \/ SendClose(c)
    /\ UNCHANGED <<clock_epoch, rpc_responds>>

VaultUpdateNext ==
    \/ Tick
    \/ RpcRecovers
    \/ AddDelegation
    \/ \E c \in Clients : ClientStep(c)

\* Clients call again and again, as the keeper's loop does, and finish their calls.
VaultUpdateSpec ==
    /\ VaultUpdateInit
    /\ [][VaultUpdateNext]_vaultUpdateVars
    /\ WF_vaultUpdateVars(RpcRecovers)
    /\ \A c \in Clients : WF_vaultUpdateVars(ClientStep(c))

-------------------------------------------------------------------------------
(***************************************************************************)
(* Properties                                                              *)
(***************************************************************************)

\* crank_snapshot_unupdated cranks the operators right after one call of
\* full_vault_update: when none of the call's own reads and transactions was
\* lost and the epoch did not change, the vault is in that epoch when the call
\* ends, with or without an error and whatever the other clients, slow,
\* interrupted or ahead, did to the same tracker meanwhile.
OneCallIsEnough ==
    \A c \in Clients :
        (/\ client[c].pc \in {"ok", "error"}
         /\ client[c].undisturbed
         /\ client[c].began = clock_epoch) => vault_epoch = clock_epoch

\* After lost transactions and abandoned calls an epoch that lasts still sees
\* the vault updated: what a call left behind never blocks the next one.
UpdatedInEveryEpoch ==
    \A e \in Epochs : (clock_epoch = e) ~> (vault_epoch = e \/ clock_epoch > e)
===============================================================================
