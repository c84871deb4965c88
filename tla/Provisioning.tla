----------------------------- MODULE Provisioning -----------------------------
(***************************************************************************)
(* The CLI and the keeper as they bring the accounts of an NCN into being: *)
(* get_or_create_snapshot and create_vault_registry, each a sequence of    *)
(* reads and transactions, interleaved with each other and with what       *)
(* anybody else does to the accounts.                                      *)
(*                                                                         *)
(* send_transactions gives a transaction several attempts.  Of an attempt  *)
(* the client learns only whether it was confirmed: one that was lost, one *)
(* that landed and failed and one that landed and whose confirmation was   *)
(* lost look the same, and all are sent again with a new blockhash.        *)
(***************************************************************************)
EXTENDS SnapshotAccount

CONSTANTS
    Clients,          \* running processes
    Job,              \* what each provides: "snapshot" or "vault_registry"
    Retries,          \* handler.retries
    FaultModels,      \* sets of faults, of {"lost", "unreported", "interrupted"}
    StartLamports     \* what the account payer may have been funded with

ASSUME ProvisioningAssumption ==
    /\ Job \in [Clients -> {"snapshot", "vault_registry"}]
    /\ Retries \in Nat
    /\ StartLamports \subseteq Nat

VARIABLES
    client,
    faults            \* what may go wrong, in the whole behaviour

provisioningVars == <<accounts, client, faults>>

PCs == {"read", "init", "grow", "created", "get", "done", "failed"}
Client == [pc: PCs, tries: 0 .. Retries]

\* The admin has funded the payer and created the Config.
ProvisioningInit ==
    /\ \E admin \in Admins, args \in ConfigArgs, funded \in StartLamports :
         accounts \in InitializeConfig(
             [config |-> None, snapshot |-> None, vault_registry |-> None,
              lamports |-> [p \in Paying |-> IF p = "payer" THEN funded ELSE 0],
              ncn_admin |-> admin, slot |-> 0], admin, args, admin)
    /\ client = [c \in Clients |-> [pc |-> "read", tries |-> 0]]
    /\ faults \in FaultModels

-------------------------------------------------------------------------------
(***************************************************************************)
(* Transactions                                                            *)
(***************************************************************************)

Greatest(a, b) == IF a >= b THEN a ELSE b

\* Mutant: one reallocation short.
num_reallocs_floored == Greatest(SIZE \div MAX_REALLOC_BYTES - 1, 1)

num_reallocs == Greatest((SIZE + MAX_REALLOC_BYTES - 1) \div MAX_REALLOC_BYTES - 1, 1)

\* A transaction is atomic: it has an outcome only if all its instructions do.
Reallocated(a) ==
    LET after[n \in 0 .. num_reallocs] ==
          IF n = 0 THEN {a} ELSE UNION {ReallocSnapshot(b) : b \in after[n - 1]}
    IN  after[num_reallocs]

\* The transaction a client is sending.  create_vault_registry sends a second
\* one that holds nothing but the compute budget.
Outcomes(c, a) ==
    CASE Job[c] = "snapshot" /\ client[c].pc = "init" -> InitializeSnapshot(a)
      [] Job[c] = "snapshot" /\ client[c].pc = "grow" -> Reallocated(a)
      [] Job[c] = "vault_registry" /\ client[c].pc = "init" -> InitializeVaultRegistry(a)
      [] Job[c] = "vault_registry" /\ client[c].pc = "grow" -> {a}

-------------------------------------------------------------------------------
(***************************************************************************)
(* Clients                                                                 *)
(***************************************************************************)

Goto(c, pc) == client' = [client EXCEPT ![c] = [pc |-> pc, tries |-> 0]]

\* An absent account, and a snapshot that is too short, are (re)created.
Missing(c) ==
    IF Job[c] = "vault_registry" THEN accounts.vault_registry = None
    ELSE accounts.snapshot = None \/ (accounts.snapshot # None /\ accounts.snapshot.len < SIZE)

Found(c) == IF Job[c] = "snapshot" THEN "get" ELSE "grow"

Read(c) ==
    /\ client[c].pc = "read"
    /\ Goto(c, IF Missing(c) THEN "init" ELSE Found(c))
    /\ UNCHANGED accounts

Sending(c) == client[c].pc \in {"init", "grow"}

\* Mutant: the account is taken for provided once it is created.
AfterSendingFirst(c) == "done"

AfterSending(c) ==
    CASE client[c].pc = "init" -> "grow"
      [] client[c].pc = "grow" -> IF Job[c] = "snapshot" THEN "created" ELSE "done"

SendConfirmed(c) ==
    /\ Sending(c)
    /\ accounts' \in Outcomes(c, accounts)
    /\ Goto(c, AfterSending(c))

\* One attempt without a confirmation; after the last the command fails.
TryAgain(c) ==
    client' = [client EXCEPT ![c] =
                 IF @.tries < Retries THEN [pc |-> @.pc, tries |-> @.tries + 1]
                 ELSE [pc |-> "failed", tries |-> 0]]

SendFailed(c) ==
    /\ Sending(c)
    /\ TryAgain(c)
    /\ \/ Outcomes(c, accounts) = {} /\ UNCHANGED accounts
       \/ "lost" \in faults /\ UNCHANGED accounts
       \/ "unreported" \in faults /\ accounts' \in Outcomes(c, accounts)

\* check_created: accounts are not closed, so it is there.
CheckCreated(c) ==
    /\ client[c].pc = "created"
    /\ accounts.snapshot # None
    /\ Goto(c, "get")
    /\ UNCHANGED accounts

\* get_snapshot decodes the account, which fails without a discriminator.
GetSnapshot(c) ==
    /\ client[c].pc = "get"
    /\ Goto(c, IF accounts.snapshot.initialized THEN "done" ELSE "failed")
    /\ UNCHANGED accounts

\* An RPC error anywhere in between, or the end of the process.
Interrupted(c) ==
    /\ "interrupted" \in faults
    /\ client[c].pc \notin {"done", "failed"}
    /\ Goto(c, "failed")
    /\ UNCHANGED accounts

\* The command is run again, the keeper started again.
Restart(c) ==
    /\ client[c].pc = "failed"
    /\ Goto(c, "read")
    /\ UNCHANGED accounts

Step(c) == Read(c) \/ SendConfirmed(c) \/ SendFailed(c) \/ CheckCreated(c) \/ GetSnapshot(c) \/ Restart(c)

\* Whoever else is around, in the behaviours in which something may go wrong.
Others ==
    /\ faults # {}
    /\ UNCHANGED client
    /\ \/ accounts' \in ReallocSnapshot(accounts)
       \/ accounts' \in UseSnapshot(accounts)
       \/ \E account \in Paying, amount \in Deposits : accounts' \in Transfer(accounts, account, amount)

ProvisioningNext ==
    /\ (\E c \in Clients : Step(c) \/ Interrupted(c)) \/ Others
    /\ UNCHANGED faults

\* Every process goes on and is started again, and a transaction that can be
\* executed whenever it is sent gets confirmed at last.  Nobody else has to act.
ProvisioningFairness ==
    \A c \in Clients : /\ WF_provisioningVars(Step(c) /\ UNCHANGED faults)
                       /\ SF_provisioningVars(SendConfirmed(c) /\ UNCHANGED faults)

ProvisioningSafety == ProvisioningInit /\ [][ProvisioningNext]_provisioningVars
ProvisioningSpec == ProvisioningSafety /\ ProvisioningFairness

-------------------------------------------------------------------------------
(***************************************************************************)
(* Properties                                                              *)
(***************************************************************************)

ProvisioningTypeOK == AccountsTypeOK /\ client \in [Clients -> Client]

\* instructions.rs:926, keeper_loop.rs:70: a keeper that enters its main loop
\* has a snapshot it can decode, whoever made it and whatever was retried.
DoneMeansProvided ==
    \A c \in Clients : client[c].pc = "done" =>
        IF Job[c] = "snapshot"
        THEN accounts.snapshot # None /\ accounts.snapshot.len >= SIZE /\ accounts.snapshot.initialized
        ELSE accounts.vault_registry # None

\* keeper_loop.rs:54, "Ensure required accounts exist before starting the main
\* loop": each process gets its account.
EveryoneProvided == \A c \in Clients : <>(client[c].pc = "done")

\* The same where nothing is lost or interrupted and the payer can afford both
\* accounts: two processes that create the same account at once do not block
\* each other, whoever's transactions come first.
ProvidedWithoutFaults ==
    (/\ faults = {}
     /\ accounts.lamports["payer"] >= minimum_balance(SIZE) + minimum_balance(REGISTRY_SIZE))
      => EveryoneProvided
===============================================================================
