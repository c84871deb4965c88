-------------------------------- MODULE Commands --------------------------------
(***************************************************************************)
(* The CLI's commands that change the chain, from the arguments of a user  *)
(* to the transactions that land.  A command becomes a list of             *)
(* instructions, each sent in a transaction of its own; send_transactions  *)
(* gives each one retries + 1 attempts, every attempt with a blockhash,    *)
(* and so a signature, of its own.  The program executes whichever of them *)
(* reach it.                                                               *)
(*                                                                         *)
(* What the program does with an instruction is reduced to what tells its  *)
(* executions apart; the modules of the program have the rest.             *)
(***************************************************************************)
EXTENDS Integers, FiniteSets, Sequences, SequencesExt

CONSTANTS
    Processes, Keypair,          \* who runs commands, and their signer
    Keys,                        \* those signers, and keys users name
    NcnAdmin, OperatorAdmin,
    NcnOperators, NcnVaults,     \* those with a ticket of the NCN
    SupportedMint,               \* of every vault there is
    Delegated,                   \* operators whose stake can be read
    U8, U16,                     \* how many values the types have
    MAX_FEE_BPS, MAX_EPOCHS_BEFORE_STALL,
    LAMPORT,                     \* how many of the units amounts are given in
    Sessions,                    \* what users set out to do, and under what conditions
    None

\* The commands and their arguments; None for an option that is not given.
ProgramCommand ==
    [command: {"AdminCreateConfig"}, tie_breaker_admin: Keys \cup {None},
     epochs_before_stall: Nat, ncn_fee_bps: Nat]
    \cup [command: {"AdminSetParameters"}, epochs_before_stall: Nat \cup {None}]
    \cup [command: {"AdminSetNewAdmin"}, new_admin: Keys, set_tie_breaker_admin: BOOLEAN]
    \cup [command: {"AdminFundAccountPayer"}, amount: Nat]
    \cup [command: {"AdminRegisterStMint", "RegisterVault"}, vault: DOMAIN SupportedMint]
    \cup [command: {"RegisterOperator", "RemoveOperator"}, operator: NcnOperators]
    \cup [command: {"UpdateOperatorIpPort"}, operator: NcnOperators, ip_address: Seq(Nat)]
    \cup [command: {"SnapshotVaultOperatorDelegation"}, vault: NcnVaults, operator: NcnOperators]
    \cup [command: {"VerifyCertificate"}, expected_generation: Nat \cup {None}]
    \cup [command: {"CrankRegisterVaults", "CrankSnapshot"}]

Config == [tie_breaker_admin: Keys, epochs_before_stall: Nat, ncn_fee_bps: Nat]

\* config is that of the ledger at the start, None for no account; requests are
\* the commands the users run, max_commands how many of them: a bound of the
\* model; retries is handler.retries, faults is of {"lost", "rpc"}.
ASSUME CommandsAssumption ==
    \A s \in Sessions :
        /\ DOMAIN s = {"config", "requests", "max_commands", "retries", "faults"}
        /\ s.config \in Config \cup {None}
        /\ s.requests \subseteq ProgramCommand
        /\ s.retries \in Nat /\ s.max_commands \in Nat
        /\ s.faults \subseteq {"lost", "rpc"}

ASSUME LedgerAssumption ==
    /\ NcnAdmin \in Keys /\ Keypair \in [Processes -> Keys] /\ OperatorAdmin \in [NcnOperators -> Keys]
    /\ IsFiniteSet(NcnOperators) /\ IsFiniteSet(NcnVaults)
    /\ NcnVaults \subseteq DOMAIN SupportedMint
    /\ MAX_FEE_BPS \in Nat /\ MAX_EPOCHS_BEFORE_STALL \in Nat
    /\ LAMPORT \in Nat \ {0}
    /\ None \notin Config

VARIABLES
    session,      \* one of Sessions, in the whole behaviour
    ledger,       \* the accounts
    network,      \* attempts that have a status or may get one
    process,
    commands      \* how many commands were started

commandsVars == <<session, ledger, network, process, commands>>

CommandsInit ==
    /\ session \in Sessions
    /\ ledger = [config |-> session.config, payer |-> 0, mints |-> {}, vaults |-> <<>>,
                 operators |-> [o \in NcnOperators |-> "none"],
                 address |-> [o \in NcnOperators |-> None],
                 counted |-> {}, generation |-> 0]
    /\ network = {}
    /\ process = [p \in Processes |->
                    [pc |-> "idle", todo |-> <<>>, stops |-> TRUE, goal |-> {}, tries |-> 0,
                     transaction |-> <<0, 0>>, result |-> None, landed |-> 0]]
    /\ commands = 0

-------------------------------------------------------------------------------
(***************************************************************************)
(* What becomes of the ledger when an instruction is executed: a set of    *)
(* one ledger, or of none where it fails.                                  *)
(***************************************************************************)

When(guard, l) == IF guard THEN {l} ELSE {}

admin_create_config(l, i, signer) ==
    When(/\ l.config = None
         /\ signer = NcnAdmin
         /\ i.epochs_before_stall \in 1 .. MAX_EPOCHS_BEFORE_STALL
         /\ i.ncn_fee_bps <= MAX_FEE_BPS,
         [l EXCEPT !.config =
            [tie_breaker_admin |-> IF i.tie_breaker_admin = None THEN signer ELSE i.tie_breaker_admin,
             epochs_before_stall |-> i.epochs_before_stall,
             ncn_fee_bps |-> i.ncn_fee_bps]])

\* The mint is the one the vault supports, read before it is sent.
admin_register_st_mint(l, i, signer) ==
    When(/\ l.config # None
         /\ signer = NcnAdmin
         /\ SupportedMint[i.vault] \notin l.mints,
         [l EXCEPT !.mints = @ \cup {SupportedMint[i.vault]}])

admin_set_new_admin(l, i, signer) ==
    When(l.config # None /\ signer = NcnAdmin,
         [l EXCEPT !.config.tie_breaker_admin = i.new_admin])

\* An option that is not given stays as it is.
admin_set_parameters(l, i, signer) ==
    When(/\ l.config # None
         /\ signer = NcnAdmin
         /\ i.epochs_before_stall \in 1 .. MAX_EPOCHS_BEFORE_STALL \cup {None},
         [l EXCEPT !.config.epochs_before_stall =
            IF i.epochs_before_stall = None THEN @ ELSE i.epochs_before_stall])

admin_fund_account_payer(l, i) ==
    {[l EXCEPT !.payer = @ + i.amount]}

RegisteredVaults(l) == {l.vaults[k] : k \in DOMAIN l.vaults}

\* A vault that is registered already is no error.
register_vault(l, i) ==
    When(/\ l.config # None
         /\ i.vault \in NcnVaults
         /\ SupportedMint[i.vault] \in l.mints,
         [l EXCEPT !.vaults = IF i.vault \in RegisteredVaults(l) THEN @ ELSE Append(@, i.vault)])

\* Mutant: an operator's account is written over.
register_operator_again(l, i, signer) ==
    When(/\ l.config # None
         /\ signer = OperatorAdmin[i.operator],
         [l EXCEPT !.operators[i.operator] = "active", !.generation = @ + 1])

\* The account is created, and never closed.
register_operator(l, i, signer) ==
    When(/\ l.config # None
         /\ signer = OperatorAdmin[i.operator]
         /\ l.operators[i.operator] = "none",
         [l EXCEPT !.operators[i.operator] = "active", !.generation = @ + 1])

update_operator_ip_port(l, i, signer) ==
    When(/\ l.operators[i.operator] # "none"
         /\ signer = OperatorAdmin[i.operator],
         [l EXCEPT !.address[i.operator] = i.ip_address])

remove_operator(l, i, signer) ==
    When(/\ signer \in {NcnAdmin, OperatorAdmin[i.operator]}
         /\ l.operators[i.operator] = "active",
         [l EXCEPT !.operators[i.operator] = "removed",
                   !.counted = @ \ {i.operator},
                   !.generation = @ + 1])

snapshot_vault_operator_delegation(l, i) ==
    When(/\ i.vault \in RegisteredVaults(l)
         /\ l.operators[i.operator] = "active"
         /\ i.operator \in Delegated,
         [l EXCEPT !.counted = @ \cup {i.operator}])

verify_certificate(l, i) == When(l.generation = i.expected_generation, l)

Executed(l, i, signer) ==
    CASE i.command = "AdminCreateConfig" -> admin_create_config(l, i, signer)
      [] i.command = "AdminRegisterStMint" -> admin_register_st_mint(l, i, signer)
      [] i.command = "AdminSetNewAdmin" -> admin_set_new_admin(l, i, signer)
      [] i.command = "AdminSetParameters" -> admin_set_parameters(l, i, signer)
      [] i.command = "AdminFundAccountPayer" -> admin_fund_account_payer(l, i)
      [] i.command = "RegisterVault" -> register_vault(l, i)
      [] i.command = "RegisterOperator" -> register_operator(l, i, signer)
      [] i.command = "UpdateOperatorIpPort" -> update_operator_ip_port(l, i, signer)
      [] i.command = "RemoveOperator" -> remove_operator(l, i, signer)
      [] i.command = "SnapshotVaultOperatorDelegation" -> snapshot_vault_operator_delegation(l, i)
      [] i.command = "VerifyCertificate" -> verify_certificate(l, i)

-------------------------------------------------------------------------------
(***************************************************************************)
(* From a command to its instructions                                      *)
(***************************************************************************)

parse_ip_address(ip) == Len(ip) = 4 /\ \A k \in DOMAIN ip : ip[k] < U8

\* What is less than a lamport is dropped.
sol_to_lamports(amount) == amount \div LAMPORT

\* Mutant: numbers are cut to the width of their type.
CutToWidth(r) ==
    CASE r.command = "AdminCreateConfig" -> {[r EXCEPT !.ncn_fee_bps = @ % U16]}
      [] r.command = "AdminFundAccountPayer" -> {[r EXCEPT !.amount = sol_to_lamports(@)]}
      [] r.command = "UpdateOperatorIpPort" ->
           When(Len(r.ip_address) = 4,
                [r EXCEPT !.ip_address = [k \in DOMAIN r.ip_address |-> r.ip_address[k] % U8]])
      [] OTHER -> {r}

\* The conversions of the arguments; the first two can fail.
Converted(r) ==
    CASE r.command = "AdminCreateConfig" -> When(r.ncn_fee_bps < U16, r)
      [] r.command = "UpdateOperatorIpPort" -> When(parse_ip_address(r.ip_address), r)
      [] r.command = "AdminFundAccountPayer" -> {[r EXCEPT !.amount = sol_to_lamports(@)]}
      [] OTHER -> {r}

ForEach(S, Instruction(_)) ==
    LET s == SetToSeq(S) IN [k \in DOMAIN s |-> Instruction(s[k])]

RegisterVaultOf(vault) == [command |-> "RegisterVault", vault |-> vault]
Snapshotted(vault, operator) ==
    [command |-> "SnapshotVaultOperatorDelegation", vault |-> vault, operator |-> operator]

\* All vaults with a ticket that are not in the registry.
crank_register_vaults == ForEach(NcnVaults \ RegisteredVaults(ledger), RegisterVaultOf)

\* All operators with a state at the NCN, for the registry's first vault; an
\* empty registry ends the command.  The snapshot is there by then (Provisioning
\* has its creation; NotBegun if that fails), and the vault is updated if it
\* could be (VaultUpdate; a failure is logged, and the list is sent all the same).
crank_snapshot ==
    ForEach({o \in NcnOperators : ledger.vaults # <<>>},
            LAMBDA o : Snapshotted(Head(ledger.vaults), o))

\* Unless the role is named, nothing is sent; by default a certificate is
\* checked against the snapshot's present generation.
Instructions(r) ==
    CASE r.command = "CrankRegisterVaults" -> crank_register_vaults
      [] r.command = "CrankSnapshot" -> crank_snapshot
      [] r.command = "AdminSetNewAdmin" -> IF r.set_tie_breaker_admin THEN <<r>> ELSE <<>>
      [] r.command = "VerifyCertificate" /\ r.expected_generation = None ->
           <<[r EXCEPT !.expected_generation = ledger.generation]>>
      [] OTHER -> <<r>>

\* Mutant: a crank ends with the first vault or operator that fails.
StopsAlways(r) == TRUE

StopsAtError(r) == r.command \notin {"CrankRegisterVaults", "CrankSnapshot"}

-------------------------------------------------------------------------------
(***************************************************************************)
(* Clients                                                                 *)
(***************************************************************************)

Executable(p, i) == Executed(ledger, i, Keypair[p]) # {}

\* The first transaction of command n, with its first attempt still to be made.
Run(p, r, i) ==
    process' = [process EXCEPT ![p] =
        [pc |-> IF i = <<>> THEN "idle" ELSE "send", todo |-> i, stops |-> StopsAtError(r),
         goal |-> {x \in ToSet(i) : Executable(p, x)}, tries |-> 0,
         transaction |-> <<commands + 1, Len(i)>>, result |-> None, landed |-> 0]]

Handle(p, r) ==
    /\ process[p].pc = "idle"
    /\ commands < session.max_commands
    /\ commands' = commands + 1
    /\ \E x \in Converted(r) : Run(p, r, Instructions(x))
    /\ UNCHANGED <<ledger, network>>

\* The node does not answer what the command reads before it sends, or
\* crank_snapshot's get_or_create_snapshot fails: the command ends.
NotBegun(p, r) ==
    /\ "rpc" \in session.faults \/ (r.command = "CrankSnapshot" /\ session.faults # {})
    /\ process[p].pc = "idle"
    /\ commands < session.max_commands
    /\ commands' = commands + 1
    /\ process' = [process EXCEPT ![p] =
          [pc |-> "idle", todo |-> <<>>, stops |-> StopsAtError(r), goal |-> {}, tries |-> 0,
           transaction |-> <<commands + 1, 0>>, result |-> "err", landed |-> 0]]
    /\ UNCHANGED <<ledger, network>>

\* On to the command's next transaction, or back to the shell.
Ended(p, result) ==
    LET rest == Tail(process[p].todo)
        over == rest = <<>> \/ (result = "err" /\ process[p].stops)
    IN  process' = [process EXCEPT
          ![p].pc = IF over THEN "idle" ELSE "send",
          ![p].todo = IF over THEN @ ELSE rest,
          ![p].transaction = IF over THEN @ ELSE <<@[1], Len(rest)>>,
          ![p].landed = IF over THEN @ ELSE 0,
          ![p].tries = IF over THEN @ ELSE 0,
          ![p].result = result]

Attempt(p) == [of |-> p, transaction |-> process[p].transaction, try |-> process[p].tries,
               instruction |-> Head(process[p].todo)]

InNetwork(a, status) == [attempt |-> a, status |-> status]

\* crank_snapshot looks for the operator's entry before it sends.
SkipOperator(p) ==
    /\ process[p].pc = "send"
    /\ ~process[p].stops
    /\ Head(process[p].todo).command = "SnapshotVaultOperatorDelegation"
    /\ ledger.operators[Head(process[p].todo).operator] # "active"
    /\ Ended(p, "err")
    /\ UNCHANGED <<ledger, network, commands>>

\* Attempts before the last skip the simulation; the last is simulated and, if
\* that fails, not sent.
Send(p) ==
    /\ process[p].pc = "send"
    /\ process[p].tries = session.retries => Executable(p, Head(process[p].todo))
    /\ network' = network \cup {InNetwork(Attempt(p), "sent")}
    /\ process' = [process EXCEPT ![p].pc = "wait"]
    /\ UNCHANGED <<ledger, commands>>

Preflight(p) ==
    /\ process[p].pc = "send"
    /\ process[p].tries = session.retries
    /\ ~Executable(p, Head(process[p].todo))
    /\ Ended(p, "err")
    /\ UNCHANGED <<ledger, network, commands>>

\* An attempt's status is kept only for a client that still asks for it.
Settled(a, status) ==
    network' = (network \ {InNetwork(a, "sent")}) \cup
        {n \in {InNetwork(a, status)} : process[a.of].pc = "wait" /\ a = Attempt(a.of)}

\* The cluster executes an attempt once.
Land(a) ==
    /\ InNetwork(a, "sent") \in network
    /\ LET outcomes == Executed(ledger, a.instruction, Keypair[a.of])
           current == process[a.of].transaction = a.transaction
       IN  /\ ledger' \in IF outcomes = {} THEN {ledger} ELSE outcomes
           /\ Settled(a, IF outcomes = {} THEN "failed" ELSE "landed")
           /\ process' = [process EXCEPT ![a.of].landed =
                IF current /\ outcomes # {} THEN @ + 1 ELSE @]
    /\ UNCHANGED commands

\* Its blockhash is too old: it will never be executed.
Expire(a) ==
    /\ "lost" \in session.faults
    /\ InNetwork(a, "sent") \in network
    /\ Settled(a, "expired")
    /\ UNCHANGED <<ledger, process, commands>>

ForgetStatus(p) ==
    network' = {n \in network : n.attempt = Attempt(p) => n.status = "sent"}

Succeeded(p) ==
    /\ process[p].pc = "wait"
    /\ InNetwork(Attempt(p), "landed") \in network
    /\ ForgetStatus(p)
    /\ Ended(p, "ok")
    /\ UNCHANGED <<ledger, commands>>

\* Mutant: it never gives up.
AgainForever(p) == process' = [process EXCEPT ![p].pc = "send"]

Again(p) ==
    IF process[p].tries < session.retries
    THEN process' = [process EXCEPT ![p].pc = "send", ![p].tries = @ + 1]
    ELSE Ended(p, "err")

\* Mutant: the client does not wait until the blockhash is too old.
NotSeenToLand == {"failed", "expired", "sent"}

\* An attempt that was executed and failed, or cannot be executed any more.
KnownNotToLand == {"failed", "expired"}

Failed(p) ==
    /\ process[p].pc = "wait"
    /\ \E status \in KnownNotToLand : InNetwork(Attempt(p), status) \in network
    /\ ForgetStatus(p)
    /\ Again(p)
    /\ UNCHANGED <<ledger, commands>>

\* The node does not answer a question about the attempt's status.
GiveUp(p) ==
    /\ "rpc" \in session.faults
    /\ process[p].pc = "wait"
    /\ ForgetStatus(p)
    /\ Again(p)
    /\ UNCHANGED <<ledger, commands>>

\* Nor the one for a blockhash, which ends send_transactions at any attempt.
NoBlockhash(p) ==
    /\ "rpc" \in session.faults
    /\ process[p].pc = "send"
    /\ Ended(p, "err")
    /\ UNCHANGED <<ledger, network, commands>>

Client(p) == Send(p) \/ SkipOperator(p) \/ Preflight(p) \/ Succeeded(p) \/ Failed(p)
Cluster == \E n \in network : Land(n.attempt) \/ Expire(n.attempt)

CommandsNext ==
    /\ \/ \E p \in Processes :
            \/ \E r \in session.requests : Handle(p, r) \/ NotBegun(p, r)
            \/ Client(p) \/ GiveUp(p) \/ NoBlockhash(p)
       \/ Cluster
    /\ UNCHANGED session

\* A client goes on, and an attempt lands or expires.
CommandsFairness ==
    /\ \A p \in Processes : WF_commandsVars(Client(p) /\ UNCHANGED session)
    /\ WF_commandsVars(Cluster /\ UNCHANGED session)

CommandsSafety == CommandsInit /\ [][CommandsNext]_commandsVars
CommandsSpec == CommandsSafety /\ CommandsFairness

-------------------------------------------------------------------------------
(***************************************************************************)
(* Properties                                                              *)
(***************************************************************************)

\* instructions.rs:1197: what a command reports of a transaction is what
\* happened, once and for all: Ok stands for one execution and an error for
\* none, neither before nor later.  It needs a node that answers.
ResultIsFinal ==
    \A p \in Processes :
        "rpc" \notin session.faults /\ process[p].pc = "idle" /\ process[p].result # None =>
            /\ process[p].landed = IF process[p].result = "ok" THEN 1 ELSE 0
            /\ \A n \in network : n.attempt.of = p => n.status # "sent"

\* handler.rs:190: the fee and the addresses on chain are ones a user asked for,
\* none is what is left of a larger number.  (An amount is rounded down.)
SettingsAreAsAsked ==
    /\ session.config = None /\ ledger.config # None =>
         \E r \in session.requests : /\ r.command = "AdminCreateConfig"
                             /\ r.ncn_fee_bps = ledger.config.ncn_fee_bps
    /\ \A o \in NcnOperators : ledger.address[o] # None =>
         \E r \in session.requests : /\ r.command = "UpdateOperatorIpPort"
                             /\ r.operator = o
                             /\ r.ip_address = ledger.address[o]

\* register_operator.rs:63, remove_operator.rs: however often they are sent, a
\* registration and a removal happen once, and the generation counts them.
GenerationCountsOperators ==
    LET In(state) == Cardinality({o \in NcnOperators : ledger.operators[o] = state})
    IN  ledger.generation = In("active") + 2 * In("removed")

\* Commands that are executed as often as they are sent.
EachTime == {"AdminFundAccountPayer", "AdminSetNewAdmin", "AdminSetParameters", "UpdateOperatorIpPort"}

\* instructions.rs:949, 1005: with a network that loses nothing, what a crank
\* could do when it read its list is done when it ends, or cannot be done any
\* more, whatever else in the list failed and whoever else was at work.  The
\* same holds of any command with a lasting effect.
CrankDoesItsList ==
    \A p \in Processes :
        session.faults = {} /\ process[p].pc = "idle" =>
            \A i \in process[p].goal :
                i.command \notin EachTime => Executed(ledger, i, Keypair[p]) \subseteq {ledger}

\* Every command comes to an end.
EveryCommandEnds == \A p \in Processes : process[p].pc # "idle" ~> process[p].pc = "idle"
===============================================================================
