--------------------------- MODULE SnapshotAccount ----------------------------
(***************************************************************************)
(* The accounts of an NCN before operators use them: the Config, the       *)
(* snapshot account that is created short and grown by anybody's calls,    *)
(* the vault registry, and the account payer that pays their rent.         *)
(*                                                                         *)
(* An instruction maps the accounts to the set of its outcomes, which is   *)
(* empty when it fails: a client can then put several in one transaction.  *)
(* PDAs are the right ones; fees are in Fees, the entries of the registry  *)
(* in VaultRegistry, the contents of the snapshot in OperatorSet.          *)
(***************************************************************************)
EXTENDS Integers

CONSTANTS
    Admins,              \* keys that may be NCN admin or tie breaker
    ConfigArgs,          \* bound: arguments of InitializeConfig
    ParameterArgs,       \* bound: arguments of AdminSetParameters, those given
    Deposits,            \* bound: lamports somebody transfers to an account
    SIZE,                \* Snapshot::SIZE
    REGISTRY_SIZE,       \* VaultRegistry::SIZE
    CONFIG_SIZE,         \* Config::SIZE
    MAX_REALLOC_BYTES,   \* what one instruction may allocate
    RENT_BASE,           \* rent exemption of an account without data
    SLOTS_PER_EPOCH,     \* of the cluster's Clock
    MAX_SLOT,            \* bound on the clock
    MAX_LAMPORTS,        \* bound on deposits
    MAX_GENERATION,      \* where checked_add on the generation fails
    None

ASSUME SnapshotAccountAssumption ==
    /\ SIZE \in Nat /\ REGISTRY_SIZE \in Nat /\ CONFIG_SIZE \in Nat
    /\ MAX_REALLOC_BYTES \in Nat \ {0}
    /\ REGISTRY_SIZE <= MAX_REALLOC_BYTES /\ CONFIG_SIZE <= MAX_REALLOC_BYTES
    /\ RENT_BASE \in Nat
    /\ SLOTS_PER_EPOCH \in Nat \ {0}
    /\ MAX_SLOT \in Nat /\ MAX_LAMPORTS \in Nat /\ MAX_GENERATION \in Nat
    /\ Deposits \subseteq Nat

\* Arguments are unsigned, and InitializeConfig wants all of its own.
ASSUME ArgumentsAssumption ==
    /\ \A args \in ConfigArgs :
         \A f \in {"epochs_before_stall", "epochs_after_consensus_before_close",
                   "valid_slots_after_consensus", "minimum_stake"} : args[f] \in Nat
    /\ \A args \in ParameterArgs : \A f \in DOMAIN args : args[f] \in Nat

VARIABLE accounts

-------------------------------------------------------------------------------
(***************************************************************************)
(* Account data                                                            *)
(***************************************************************************)

DEFAULT_CONSENSUS_THRESHOLD_BPS == 6667
DEFAULT_SLOTS_PER_EPOCH == 432000

\* The values each parameter may be set to.
ParameterRange ==
    [starting_valid_epoch |-> Nat,
     epochs_before_stall |-> 1 .. 50,
     epochs_after_consensus_before_close |-> 10 .. 100,
     valid_slots_after_consensus |-> 1000 .. 50 * DEFAULT_SLOTS_PER_EPOCH,
     minimum_stake |-> Nat \ {0},
     consensus_threshold_bps |-> 1 .. 10000]

Parameters == DOMAIN ParameterRange
Windows == {"epochs_before_stall", "epochs_after_consensus_before_close",
            "valid_slots_after_consensus"}

InRange(args) == \A f \in DOMAIN args : args[f] \in ParameterRange[f]

Config == [params: [Parameters -> Nat], tie_breaker_admin: Admins]

\* generation stands for everything that is lost when an account is initialised.
Snapshot == [len: Nat, initialized: BOOLEAN, minimum_stake: Nat,
             slot_created: Nat, generation: Nat]

ASSUME NoneAssumption == None \notin Snapshot /\ None \notin Config /\ None \notin Nat

Paying == {"payer", "config", "snapshot", "vault_registry"}

Accounts ==
    [config: Config \cup {None}, snapshot: Snapshot \cup {None},
     vault_registry: Nat \cup {None},   \* its length
     lamports: [Paying -> Nat], ncn_admin: Admins, slot: Nat]

minimum_balance(len) == RENT_BASE + len
SaturatingSub(a, b) == IF a >= b THEN a - b ELSE 0
Least(a, b) == IF a <= b THEN a ELSE b

\* Mutant: an account is topped up for the data only.
pay_rent_of_data(a, account, len) ==
    LET required == SaturatingSub(len, a.lamports[account])
    IN  IF required <= a.lamports["payer"]
        THEN {[a EXCEPT !.lamports["payer"] = @ - required,
                       !.lamports[account] = @ + required]}
        ELSE {}

\* The account payer tops an account up to the rent exemption of its length;
\* whoever sent lamports there before has paid that part.
pay_rent(a, account, len) ==
    LET required == SaturatingSub(minimum_balance(len), a.lamports[account])
    IN  IF required <= a.lamports["payer"]
        THEN {[a EXCEPT !.lamports["payer"] = @ - required,
                       !.lamports[account] = @ + required]}
        ELSE {}

-------------------------------------------------------------------------------
(***************************************************************************)
(* Instructions                                                            *)
(***************************************************************************)

NewConfig(a, args, tie_breaker) ==
    [params |-> [f \in Parameters |->
        CASE f = "starting_valid_epoch" -> a.slot \div SLOTS_PER_EPOCH
          [] f = "consensus_threshold_bps" -> DEFAULT_CONSENSUS_THRESHOLD_BPS
          [] OTHER -> args[f]],
     tie_breaker_admin |-> tie_breaker]

\* Checks the windows but not the minimum stake.
InitializeConfig(a, signer, args, tie_breaker) ==
    IF /\ a.config = None
       /\ signer = a.ncn_admin
       /\ InRange([f \in Windows |-> args[f]])
    THEN {[b EXCEPT !.config = NewConfig(a, args, tie_breaker)] :
            b \in pay_rent(a, "config", CONFIG_SIZE)}
    ELSE {}

\* Sets the parameters that are given, all or none of them.
AdminSetParameters(a, signer, args) ==
    IF a.config # None /\ signer = a.ncn_admin /\ InRange(args)
    THEN {[a EXCEPT !.config.params =
            [f \in Parameters |-> IF f \in DOMAIN args THEN args[f] ELSE @[f]]]}
    ELSE {}

AdminSetNewAdmin(a, signer, new_admin) ==
    IF a.config # None /\ signer = a.ncn_admin
    THEN {[a EXCEPT !.config.tie_breaker_admin = new_admin]}
    ELSE {}

\* Needs no Config.  It allocates, and does not set the discriminator.
InitializeSnapshot(a) ==
    IF a.snapshot = None
    THEN {[b EXCEPT !.snapshot = [len |-> MAX_REALLOC_BYTES, initialized |-> FALSE,
                                  minimum_stake |-> 0, slot_created |-> 0,
                                  generation |-> 0]] :
            b \in pay_rent(a, "snapshot", MAX_REALLOC_BYTES)}
    ELSE {}

get_new_size(current_size, target_size) == Least(current_size + MAX_REALLOC_BYTES, target_size)

\* Mutant: a snapshot of full size is initialised whether or not it was.
InitializedWhenLong(a) ==
    IF a.snapshot.len >= SIZE
    THEN [a EXCEPT !.snapshot =
            [@ EXCEPT !.initialized = TRUE, !.generation = 0,
                      !.minimum_stake = a.config.params["minimum_stake"],
                      !.slot_created = a.slot]]
    ELSE a

\* Mutant: initialised as soon as it is allocated.
InitializedEarly(a) ==
    IF ~a.snapshot.initialized
    THEN [a EXCEPT !.snapshot =
            [@ EXCEPT !.initialized = TRUE, !.generation = 0,
                      !.minimum_stake = a.config.params["minimum_stake"],
                      !.slot_created = a.slot]]
    ELSE a

\* Initialised by the call that finds it long enough and not yet initialised.
Initialized(a) ==
    IF a.snapshot.len >= SIZE /\ ~a.snapshot.initialized
    THEN [a EXCEPT !.snapshot =
            [@ EXCEPT !.initialized = TRUE, !.generation = 0,
                      !.minimum_stake = a.config.params["minimum_stake"],
                      !.slot_created = a.slot]]
    ELSE a

\* Mutant: the account must be an initialised snapshot before it may grow.
ReallocLoadedSnapshot(a) ==
    IF a.snapshot = None \/ a.config = None THEN {}
    ELSE IF ~a.snapshot.initialized THEN {} ELSE {a}

\* Anybody may call it, any number of times.
ReallocSnapshot(a) ==
    IF a.snapshot = None \/ a.config = None THEN {}
    ELSE LET new_size == get_new_size(a.snapshot.len, SIZE)
         IN  IF a.snapshot.len < SIZE
             THEN {Initialized([b EXCEPT !.snapshot.len = new_size]) :
                     b \in pay_rent(a, "snapshot", new_size)}
             ELSE {Initialized(a)}

InitializeVaultRegistry(a) ==
    IF a.vault_registry = None /\ a.config # None
    THEN {[b EXCEPT !.vault_registry = REGISTRY_SIZE] :
            b \in pay_rent(a, "vault_registry", REGISTRY_SIZE)}
    ELSE {}

\* Any instruction that loads the snapshot and changes the operator set.
UseSnapshot(a) ==
    IF a.snapshot = None THEN {}
    ELSE IF a.snapshot.initialized /\ a.snapshot.generation < MAX_GENERATION
         THEN {[a EXCEPT !.snapshot.generation = @ + 1]}
         ELSE {}

\* A transfer by anybody, to the payer or to the address of an account that
\* does not exist yet.
Transfer(a, account, amount) ==
    IF a.lamports[account] + amount <= MAX_LAMPORTS
    THEN {[a EXCEPT !.lamports[account] = @ + amount]}
    ELSE {}

-------------------------------------------------------------------------------
AccountsInit ==
    \E admin \in Admins :
        accounts = [config |-> None, snapshot |-> None, vault_registry |-> None,
                    lamports |-> [p \in Paying |-> 0], ncn_admin |-> admin, slot |-> 0]

Tick == accounts.slot < MAX_SLOT /\ accounts' = [accounts EXCEPT !.slot = @ + 1]

SetNcnAdmin(new) == accounts' = [accounts EXCEPT !.ncn_admin = new]

Configure(signer) ==
    \/ \E args \in ConfigArgs, tie_breaker \in Admins :
         accounts' \in InitializeConfig(accounts, signer, args, tie_breaker)
    \/ \E args \in ParameterArgs : accounts' \in AdminSetParameters(accounts, signer, args)
    \/ \E new \in Admins : accounts' \in AdminSetNewAdmin(accounts, signer, new)

AccountsNext ==
    \/ \E signer \in Admins : Configure(signer)
    \/ accounts' \in InitializeSnapshot(accounts)
    \/ accounts' \in ReallocSnapshot(accounts)
    \/ accounts' \in InitializeVaultRegistry(accounts)
    \/ accounts' \in UseSnapshot(accounts)
    \/ \E account \in Paying, amount \in Deposits : accounts' \in Transfer(accounts, account, amount)
    \/ \E new \in Admins : SetNcnAdmin(new)
    \/ Tick

AccountsSpec == AccountsInit /\ [][AccountsNext]_accounts

-------------------------------------------------------------------------------
(***************************************************************************)
(* Properties                                                              *)
(***************************************************************************)

AccountsTypeOK ==
    /\ accounts \in Accounts
    /\ accounts.snapshot # None => accounts.snapshot.generation <= MAX_GENERATION

\* realloc_snapshot.rs:46: whatever sequence of calls grew the account, the
\* discriminator, by which every other instruction recognises a snapshot, is
\* there only when all slots of the operators fit, and nothing more is needed
\* once they do.
InitialisedAtFullSize ==
    LET s == accounts.snapshot
    IN  s # None => /\ s.initialized => s.len >= SIZE
                    /\ MAX_REALLOC_BYTES < SIZE /\ s.len >= SIZE => s.initialized

\* account_payer.rs:62,112: every account that exists holds the rent exemption
\* of the length it has grown to, however its lamports got there.
RentExempt ==
    /\ accounts.config # None => accounts.lamports["config"] >= minimum_balance(CONFIG_SIZE)
    /\ accounts.snapshot # None =>
         accounts.lamports["snapshot"] >= minimum_balance(accounts.snapshot.len)
    /\ accounts.vault_registry # None =>
         accounts.lamports["vault_registry"] >= minimum_balance(accounts.vault_registry)

\* The bounds of constants.rs hold of a Config on both paths that write it:
\* what it was created with and every later change (admin_initialize_config.rs,
\* admin_set_parameters.rs).  The minimum stake is left out:
\* InitializeConfig takes zero, which AdminSetParameters refuses.
ConfigInRange ==
    accounts.config # None =>
        \A f \in Parameters \ {"minimum_stake"} :
            accounts.config.params[f] \in ParameterRange[f]

\* A snapshot account left short by an interrupted client is not lost: with a
\* Config and enough in the payer, the next ReallocSnapshot of anybody grows it.
ShortSnapshotCanGrow ==
    LET a == accounts
    IN  /\ a.snapshot # None /\ a.config # None
        /\ ~a.snapshot.initialized
        /\ a.lamports["payer"] >= minimum_balance(MAX_REALLOC_BYTES)
        => \E b \in ReallocSnapshot(a) : b.snapshot.len > a.snapshot.len \/ b.snapshot.initialized

Life == INSTANCE SnapshotLife WITH
    Stakes <- Nat,
    phase <- IF accounts.snapshot = None THEN "absent"
             ELSE IF accounts.snapshot.initialized THEN "ready" ELSE "allocated",
    minimum_stake <- IF accounts.snapshot = None THEN 0 ELSE accounts.snapshot.minimum_stake,
    generation <- IF accounts.snapshot = None THEN 0 ELSE accounts.snapshot.generation

\* Whoever calls the reallocation, and however often, before or after the
\* snapshot is in use: it becomes ready once and nothing is reset after.
ImplementsSnapshotLife == Life!Spec
===============================================================================
