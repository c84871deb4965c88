------------------------- MODULE SnapshotAccountProofs -------------------------
(***************************************************************************)
(* Proofs about SnapshotAccount, for any sizes, rents and arguments, and   *)
(* about the clients of Provisioning, for any number of processes, retries *)
(* and faults.                                                             *)
(*                                                                         *)
(* Each instruction is first reduced to what it may do to the three things *)
(* the invariants are about: the snapshot, the Config and the lamports.    *)
(***************************************************************************)
EXTENDS Provisioning, NumberTheorems, TLAPS

NotPayer == Paying \ {"payer"}

\* Rent is paid to one account, and the rest of the accounts is not touched.
LEMMA PayRent ==
    ASSUME NEW a \in Accounts, NEW account \in NotPayer, NEW len \in Nat,
           NEW b \in pay_rent(a, account, len)
    PROVE  /\ b = [a EXCEPT !.lamports = b.lamports]
           /\ b.lamports \in [Paying -> Nat]
           /\ b.lamports[account] >= minimum_balance(len)
           /\ \A p \in NotPayer : b.lamports[p] >= a.lamports[p]
<1> DEFINE required == SaturatingSub(minimum_balance(len), a.lamports[account])
<1>1. a.lamports \in [Paying -> Nat] /\ minimum_balance(len) \in Nat
  BY SnapshotAccountAssumption DEF Accounts, minimum_balance
<1>2. /\ required \in Nat
      /\ a.lamports[account] + required >= minimum_balance(len)
  BY <1>1 DEF SaturatingSub, NotPayer
<1>3. /\ required <= a.lamports["payer"]
      /\ b = [a EXCEPT !.lamports["payer"] = @ - required,
                       !.lamports[account] = @ + required]
  BY DEF pay_rent
<1> HIDE DEF required
<1>4. /\ b.lamports \in [Paying -> Nat]
      /\ b.lamports[account] = a.lamports[account] + required
      /\ \A p \in NotPayer : b.lamports[p] >= a.lamports[p]
  BY <1>1, <1>2, <1>3 DEF NotPayer, Paying, Accounts
<1>5. b = [a EXCEPT !.lamports = b.lamports]
  BY <1>3 DEF Accounts
<1>6. b.lamports[account] >= minimum_balance(len)
  BY <1>2, <1>4
<1>7. QED
  BY <1>4, <1>5, <1>6
-------------------------------------------------------------------------------
(***************************************************************************)
(* The inductive invariant, of a state of the accounts                     *)
(***************************************************************************)

SnapshotInv(s) ==
    /\ s.generation <= MAX_GENERATION
    /\ s.initialized => s.len >= SIZE
    /\ MAX_REALLOC_BYTES < SIZE /\ s.len >= SIZE => s.initialized
    /\ ~s.initialized => s.generation = 0 /\ s.minimum_stake = 0

RentInv(a) ==
    /\ a.config # None => a.lamports["config"] >= minimum_balance(CONFIG_SIZE)
    /\ a.snapshot # None => a.lamports["snapshot"] >= minimum_balance(a.snapshot.len)
    /\ a.vault_registry # None =>
         a.lamports["vault_registry"] >= minimum_balance(a.vault_registry)

ConfigInv(c) ==
    \A f \in Parameters \ {"minimum_stake"} : c.params[f] \in ParameterRange[f]

AccountsInv(a) ==
    /\ a \in Accounts
    /\ a.snapshot # None => SnapshotInv(a.snapshot)
    /\ RentInv(a)
    /\ a.config # None => ConfigInv(a.config)

\* Rent is paid without breaking anything.
LEMMA PayRentInv ==
    ASSUME NEW a, AccountsInv(a), NEW account \in NotPayer, NEW len \in Nat,
           NEW b \in pay_rent(a, account, len)
    PROVE  /\ AccountsInv(b)
           /\ b.lamports[account] >= minimum_balance(len)
           /\ b.config = a.config /\ b.snapshot = a.snapshot
           /\ b.vault_registry = a.vault_registry
           /\ b.ncn_admin = a.ncn_admin /\ b.slot = a.slot
<1>1. a \in Accounts
  BY DEF AccountsInv
<1>2. /\ b = [a EXCEPT !.lamports = b.lamports]
      /\ b.lamports \in [Paying -> Nat]
      /\ b.lamports[account] >= minimum_balance(len)
      /\ \A p \in NotPayer : b.lamports[p] >= a.lamports[p]
  BY <1>1, PayRent
<1>3. /\ b.config = a.config /\ b.snapshot = a.snapshot
      /\ b.vault_registry = a.vault_registry
      /\ b.ncn_admin = a.ncn_admin /\ b.slot = a.slot
      /\ b \in Accounts
  BY <1>1, <1>2 DEF Accounts
<1>4. \A n \in Nat : minimum_balance(n) \in Nat
  BY SnapshotAccountAssumption DEF minimum_balance
<1>5. RentInv(b)
  <2>1. /\ CONFIG_SIZE \in Nat
        /\ a.snapshot # None => a.snapshot.len \in Nat
        /\ a.vault_registry # None => a.vault_registry \in Nat
    BY <1>1, SnapshotAccountAssumption DEF Accounts, Snapshot
  <2>2. \A p \in NotPayer : a.lamports[p] \in Nat /\ b.lamports[p] \in Nat
    BY <1>1, <1>2 DEF Accounts, NotPayer
  <2>3. {"config", "snapshot", "vault_registry"} \subseteq NotPayer
    BY DEF NotPayer, Paying
  <2>4. \A p \in NotPayer, n \in Nat :
          a.lamports[p] >= minimum_balance(n) => b.lamports[p] >= minimum_balance(n)
    BY <1>2, <1>4, <2>2
  <2>5. QED
    BY <1>3, <2>1, <2>3, <2>4 DEF RentInv, AccountsInv
<1>6. QED
  BY <1>2, <1>3, <1>5 DEF AccountsInv
\* What a step may do to the snapshot: nothing to its contents, allocate it,
\* make it ready, or use it.
SnapshotStep(s, t) ==
    \/ t = s
    \/ s = None /\ t # None /\ ~t.initialized
    \/ /\ s # None /\ t # None
       /\ \/ /\ t.initialized = s.initialized
             /\ t.minimum_stake = s.minimum_stake
             /\ t.generation \in {s.generation} \cup
                  (IF s.initialized THEN {s.generation + 1} ELSE {})
          \/ ~s.initialized /\ t.initialized /\ t.generation = 0

-------------------------------------------------------------------------------
(***************************************************************************)
(* The instructions                                                        *)
(***************************************************************************)

LEMMA ParameterNames ==
    /\ Parameters = {"starting_valid_epoch", "epochs_before_stall",
                     "epochs_after_consensus_before_close",
                     "valid_slots_after_consensus", "minimum_stake",
                     "consensus_threshold_bps"}
    /\ \A f \in Parameters : ParameterRange[f] \subseteq Nat
    /\ Windows \subseteq Parameters
<1>1. Parameters = {"starting_valid_epoch", "epochs_before_stall",
                    "epochs_after_consensus_before_close",
                    "valid_slots_after_consensus", "minimum_stake",
                    "consensus_threshold_bps"}
  BY SMT DEF Parameters, ParameterRange
<1>2. /\ ParameterRange["starting_valid_epoch"] \subseteq Nat
      /\ ParameterRange["epochs_before_stall"] \subseteq Nat
      /\ ParameterRange["epochs_after_consensus_before_close"] \subseteq Nat
      /\ ParameterRange["minimum_stake"] \subseteq Nat
      /\ ParameterRange["consensus_threshold_bps"] \subseteq Nat
  BY SMT DEF ParameterRange
<1>3. ParameterRange["valid_slots_after_consensus"] \subseteq Nat
  <2>1. ParameterRange["valid_slots_after_consensus"]
          = 1000 .. 50 * DEFAULT_SLOTS_PER_EPOCH
    BY SMT DEF ParameterRange
  <2>2. 50 * DEFAULT_SLOTS_PER_EPOCH \in Nat
    BY SMT DEF DEFAULT_SLOTS_PER_EPOCH
  <2>3. QED
    BY SMT, <2>1, <2>2
<1>4. QED
  BY SMT, <1>1, <1>2, <1>3 DEF Windows

\* A Config that InitializeConfig writes is in range.
LEMMA NewConfigInRange ==
    ASSUME NEW a \in Accounts, NEW args \in ConfigArgs, NEW tie_breaker \in Admins,
           InRange([f \in Windows |-> args[f]])
    PROVE  /\ NewConfig(a, args, tie_breaker) \in Config
           /\ ConfigInv(NewConfig(a, args, tie_breaker))
<1> DEFINE c == NewConfig(a, args, tie_breaker)
<1>1. \A f \in Windows : args[f] \in ParameterRange[f]
  BY DEF InRange
<1>2. \A f \in Parameters : c.params[f] \in Nat
  <2>1. a.slot \div SLOTS_PER_EPOCH \in Nat
    <3>1. a.slot \in Nat /\ SLOTS_PER_EPOCH \in Nat \ {0}
      BY SnapshotAccountAssumption DEF Accounts
    <3>2. QED
      BY <3>1, SMT
  <2>2. \A f \in {"epochs_before_stall", "epochs_after_consensus_before_close",
                  "valid_slots_after_consensus", "minimum_stake"} : args[f] \in Nat
    BY ArgumentsAssumption
  <2>3. QED
    BY <2>1, <2>2, ParameterNames DEF NewConfig, DEFAULT_CONSENSUS_THRESHOLD_BPS
<1>3. c \in Config
  BY <1>2 DEF NewConfig, Config
<1>4. ConfigInv(c)
  <2>1. c.params["starting_valid_epoch"] \in ParameterRange["starting_valid_epoch"]
    BY <1>2, ParameterNames DEF ParameterRange
  <2>2. c.params["consensus_threshold_bps"] \in ParameterRange["consensus_threshold_bps"]
    BY ParameterNames DEF NewConfig, ParameterRange, DEFAULT_CONSENSUS_THRESHOLD_BPS
  <2>3. \A f \in Windows : c.params[f] = args[f]
    BY ParameterNames DEF NewConfig, Windows
  <2>4. QED
    BY <1>1, <2>1, <2>2, <2>3, ParameterNames DEF ConfigInv, Windows
<1>5. QED
  BY <1>3, <1>4

LEMMA InitializeConfigInv ==
    ASSUME NEW a, AccountsInv(a), NEW signer, NEW args \in ConfigArgs,
           NEW tie_breaker \in Admins,
           NEW b \in InitializeConfig(a, signer, args, tie_breaker)
    PROVE  AccountsInv(b) /\ SnapshotStep(a.snapshot, b.snapshot)
<1>1. /\ a.config = None
      /\ InRange([f \in Windows |-> args[f]])
      /\ \E p \in pay_rent(a, "config", CONFIG_SIZE) :
           b = [p EXCEPT !.config = NewConfig(a, args, tie_breaker)]
  BY DEF InitializeConfig
<1>2. PICK p \in pay_rent(a, "config", CONFIG_SIZE) :
        b = [p EXCEPT !.config = NewConfig(a, args, tie_breaker)]
  BY <1>1
<1>3. "config" \in NotPayer /\ CONFIG_SIZE \in Nat
  BY SnapshotAccountAssumption DEF NotPayer, Paying
<1>4. /\ AccountsInv(p)
      /\ p.lamports["config"] >= minimum_balance(CONFIG_SIZE)
      /\ p.snapshot = a.snapshot
  BY <1>3, PayRentInv
<1>5. a \in Accounts /\ p \in Accounts
  BY <1>4 DEF AccountsInv
<1>6. NewConfig(a, args, tie_breaker) \in Config /\ ConfigInv(NewConfig(a, args, tie_breaker))
  BY <1>1, <1>5, NewConfigInRange
<1>7. /\ b \in Accounts
      /\ b.config = NewConfig(a, args, tie_breaker)
      /\ b.snapshot = p.snapshot /\ b.lamports = p.lamports
      /\ b.vault_registry = p.vault_registry
  BY <1>2, <1>5, <1>6 DEF Accounts
<1>8. RentInv(b)
  BY <1>4, <1>7 DEF RentInv, AccountsInv
<1>9. QED
  BY <1>4, <1>6, <1>7, <1>8 DEF AccountsInv, SnapshotStep
LEMMA AdminSetParametersInv ==
    ASSUME NEW a, AccountsInv(a), NEW signer, NEW args \in ParameterArgs,
           NEW b \in AdminSetParameters(a, signer, args)
    PROVE  AccountsInv(b) /\ SnapshotStep(a.snapshot, b.snapshot)
<1> DEFINE new == [f \in Parameters |-> IF f \in DOMAIN args THEN args[f] ELSE a.config.params[f]]
<1>1. /\ a.config # None /\ InRange(args)
      /\ b = [a EXCEPT !.config.params = new]
  BY DEF AdminSetParameters
<1>2. a \in Accounts /\ a.config \in Config /\ ConfigInv(a.config)
  BY <1>1 DEF AccountsInv, Accounts
<1>3. new \in [Parameters -> Nat]
  BY <1>2, ArgumentsAssumption DEF Config
<1>4. \A f \in Parameters \ {"minimum_stake"} : new[f] \in ParameterRange[f]
  BY <1>1, <1>2 DEF InRange, ConfigInv
<1> HIDE DEF new
<1>5. b = [a EXCEPT !.config = [a.config EXCEPT !.params = new]]
  BY <1>1
<1>6. /\ [a.config EXCEPT !.params = new] \in Config
      /\ [a.config EXCEPT !.params = new].params = new
  BY <1>2, <1>3 DEF Config
<1>7. /\ b \in Accounts /\ b.config.params = new
      /\ b.snapshot = a.snapshot /\ b.lamports = a.lamports
      /\ b.vault_registry = a.vault_registry
  BY <1>2, <1>5, <1>6 DEF Accounts
<1>8. RentInv(b)
  BY <1>1, <1>7 DEF RentInv, AccountsInv
<1>9. ConfigInv(b.config)
  BY <1>4, <1>7 DEF ConfigInv
<1>10. QED
  BY <1>7, <1>8, <1>9 DEF AccountsInv, SnapshotStep

LEMMA AdminSetNewAdminInv ==
    ASSUME NEW a, AccountsInv(a), NEW signer, NEW new_admin \in Admins,
           NEW b \in AdminSetNewAdmin(a, signer, new_admin)
    PROVE  AccountsInv(b) /\ SnapshotStep(a.snapshot, b.snapshot)
<1>1. /\ a.config # None
      /\ b = [a EXCEPT !.config = [a.config EXCEPT !.tie_breaker_admin = new_admin]]
  BY DEF AdminSetNewAdmin
<1>2. a \in Accounts /\ a.config \in Config /\ ConfigInv(a.config)
  BY <1>1 DEF AccountsInv, Accounts
<1>3. /\ [a.config EXCEPT !.tie_breaker_admin = new_admin] \in Config
      /\ [a.config EXCEPT !.tie_breaker_admin = new_admin].params = a.config.params
  BY <1>2 DEF Config
<1>4. /\ b \in Accounts /\ b.config.params = a.config.params
      /\ b.snapshot = a.snapshot /\ b.lamports = a.lamports
      /\ b.vault_registry = a.vault_registry
  BY <1>1, <1>2, <1>3 DEF Accounts
<1>5. RentInv(b)
  BY <1>1, <1>4 DEF RentInv, AccountsInv
<1>6. ConfigInv(b.config)
  BY <1>2, <1>4 DEF ConfigInv
<1>7. QED
  BY <1>4, <1>5, <1>6 DEF AccountsInv, SnapshotStep

LEMMA InitializeSnapshotInv ==
    ASSUME NEW a, AccountsInv(a), NEW b \in InitializeSnapshot(a)
    PROVE  AccountsInv(b) /\ SnapshotStep(a.snapshot, b.snapshot)
<1> DEFINE s == [len |-> MAX_REALLOC_BYTES, initialized |-> FALSE, minimum_stake |-> 0,
                 slot_created |-> 0, generation |-> 0]
<1>1. /\ a.snapshot = None
      /\ \E p \in pay_rent(a, "snapshot", MAX_REALLOC_BYTES) : b = [p EXCEPT !.snapshot = s]
  BY DEF InitializeSnapshot
<1>2. PICK p \in pay_rent(a, "snapshot", MAX_REALLOC_BYTES) : b = [p EXCEPT !.snapshot = s]
  BY <1>1
<1>3. "snapshot" \in NotPayer /\ MAX_REALLOC_BYTES \in Nat
  BY SnapshotAccountAssumption DEF NotPayer, Paying
<1>4. /\ AccountsInv(p)
      /\ p.lamports["snapshot"] >= minimum_balance(MAX_REALLOC_BYTES)
  BY <1>3, PayRentInv
<1>5. s \in Snapshot /\ s # None
  <2>1. s \in Snapshot
    BY <1>3 DEF Snapshot
  <2>2. None \notin Snapshot
    BY NoneAssumption
  <2> HIDE DEF s
  <2>3. QED
    BY <2>1, <2>2
<1>6. SnapshotInv(s)
  BY SnapshotAccountAssumption DEF SnapshotInv
<1>7. ~s.initialized /\ s.len = MAX_REALLOC_BYTES
  OBVIOUS
<1> HIDE DEF s
<1>8. /\ b \in Accounts /\ b.snapshot = s
      /\ b.config = p.config /\ b.lamports = p.lamports
      /\ b.vault_registry = p.vault_registry
  BY <1>2, <1>4, <1>5 DEF Accounts, AccountsInv
<1>9. RentInv(b)
  BY <1>4, <1>7, <1>8 DEF RentInv, AccountsInv
<1>10. QED
  BY <1>1, <1>4, <1>5, <1>6, <1>7, <1>8, <1>9 DEF AccountsInv, SnapshotStep

\* The reallocation grows a snapshot, but not past its full size.
LEMMA NewSize ==
    ASSUME NEW len \in Nat, len < SIZE
    PROVE  /\ get_new_size(len, SIZE) \in Nat
           /\ get_new_size(len, SIZE) <= SIZE
           /\ get_new_size(len, SIZE) > len
BY SnapshotAccountAssumption DEF get_new_size, Least
\* The check at the end of ReallocSnapshot completes a snapshot of full size.
LEMMA InitializedInv ==
    ASSUME NEW a \in Accounts, a.snapshot \in Snapshot, a.config \in Config,
           RentInv(a), ConfigInv(a.config),
           a.snapshot.generation <= MAX_GENERATION,
           a.snapshot.initialized => a.snapshot.len >= SIZE,
           ~a.snapshot.initialized => a.snapshot.generation = 0 /\ a.snapshot.minimum_stake = 0
    PROVE  /\ AccountsInv(Initialized(a))
           /\ SnapshotStep(a.snapshot, Initialized(a).snapshot)
<1> DEFINE b == Initialized(a)
           s == [a.snapshot EXCEPT !.initialized = TRUE, !.generation = 0,
                                   !.minimum_stake = a.config.params["minimum_stake"],
                                   !.slot_created = a.slot]
<1>1. None \notin Snapshot /\ None \notin Config
  BY NoneAssumption
<1>2. CASE a.snapshot.len >= SIZE /\ ~a.snapshot.initialized
  <2>1. b = [a EXCEPT !.snapshot = s]
    BY <1>2 DEF Initialized
  <2>2. /\ s \in Snapshot /\ s.initialized /\ s.generation = 0
        /\ s.len = a.snapshot.len
    <3>1. a.config.params["minimum_stake"] \in Nat /\ a.slot \in Nat
      BY ParameterNames DEF Config, Accounts
    <3>2. QED
      BY <3>1 DEF Snapshot
  <2> HIDE DEF s
  <2>3. /\ b \in Accounts /\ b.snapshot = s
        /\ b.config = a.config /\ b.lamports = a.lamports
        /\ b.vault_registry = a.vault_registry
    BY <2>1, <2>2 DEF Accounts
  <2>4. SnapshotInv(s)
    BY <1>2, <2>2, SnapshotAccountAssumption DEF SnapshotInv
  <2>5. RentInv(b)
    BY <1>1, <2>2, <2>3 DEF RentInv
  <2>6. SnapshotStep(a.snapshot, s)
    BY <1>1, <1>2, <2>2 DEF SnapshotStep
  <2> HIDE DEF b
  <2>7. AccountsInv(b)
    BY <2>3, <2>4, <2>5 DEF AccountsInv
  <2>8. QED
    BY <2>3, <2>6, <2>7 DEF b
<1>3. CASE ~(a.snapshot.len >= SIZE /\ ~a.snapshot.initialized)
  <2>1. b = a
    BY <1>3 DEF Initialized
  <2>2. SnapshotInv(a.snapshot)
    BY <1>3 DEF SnapshotInv
  <2>3. AccountsInv(a)
    BY <2>2 DEF AccountsInv
  <2>4. QED
    BY <2>1, <2>3 DEF SnapshotStep
<1>4. QED
  BY <1>2, <1>3

\* Anybody's reallocation, of a snapshot of any length.
LEMMA ReallocSnapshotInv ==
    ASSUME NEW a, AccountsInv(a), NEW b \in ReallocSnapshot(a)
    PROVE  AccountsInv(b) /\ SnapshotStep(a.snapshot, b.snapshot)
<1> DEFINE new_size == get_new_size(a.snapshot.len, SIZE)
<1>1. a.snapshot # None /\ a.config # None
  BY DEF ReallocSnapshot
<1>2. /\ a \in Accounts /\ a.snapshot \in Snapshot /\ a.config \in Config
      /\ SnapshotInv(a.snapshot) /\ RentInv(a) /\ ConfigInv(a.config)
  BY <1>1 DEF AccountsInv, Accounts
<1>3. CASE ~(a.snapshot.len < SIZE)
  <2>1. b = Initialized(a)
    BY <1>1, <1>3 DEF ReallocSnapshot
  <2>2. QED
    BY <1>2, <2>1, InitializedInv DEF SnapshotInv
<1>4. CASE a.snapshot.len < SIZE
  <2>1. \E p \in pay_rent(a, "snapshot", new_size) :
          b = Initialized([p EXCEPT !.snapshot.len = new_size])
    BY <1>1, <1>4 DEF ReallocSnapshot
  <2>2. PICK p \in pay_rent(a, "snapshot", new_size) :
          b = Initialized([p EXCEPT !.snapshot.len = new_size])
    BY <2>1
  <2>3. /\ new_size \in Nat /\ new_size <= SIZE /\ new_size > a.snapshot.len
    BY <1>2, <1>4, NewSize DEF Snapshot
  <2> HIDE DEF new_size
  <2>4. "snapshot" \in NotPayer
    BY DEF NotPayer, Paying
  <2>5. /\ AccountsInv(p)
        /\ p.lamports["snapshot"] >= minimum_balance(new_size)
        /\ p.config = a.config /\ p.snapshot = a.snapshot
    BY <2>3, <2>4, PayRentInv
  <2> DEFINE s == [a.snapshot EXCEPT !.len = new_size]
             g == [p EXCEPT !.snapshot = s]
  <2>6. b = Initialized(g)
    BY <2>2, <2>5
  <2>7. ~a.snapshot.initialized
    BY <1>2, <1>4, SnapshotAccountAssumption DEF SnapshotInv, Snapshot
  <2>8. /\ s \in Snapshot /\ s.len = new_size
        /\ s.initialized = a.snapshot.initialized
        /\ s.generation = a.snapshot.generation
        /\ s.minimum_stake = a.snapshot.minimum_stake
    BY <1>2, <2>3 DEF Snapshot
  <2> HIDE DEF s
  <2>9. /\ g \in Accounts /\ g.snapshot = s
        /\ g.config = a.config /\ g.lamports = p.lamports
        /\ g.vault_registry = p.vault_registry
    BY <2>5, <2>8 DEF Accounts, AccountsInv
  <2> HIDE DEF g
  <2>10. RentInv(g)
    BY <2>5, <2>8, <2>9 DEF RentInv, AccountsInv
  <2>11. AccountsInv(b) /\ SnapshotStep(s, b.snapshot)
    BY <1>2, <2>6, <2>7, <2>8, <2>9, <2>10, InitializedInv DEF SnapshotInv
  <2>12. SnapshotStep(a.snapshot, b.snapshot)
    <3>1. s # None /\ a.snapshot # None
      BY <1>2, <2>8, NoneAssumption
    <3>2. QED
      BY <2>7, <2>8, <2>11, <3>1 DEF SnapshotStep
  <2>13. QED
    BY <2>11, <2>12
<1>5. QED
  BY <1>3, <1>4
LEMMA InitializeVaultRegistryInv ==
    ASSUME NEW a, AccountsInv(a), NEW b \in InitializeVaultRegistry(a)
    PROVE  AccountsInv(b) /\ SnapshotStep(a.snapshot, b.snapshot)
<1>1. \E p \in pay_rent(a, "vault_registry", REGISTRY_SIZE) :
        b = [p EXCEPT !.vault_registry = REGISTRY_SIZE]
  BY DEF InitializeVaultRegistry
<1>2. PICK p \in pay_rent(a, "vault_registry", REGISTRY_SIZE) :
        b = [p EXCEPT !.vault_registry = REGISTRY_SIZE]
  BY <1>1
<1>3. "vault_registry" \in NotPayer /\ REGISTRY_SIZE \in Nat
  BY SnapshotAccountAssumption DEF NotPayer, Paying
<1>4. /\ AccountsInv(p)
      /\ p.lamports["vault_registry"] >= minimum_balance(REGISTRY_SIZE)
      /\ p.snapshot = a.snapshot
  BY <1>3, PayRentInv
<1>5. /\ b \in Accounts /\ b.vault_registry = REGISTRY_SIZE
      /\ b.config = p.config /\ b.snapshot = p.snapshot /\ b.lamports = p.lamports
  BY <1>2, <1>3, <1>4 DEF Accounts, AccountsInv
<1>6. RentInv(b)
  BY <1>4, <1>5 DEF RentInv, AccountsInv
<1>7. QED
  BY <1>4, <1>5, <1>6 DEF AccountsInv, SnapshotStep

LEMMA UseSnapshotInv ==
    ASSUME NEW a, AccountsInv(a), NEW b \in UseSnapshot(a)
    PROVE  AccountsInv(b) /\ SnapshotStep(a.snapshot, b.snapshot)
<1> DEFINE s == [a.snapshot EXCEPT !.generation = a.snapshot.generation + 1]
<1>1. /\ a.snapshot # None
      /\ a.snapshot.initialized /\ a.snapshot.generation < MAX_GENERATION
      /\ b = [a EXCEPT !.snapshot = s]
  BY DEF UseSnapshot
<1>2. a \in Accounts /\ a.snapshot \in Snapshot /\ SnapshotInv(a.snapshot)
  BY <1>1 DEF AccountsInv, Accounts
<1>3. /\ s \in Snapshot /\ s.generation = a.snapshot.generation + 1
      /\ s.len = a.snapshot.len /\ s.initialized
      /\ s.minimum_stake = a.snapshot.minimum_stake
  BY <1>1, <1>2 DEF Snapshot
<1> HIDE DEF s
<1>4. /\ b \in Accounts /\ b.snapshot = s
      /\ b.config = a.config /\ b.lamports = a.lamports
      /\ b.vault_registry = a.vault_registry
  BY <1>1, <1>2, <1>3 DEF Accounts
<1>5. SnapshotInv(s)
  BY <1>1, <1>2, <1>3, SnapshotAccountAssumption DEF SnapshotInv, Snapshot
<1>6. RentInv(b)
  BY <1>1, <1>3, <1>4 DEF RentInv, AccountsInv
<1>7. SnapshotStep(a.snapshot, s)
  BY <1>1, <1>3, NoneAssumption DEF SnapshotStep
<1>8. QED
  BY <1>4, <1>5, <1>6, <1>7 DEF AccountsInv

\* A transfer only adds lamports.
LEMMA TransferInv ==
    ASSUME NEW a, AccountsInv(a), NEW account \in Paying, NEW amount \in Deposits,
           NEW b \in Transfer(a, account, amount)
    PROVE  AccountsInv(b) /\ SnapshotStep(a.snapshot, b.snapshot)
<1>1. a \in Accounts /\ amount \in Nat
  BY SnapshotAccountAssumption DEF AccountsInv
<1>2. b = [a EXCEPT !.lamports = [a.lamports EXCEPT ![account] = a.lamports[account] + amount]]
  BY DEF Transfer
<1>3. /\ b \in Accounts
      /\ b.config = a.config /\ b.snapshot = a.snapshot
      /\ b.vault_registry = a.vault_registry
      /\ \A p \in Paying : b.lamports[p] >= a.lamports[p]
  BY <1>1, <1>2 DEF Accounts
<1>4. RentInv(b)
  <2>1. /\ minimum_balance(CONFIG_SIZE) \in Nat
        /\ a.snapshot # None => minimum_balance(a.snapshot.len) \in Nat
        /\ a.vault_registry # None => minimum_balance(a.vault_registry) \in Nat
    BY <1>1, SnapshotAccountAssumption DEF minimum_balance, Accounts, Snapshot
  <2>2. \A p \in Paying : a.lamports[p] \in Nat /\ b.lamports[p] \in Nat
    BY <1>1, <1>3 DEF Accounts
  <2>3. \A p \in Paying, n \in Nat : a.lamports[p] >= n => b.lamports[p] >= n
    BY <1>3, <2>2
  <2>4. {"config", "snapshot", "vault_registry"} \subseteq Paying
    BY DEF Paying
  <2>5. QED
    BY <1>3, <2>1, <2>3, <2>4 DEF RentInv, AccountsInv
<1>5. QED
  BY <1>3, <1>4 DEF AccountsInv, SnapshotStep

\* The clock and the admin of the NCN are none of the three things.
LEMMA OtherFieldsInv ==
    ASSUME NEW a, AccountsInv(a), NEW b \in Accounts,
           b.config = a.config, b.snapshot = a.snapshot,
           b.vault_registry = a.vault_registry, b.lamports = a.lamports
    PROVE  AccountsInv(b) /\ SnapshotStep(a.snapshot, b.snapshot)
<1>1. RentInv(b)
  BY DEF RentInv, AccountsInv
<1>2. QED
  BY <1>1 DEF AccountsInv, SnapshotStep
\* A payer that can pay for one more reallocation lets a short snapshot grow.
LEMMA InvLetsItGrow == AccountsInv(accounts) => ShortSnapshotCanGrow
<1> DEFINE a == accounts
           new_size == get_new_size(a.snapshot.len, SIZE)
<1> SUFFICES ASSUME AccountsInv(a), a.snapshot # None, a.config # None,
                    ~a.snapshot.initialized,
                    a.lamports["payer"] >= minimum_balance(MAX_REALLOC_BYTES)
             PROVE  \E b \in ReallocSnapshot(a) :
                      b.snapshot.len > a.snapshot.len \/ b.snapshot.initialized
  BY DEF ShortSnapshotCanGrow
<1>1. /\ a \in Accounts /\ a.snapshot \in Snapshot /\ a.config \in Config
      /\ a.lamports["snapshot"] >= minimum_balance(a.snapshot.len)
  BY DEF AccountsInv, Accounts, RentInv
<1>2. CASE a.snapshot.len >= SIZE
  <2>1. ReallocSnapshot(a) = {Initialized(a)}
    BY <1>1, <1>2, SnapshotAccountAssumption DEF ReallocSnapshot, Snapshot
  <2>2. Initialized(a).snapshot.initialized
    BY <1>1, <1>2 DEF Initialized, Accounts, Snapshot
  <2>3. QED
    BY <2>1, <2>2
<1>3. CASE a.snapshot.len < SIZE
  <2>1. new_size \in Nat /\ new_size > a.snapshot.len /\ new_size <= a.snapshot.len + MAX_REALLOC_BYTES
    BY <1>1, <1>3, NewSize, SnapshotAccountAssumption DEF Snapshot, get_new_size, Least
  <2>2. ReallocSnapshot(a) =
          {Initialized([b EXCEPT !.snapshot.len = new_size]) : b \in pay_rent(a, "snapshot", new_size)}
    BY <1>3 DEF ReallocSnapshot
  <2> HIDE DEF new_size
  <2>3. SaturatingSub(minimum_balance(new_size), a.lamports["snapshot"]) <= a.lamports["payer"]
    BY <1>1, <2>1, SnapshotAccountAssumption
    DEF SaturatingSub, minimum_balance, Accounts, Paying, Snapshot
  <2>4. PICK p : p \in pay_rent(a, "snapshot", new_size)
    BY <2>3 DEF pay_rent
  <2>5. p.snapshot = a.snapshot /\ p \in Accounts
    <3>1. "snapshot" \in NotPayer
      BY DEF NotPayer, Paying
    <3>2. QED
      BY <2>1, <2>4, <3>1, PayRentInv DEF AccountsInv
  <2> DEFINE g == [p EXCEPT !.snapshot.len = new_size]
             b == Initialized(g)
  <2>6. g.snapshot \in Snapshot /\ g.snapshot.len = new_size
    BY <1>1, <2>1, <2>5 DEF Accounts, Snapshot
  <2>7. g = [p EXCEPT !.snapshot = g.snapshot]
    BY <2>5 DEF Accounts
  <2>8. b \in ReallocSnapshot(a)
    BY <2>2, <2>4
  <2> HIDE DEF g
  <2>9. b.snapshot.len = new_size
    BY <2>5, <2>6, <2>7 DEF Initialized, Accounts, Snapshot
  <2>10. QED
    BY <2>1, <2>8, <2>9
<1>4. QED
  BY <1>1, <1>2, <1>3, SnapshotAccountAssumption DEF Snapshot

-------------------------------------------------------------------------------
(***************************************************************************)
(* The theorems                                                            *)
(***************************************************************************)

AccountsStepOK == SnapshotStep(accounts.snapshot, accounts'.snapshot)

LEMMA AccountsInitInv == AccountsInit => AccountsInv(accounts)
<1> SUFFICES ASSUME AccountsInit PROVE AccountsInv(accounts)
  OBVIOUS
<1>1. PICK admin \in Admins :
        accounts = [config |-> None, snapshot |-> None, vault_registry |-> None,
                    lamports |-> [p \in Paying |-> 0], ncn_admin |-> admin, slot |-> 0]
  BY DEF AccountsInit
<1>2. [p \in Paying |-> 0] \in [Paying -> Nat]
  OBVIOUS
<1>3. /\ accounts \in Accounts /\ accounts.config = None
      /\ accounts.snapshot = None /\ accounts.vault_registry = None
  BY <1>1, <1>2 DEF Accounts
<1>4. QED
  BY <1>3 DEF AccountsInv, RentInv

LEMMA AccountsNextInv ==
    AccountsInv(accounts) /\ [AccountsNext]_accounts
    => AccountsInv(accounts') /\ AccountsStepOK
<1> SUFFICES ASSUME AccountsInv(accounts), [AccountsNext]_accounts
             PROVE  AccountsInv(accounts') /\ SnapshotStep(accounts.snapshot, accounts'.snapshot)
  BY DEF AccountsStepOK
<1>1. accounts \in Accounts
  BY DEF AccountsInv
<1>2. ASSUME NEW signer \in Admins, Configure(signer)
      PROVE  AccountsInv(accounts') /\ SnapshotStep(accounts.snapshot, accounts'.snapshot)
  <2>1. ASSUME NEW args \in ConfigArgs, NEW tie_breaker \in Admins,
               accounts' \in InitializeConfig(accounts, signer, args, tie_breaker)
        PROVE  AccountsInv(accounts') /\ SnapshotStep(accounts.snapshot, accounts'.snapshot)
    BY <2>1, InitializeConfigInv
  <2>2. ASSUME NEW args \in ParameterArgs,
               accounts' \in AdminSetParameters(accounts, signer, args)
        PROVE  AccountsInv(accounts') /\ SnapshotStep(accounts.snapshot, accounts'.snapshot)
    BY <2>2, AdminSetParametersInv
  <2>3. ASSUME NEW new \in Admins, accounts' \in AdminSetNewAdmin(accounts, signer, new)
        PROVE  AccountsInv(accounts') /\ SnapshotStep(accounts.snapshot, accounts'.snapshot)
    BY <2>3, AdminSetNewAdminInv
  <2>4. QED
    BY <1>2, <2>1, <2>2, <2>3 DEF Configure
<1>3. CASE accounts' \in InitializeSnapshot(accounts)
  BY <1>3, InitializeSnapshotInv
<1>4. CASE accounts' \in ReallocSnapshot(accounts)
  BY <1>4, ReallocSnapshotInv
<1>5. CASE accounts' \in InitializeVaultRegistry(accounts)
  BY <1>5, InitializeVaultRegistryInv
<1>6. CASE accounts' \in UseSnapshot(accounts)
  BY <1>6, UseSnapshotInv
<1>7. ASSUME NEW account \in Paying, NEW amount \in Deposits,
             accounts' \in Transfer(accounts, account, amount)
      PROVE  AccountsInv(accounts') /\ SnapshotStep(accounts.snapshot, accounts'.snapshot)
  BY <1>7, TransferInv
<1>8. ASSUME NEW new \in Admins, SetNcnAdmin(new)
      PROVE  AccountsInv(accounts') /\ SnapshotStep(accounts.snapshot, accounts'.snapshot)
  <2>1. /\ accounts' \in Accounts
        /\ accounts'.config = accounts.config /\ accounts'.snapshot = accounts.snapshot
        /\ accounts'.vault_registry = accounts.vault_registry
        /\ accounts'.lamports = accounts.lamports
    BY <1>1, <1>8 DEF SetNcnAdmin, Accounts
  <2>2. QED
    BY <2>1, OtherFieldsInv
<1>9. CASE Tick
  <2>1. /\ accounts' \in Accounts
        /\ accounts'.config = accounts.config /\ accounts'.snapshot = accounts.snapshot
        /\ accounts'.vault_registry = accounts.vault_registry
        /\ accounts'.lamports = accounts.lamports
    BY <1>1, <1>9 DEF Tick, Accounts
  <2>2. QED
    BY <2>1, OtherFieldsInv
<1>10. CASE UNCHANGED accounts
  BY <1>10 DEF SnapshotStep
<1>11. QED
  BY <1>2, <1>3, <1>4, <1>5, <1>6, <1>7, <1>8, <1>9, <1>10 DEF AccountsNext

\* The inductive invariant holds of any sequence of instructions.
THEOREM AccountsInvariance == AccountsSpec => []AccountsInv(accounts)
<1>1. AccountsInv(accounts) /\ [AccountsNext]_accounts => AccountsInv(accounts)'
  BY AccountsNextInv
<1>2. QED
  BY <1>1, AccountsInitInv, PTL DEF AccountsSpec

\* The accounts keep their types and the generation its bound.
THEOREM AccountsAreTyped == AccountsSpec => []AccountsTypeOK
<1>1. AccountsInv(accounts) => AccountsTypeOK
  BY DEF AccountsInv, SnapshotInv, AccountsTypeOK
<1>2. QED
  BY <1>1, AccountsInvariance, PTL

\* realloc_snapshot.rs:46: the discriminator is there exactly when the account
\* has its full size, for any sizes and any number of calls.
THEOREM InitialisedWithAllSlots == AccountsSpec => []InitialisedAtFullSize
<1>1. AccountsInv(accounts) => InitialisedAtFullSize
  BY DEF AccountsInv, SnapshotInv, InitialisedAtFullSize
<1>2. QED
  BY <1>1, AccountsInvariance, PTL

\* account_payer.rs: every account is rent exempt at the size it has grown to,
\* whoever sent lamports to it before or since.
THEOREM AccountsAreRentExempt == AccountsSpec => []RentExempt
<1>1. AccountsInv(accounts) => RentExempt
  BY DEF AccountsInv, RentInv, RentExempt
<1>2. QED
  BY <1>1, AccountsInvariance, PTL

\* constants.rs: both instructions that write parameters keep the ranges.
THEOREM ConfigStaysInRange == AccountsSpec => []ConfigInRange
<1>1. AccountsInv(accounts) => ConfigInRange
  BY DEF AccountsInv, ConfigInv, ConfigInRange
<1>2. QED
  BY <1>1, AccountsInvariance, PTL

\* The instructions implement the life of a snapshot: it becomes ready once,
\* and its minimum stake and generation are never reset.
THEOREM AccountsImplementLife == AccountsSpec => ImplementsSnapshotLife
<1>1. AccountsInit => Life!Init
  BY DEF AccountsInit, Life!Init
<1>2. ASSUME AccountsInv(accounts), AccountsInv(accounts'), AccountsStepOK
      PROVE  [Life!Next]_(Life!vars)
  <2> DEFINE s == accounts.snapshot
             t == accounts'.snapshot
  <2>1. SnapshotStep(s, t)
    BY <1>2 DEF AccountsStepOK
  <2>2. CASE t = s
    BY <2>2 DEF Life!vars
  <2>3. CASE s = None /\ t # None /\ ~t.initialized
    <3>1. t.generation = 0 /\ t.minimum_stake = 0
      BY <1>2, <2>3 DEF AccountsInv, SnapshotInv
    <3>2. QED
      BY <2>3, <3>1 DEF Life!Next, Life!Allocate
  <2>4. CASE /\ s # None /\ t # None
             /\ t.initialized = s.initialized
             /\ t.minimum_stake = s.minimum_stake
             /\ t.generation \in {s.generation} \cup
                  (IF s.initialized THEN {s.generation + 1} ELSE {})
    BY <2>4 DEF Life!Next, Life!Use, Life!vars
  <2>5. CASE s # None /\ t # None /\ ~s.initialized /\ t.initialized /\ t.generation = 0
    <3>1. s.generation = 0 /\ t.minimum_stake \in Nat
      BY <1>2, <2>5 DEF AccountsInv, SnapshotInv, Accounts, Snapshot
    <3>2. QED
      BY <2>5, <3>1 DEF Life!Next, Life!BecomeReady
  <2>6. QED
    BY <2>1, <2>2, <2>3, <2>4, <2>5 DEF SnapshotStep
<1>3. QED
  BY <1>1, <1>2, AccountsInvariance, AccountsNextInv, PTL
  DEF AccountsSpec, ImplementsSnapshotLife, Life!Spec
\* A short snapshot lacks at most MAX_REALLOC_BYTES of rent, since it is rent
\* exempt at the length it has: the payer can afford the next reallocation.
THEOREM ShortSnapshotGrows == AccountsSpec => []ShortSnapshotCanGrow
<1>1. AccountsInv(accounts) => ShortSnapshotCanGrow
  BY InvLetsItGrow
<1>2. QED
  BY <1>1, AccountsInvariance, PTL
-------------------------------------------------------------------------------
(***************************************************************************)
(* The clients of Provisioning                                             *)
(*                                                                         *)
(* What a client has seen of the accounts stays true whatever others send  *)
(* meanwhile, because an account is never closed and a snapshot is never   *)
(* uninitialised: that is Keeps.  The invariant then says what a client    *)
(* has seen at each of its steps.                                          *)
(***************************************************************************)

Ready(s) == s # None /\ s.initialized

Keeps(a, b) ==
    /\ a.snapshot # None => b.snapshot # None
    /\ Ready(a.snapshot) => Ready(b.snapshot)
    /\ a.vault_registry # None => b.vault_registry # None

LEMMA KeepsTransitive ==
    ASSUME NEW a, NEW b, NEW c, Keeps(a, b), Keeps(b, c)
    PROVE  Keeps(a, c)
BY DEF Keeps

LEMMA StepKeeps ==
    ASSUME NEW a, NEW b, SnapshotStep(a.snapshot, b.snapshot),
           a.vault_registry # None => b.vault_registry # None
    PROVE  Keeps(a, b)
BY DEF SnapshotStep, Keeps, Ready

LEMMA InitializeSnapshotKeeps ==
    ASSUME NEW a, AccountsInv(a), NEW b \in InitializeSnapshot(a)
    PROVE  AccountsInv(b) /\ Keeps(a, b)
<1>1. PICK p \in pay_rent(a, "snapshot", MAX_REALLOC_BYTES) :
        \E s : b = [p EXCEPT !.snapshot = s]
  <2>1. a.snapshot = None
    BY DEF InitializeSnapshot
  <2>2. QED
    BY <2>1 DEF InitializeSnapshot
<1>2. /\ p.vault_registry = a.vault_registry /\ p \in Accounts
  <2>1. "snapshot" \in NotPayer /\ MAX_REALLOC_BYTES \in Nat
    BY SnapshotAccountAssumption DEF NotPayer, Paying
  <2>2. QED
    BY <2>1, PayRentInv DEF AccountsInv
<1>3. b.vault_registry = a.vault_registry
  BY <1>1, <1>2 DEF Accounts
<1>4. QED
  BY <1>3, InitializeSnapshotInv, StepKeeps

LEMMA ReallocSnapshotKeeps ==
    ASSUME NEW a, AccountsInv(a), NEW b \in ReallocSnapshot(a)
    PROVE  AccountsInv(b) /\ Keeps(a, b)
<1>1. ASSUME NEW g \in Accounts PROVE Initialized(g).vault_registry = g.vault_registry
  BY DEF Initialized, Accounts
<1>2. /\ a \in Accounts
      /\ a.snapshot # None => a.snapshot \in Snapshot
  BY DEF AccountsInv, Accounts
<1>3. b.vault_registry = a.vault_registry
  <2> DEFINE new_size == get_new_size(a.snapshot.len, SIZE)
  <2>1. a.snapshot # None
    BY DEF ReallocSnapshot
  <2>2. CASE a.snapshot.len < SIZE
    <3>1. PICK p \in pay_rent(a, "snapshot", new_size) :
            b = Initialized([p EXCEPT !.snapshot.len = new_size])
      BY <2>1, <2>2 DEF ReallocSnapshot
    <3>2. new_size \in Nat
      BY <1>2, <2>1, <2>2, NewSize DEF Snapshot
    <3> HIDE DEF new_size
    <3>3. p.vault_registry = a.vault_registry /\ p.snapshot = a.snapshot /\ p \in Accounts
      <4>1. "snapshot" \in NotPayer
        BY DEF NotPayer, Paying
      <4>2. QED
        BY <3>1, <3>2, <4>1, PayRentInv DEF AccountsInv
    <3> DEFINE s == [p.snapshot EXCEPT !.len = new_size]
               g == [p EXCEPT !.snapshot = s]
    <3>4. s \in Snapshot
      BY <1>2, <2>1, <3>2, <3>3 DEF Snapshot
    <3>5. b = Initialized(g)
      BY <3>1
    <3> HIDE DEF s
    <3>6. g \in Accounts /\ g.vault_registry = p.vault_registry
      BY <3>3, <3>4 DEF Accounts
    <3> HIDE DEF g
    <3>7. QED
      BY <1>1, <3>3, <3>5, <3>6
  <2>3. CASE ~(a.snapshot.len < SIZE)
    BY <1>1, <1>2, <2>1, <2>3 DEF ReallocSnapshot
  <2>4. QED
    BY <2>2, <2>3
<1>4. QED
  BY <1>3, ReallocSnapshotInv, StepKeeps

LEMMA InitializeVaultRegistryKeeps ==
    ASSUME NEW a, AccountsInv(a), NEW b \in InitializeVaultRegistry(a)
    PROVE  AccountsInv(b) /\ Keeps(a, b) /\ b.vault_registry # None
<1>1. PICK p \in pay_rent(a, "vault_registry", REGISTRY_SIZE) :
        b = [p EXCEPT !.vault_registry = REGISTRY_SIZE]
  BY DEF InitializeVaultRegistry
<1>2. REGISTRY_SIZE \in Nat /\ None \notin Nat
  BY SnapshotAccountAssumption, NoneAssumption
<1>3. p \in Accounts
  <2>1. "vault_registry" \in NotPayer
    BY DEF NotPayer, Paying
  <2>2. QED
    BY <1>2, <2>1, PayRentInv DEF AccountsInv
<1>4. b.vault_registry = REGISTRY_SIZE
  BY <1>1, <1>3 DEF Accounts
<1>5. QED
  BY <1>2, <1>4, InitializeVaultRegistryInv, StepKeeps

LEMMA UseSnapshotKeeps ==
    ASSUME NEW a, AccountsInv(a), NEW b \in UseSnapshot(a)
    PROVE  AccountsInv(b) /\ Keeps(a, b)
<1>1. PICK s : b = [a EXCEPT !.snapshot = s]
  BY DEF UseSnapshot
<1>2. b.vault_registry = a.vault_registry
  BY <1>1 DEF AccountsInv, Accounts
<1>3. QED
  BY <1>2, UseSnapshotInv, StepKeeps

LEMMA TransferKeeps ==
    ASSUME NEW a, AccountsInv(a), NEW account \in Paying, NEW amount \in Deposits,
           NEW b \in Transfer(a, account, amount)
    PROVE  AccountsInv(b) /\ Keeps(a, b)
<1>1. PICK l : b = [a EXCEPT !.lamports = l]
  BY DEF Transfer
<1>2. b.vault_registry = a.vault_registry
  BY <1>1 DEF AccountsInv, Accounts
<1>3. QED
  BY <1>2, TransferInv, StepKeeps

(***************************************************************************)
(* A transaction of several reallocations keeps what each of them keeps.   *)
(* after is a recursive function: that one exists, and that all it holds   *)
(* keeps what a had, is shown for the least number that were an exception. *)
(***************************************************************************)

IsAfter(h, a, N) ==
    h = [n \in 0 .. N |-> IF n = 0 THEN {a} ELSE UNION {ReallocSnapshot(b) : b \in h[n - 1]}]

LEMMA AfterExists == ASSUME NEW a, NEW N \in Nat PROVE \E h : IsAfter(h, a, N)
<1> DEFINE Bad == {n \in Nat : ~ \E h : IsAfter(h, a, n)}
<1>1. SUFFICES ASSUME Bad # {} PROVE FALSE
  OBVIOUS
<1>2. PICK n \in Bad : \A m \in Bad : n <= m
  <2>1. Bad \in SUBSET Nat
    OBVIOUS
  <2> HIDE DEF Bad
  <2>2. QED
    BY <1>1, <2>1, LeastNat
<1>3. n \in Nat /\ ~ \E h : IsAfter(h, a, n)
  OBVIOUS
<1>4. CASE n = 0
  <2> DEFINE h == [i \in 0 .. n |-> {a}]
  <2>1. \A i \in 0 .. n : i = 0
    BY <1>4
  <2>2. h = [i \in 0 .. n |-> IF i = 0 THEN {a} ELSE UNION {ReallocSnapshot(b) : b \in h[i - 1]}]
    BY <2>1
  <2>3. QED
    BY <1>3, <2>2 DEF IsAfter
<1>5. CASE n # 0
  <2>1. n - 1 \in Nat /\ n - 1 \notin Bad
    BY <1>2, <1>3, <1>5
  <2>2. PICK g : IsAfter(g, a, n - 1)
    BY <2>1
  <2> DEFINE next(i) == IF i = 0 THEN {a} ELSE UNION {ReallocSnapshot(b) : b \in g[i - 1]}
             h == [i \in 0 .. n |-> next(i)]
  <2>3. \A i \in 0 .. n - 1 : g[i] = next(i)
    BY <2>2 DEF IsAfter
  <2>4. \A i \in 0 .. n : i # 0 => h[i - 1] = g[i - 1]
    <3>1. \A i \in 0 .. n : i # 0 => i - 1 \in 0 .. n - 1 /\ i - 1 \in 0 .. n
      BY <1>3
    <3> HIDE DEF next
    <3>2. QED
      BY <2>3, <3>1
  <2>5. \A i \in 0 .. n :
          next(i) = IF i = 0 THEN {a} ELSE UNION {ReallocSnapshot(b) : b \in h[i - 1]}
    BY <2>4
  <2>6. IsAfter(h, a, n)
    BY <2>5 DEF IsAfter
  <2>7. QED
    BY <1>3, <2>6
<1>6. QED
  BY <1>4, <1>5

LEMMA NumReallocs == num_reallocs \in Nat
<1>1. (SIZE + MAX_REALLOC_BYTES - 1) \div MAX_REALLOC_BYTES \in Int
  BY SnapshotAccountAssumption
<1>2. QED
  BY <1>1 DEF num_reallocs, Greatest

LEMMA ReallocatedKeeps ==
    ASSUME NEW a, AccountsInv(a), NEW b \in Reallocated(a)
    PROVE  AccountsInv(b) /\ Keeps(a, b)
<1> DEFINE N == num_reallocs
           h == CHOOSE f : IsAfter(f, a, N)
           Good(c) == AccountsInv(c) /\ Keeps(a, c)
           Bad == {n \in 0 .. N : \E c \in h[n] : ~Good(c)}
<1>1. N \in Nat
  BY NumReallocs
<1>2. Reallocated(a) = h[N]
  BY DEF Reallocated, IsAfter
<1>3. IsAfter(h, a, N)
  BY <1>1, AfterExists
<1> HIDE DEF N, h
<1>4. SUFFICES Bad = {}
  <2>1. N \in 0 .. N
    BY <1>1
  <2>2. QED
    BY <1>2, <2>1
<1>5. SUFFICES ASSUME Bad # {} PROVE FALSE
  OBVIOUS
<1>6. PICK n \in Bad : \A m \in Bad : n <= m
  <2>1. Bad \in SUBSET Nat
    BY <1>1
  <2> HIDE DEF Bad
  <2>2. QED
    BY <1>5, <2>1, LeastNat
<1>7. PICK c \in h[n] : ~Good(c)
  OBVIOUS
<1>8. n \in 0 .. N
  OBVIOUS
<1>9. h[n] = IF n = 0 THEN {a} ELSE UNION {ReallocSnapshot(d) : d \in h[n - 1]}
  BY <1>3, <1>8 DEF IsAfter
<1>10. CASE n = 0
  BY <1>7, <1>9, <1>10 DEF Keeps
<1>11. CASE n # 0
  <2>1. n - 1 \in 0 .. N /\ n - 1 \notin Bad
    BY <1>1, <1>6, <1>8, <1>11
  <2>2. PICK d \in h[n - 1] : c \in ReallocSnapshot(d)
    BY <1>7, <1>9, <1>11
  <2>3. Good(d)
    BY <2>1, <2>2
  <2>4. AccountsInv(c) /\ Keeps(d, c)
    BY <2>2, <2>3, ReallocSnapshotKeeps
  <2>5. QED
    BY <1>7, <2>3, <2>4, KeepsTransitive
<1>12. QED
  BY <1>10, <1>11

\* Whatever a client sends keeps the invariant and what anybody has seen.
LEMMA OutcomesKeep ==
    ASSUME NEW c \in Clients, NEW a, AccountsInv(a), Sending(c), NEW b \in Outcomes(c, a)
    PROVE  /\ AccountsInv(b) /\ Keeps(a, b)
           /\ Job[c] = "vault_registry" /\ client[c].pc = "init" => b.vault_registry # None
           /\ Job[c] = "vault_registry" /\ client[c].pc = "grow" => b = a
<1>1. Job[c] \in {"snapshot", "vault_registry"} /\ client[c].pc \in {"init", "grow"}
  BY ProvisioningAssumption DEF Sending
<1>2. CASE Job[c] = "snapshot" /\ client[c].pc = "init"
  BY <1>2, InitializeSnapshotKeeps DEF Outcomes
<1>3. CASE Job[c] = "snapshot" /\ client[c].pc = "grow"
  BY <1>3, ReallocatedKeeps DEF Outcomes
<1>4. CASE Job[c] = "vault_registry" /\ client[c].pc = "init"
  BY <1>4, InitializeVaultRegistryKeeps DEF Outcomes
<1>5. CASE Job[c] = "vault_registry" /\ client[c].pc = "grow"
  BY <1>5 DEF Outcomes, Keeps
<1>6. QED
  BY <1>1, <1>2, <1>3, <1>4, <1>5

-------------------------------------------------------------------------------
\* What a client has seen of accounts a when it is at pc.
Seen(job, pc, a) ==
    IF job = "snapshot"
    THEN /\ pc = "get" => a.snapshot # None
         /\ pc = "done" => Ready(a.snapshot)
    ELSE /\ pc \notin {"created", "get"}
         /\ pc \in {"grow", "done"} => a.vault_registry # None

ProvisioningInv ==
    /\ AccountsInv(accounts)
    /\ client \in [Clients -> Client]
    /\ \A c \in Clients : Seen(Job[c], client[c].pc, accounts)

LEMMA SeenKept ==
    ASSUME NEW job, NEW pc, NEW a, NEW b, Seen(job, pc, a), Keeps(a, b)
    PROVE  Seen(job, pc, b)
BY DEF Seen, Keeps

LEMMA ProvisioningInitInv == ProvisioningInit => ProvisioningInv
<1> SUFFICES ASSUME ProvisioningInit PROVE ProvisioningInv
  OBVIOUS
<1>1. PICK admin \in Admins, args \in ConfigArgs, funded \in StartLamports :
        accounts \in InitializeConfig(
            [config |-> None, snapshot |-> None, vault_registry |-> None,
             lamports |-> [p \in Paying |-> IF p = "payer" THEN funded ELSE 0],
             ncn_admin |-> admin, slot |-> 0], admin, args, admin)
  BY DEF ProvisioningInit
<1> DEFINE l == [p \in Paying |-> IF p = "payer" THEN funded ELSE 0]
           a == [config |-> None, snapshot |-> None, vault_registry |-> None,
                 lamports |-> l, ncn_admin |-> admin, slot |-> 0]
<1>2. l \in [Paying -> Nat]
  BY ProvisioningAssumption
<1> HIDE DEF l
<1>3. AccountsInv(a)
  <2>1. a \in Accounts /\ a.config = None /\ a.snapshot = None /\ a.vault_registry = None
    BY <1>2 DEF Accounts
  <2> HIDE DEF a
  <2>2. QED
    BY <2>1 DEF AccountsInv, RentInv
<1>4. accounts \in InitializeConfig(a, admin, args, admin)
  BY <1>1 DEF l
<1> HIDE DEF a
<1>5. AccountsInv(accounts)
  BY <1>3, <1>4, InitializeConfigInv
<1>6. client = [c \in Clients |-> [pc |-> "read", tries |-> 0]]
  BY DEF ProvisioningInit
<1>7. client \in [Clients -> Client]
  BY <1>6, ProvisioningAssumption DEF Client, PCs
<1>8. \A c \in Clients : Seen(Job[c], client[c].pc, accounts)
  BY <1>6 DEF Seen
<1>9. QED
  BY <1>5, <1>7, <1>8 DEF ProvisioningInv

\* A client moves on, the others having seen what they saw.
LEMMA ClientMoves ==
    ASSUME ProvisioningInv, NEW c \in Clients, NEW new \in Client,
           client' = [client EXCEPT ![c] = new],
           AccountsInv(accounts'), Keeps(accounts, accounts'),
           Seen(Job[c], new.pc, accounts')
    PROVE  ProvisioningInv'
<1>1. client' \in [Clients -> Client]
  BY DEF ProvisioningInv
<1>2. ASSUME NEW d \in Clients PROVE Seen(Job[d], client'[d].pc, accounts')
  <2>1. CASE d = c
    BY <2>1 DEF ProvisioningInv
  <2>2. CASE d # c
    BY <2>2, SeenKept DEF ProvisioningInv
  <2>3. QED
    BY <2>1, <2>2
<1>3. QED
  BY <1>1, <1>2 DEF ProvisioningInv

LEMMA ClientGoes ==
    ASSUME ProvisioningInv, NEW c \in Clients, NEW pc \in PCs, Goto(c, pc),
           AccountsInv(accounts'), Keeps(accounts, accounts'),
           Seen(Job[c], pc, accounts')
    PROVE  ProvisioningInv'
<1>1. [pc |-> pc, tries |-> 0] \in Client
  BY ProvisioningAssumption DEF Client
<1>2. QED
  BY <1>1, ClientMoves DEF Goto

LEMMA ProvisioningNextInv ==
    ProvisioningInv /\ [ProvisioningNext]_provisioningVars => ProvisioningInv'
<1> SUFFICES ASSUME ProvisioningInv, [ProvisioningNext]_provisioningVars
             PROVE  ProvisioningInv'
  OBVIOUS
<1>1. AccountsInv(accounts) /\ Keeps(accounts, accounts)
  BY DEF ProvisioningInv, Keeps
<1>2. \A c \in Clients :
        /\ Job[c] \in {"snapshot", "vault_registry"} /\ client[c] \in Client
        /\ Seen(Job[c], client[c].pc, accounts)
  BY ProvisioningAssumption DEF ProvisioningInv
<1>3. ASSUME NEW c \in Clients, Read(c) PROVE ProvisioningInv'
  <2>1. CASE Missing(c)
    BY <1>1, <1>3, <2>1, ClientGoes DEF Read, PCs, Seen
  <2>2. CASE ~Missing(c)
    <3>1. Found(c) \in PCs /\ Seen(Job[c], Found(c), accounts)
      BY <1>2, <2>2 DEF Missing, Found, PCs, Seen
    <3>2. QED
      BY <1>1, <1>3, <2>2, <3>1, ClientGoes DEF Read
  <2>3. QED
    BY <2>1, <2>2
<1>4. ASSUME NEW c \in Clients, SendConfirmed(c) PROVE ProvisioningInv'
  <2>1. /\ AccountsInv(accounts') /\ Keeps(accounts, accounts')
        /\ Job[c] = "vault_registry" /\ client[c].pc = "init" => accounts'.vault_registry # None
        /\ Job[c] = "vault_registry" /\ client[c].pc = "grow" => accounts' = accounts
    BY <1>1, <1>4, OutcomesKeep DEF SendConfirmed
  <2>2. client[c].pc \in {"init", "grow"}
    BY <1>4 DEF SendConfirmed, Sending
  <2>3. AfterSending(c) \in PCs /\ Seen(Job[c], AfterSending(c), accounts')
    BY <1>2, <2>1, <2>2 DEF AfterSending, PCs, Seen
  <2>4. QED
    BY <1>4, <2>1, <2>3, ClientGoes DEF SendConfirmed
<1>5. ASSUME NEW c \in Clients, SendFailed(c) PROVE ProvisioningInv'
  <2>1. AccountsInv(accounts') /\ Keeps(accounts, accounts')
    <3>1. CASE UNCHANGED accounts
      BY <1>1, <3>1
    <3>2. CASE accounts' \in Outcomes(c, accounts)
      BY <1>1, <1>5, <3>2, OutcomesKeep DEF SendFailed
    <3>3. QED
      BY <1>5, <3>1, <3>2 DEF SendFailed
  <2>2. CASE client[c].tries < Retries
    <3> DEFINE new == [pc |-> client[c].pc, tries |-> client[c].tries + 1]
    <3>1. client' = [client EXCEPT ![c] = new]
      BY <1>5, <2>2 DEF SendFailed, TryAgain
    <3>2. new \in Client /\ new.pc = client[c].pc
      BY <1>2, <2>2, ProvisioningAssumption DEF Client
    <3> HIDE DEF new
    <3>3. QED
      BY <1>2, <2>1, <3>1, <3>2, SeenKept, ClientMoves
  <2>3. CASE ~(client[c].tries < Retries)
    <3> DEFINE new == [pc |-> "failed", tries |-> 0]
    <3>1. client' = [client EXCEPT ![c] = new]
      BY <1>5, <2>3 DEF SendFailed, TryAgain
    <3>2. new \in Client /\ Seen(Job[c], new.pc, accounts')
      BY ProvisioningAssumption DEF Client, PCs, Seen
    <3> HIDE DEF new
    <3>3. QED
      BY <2>1, <3>1, <3>2, ClientMoves
  <2>4. QED
    BY <2>2, <2>3
<1>6. ASSUME NEW c \in Clients, CheckCreated(c) PROVE ProvisioningInv'
  BY <1>1, <1>2, <1>6, ClientGoes DEF CheckCreated, PCs, Seen
<1>7. ASSUME NEW c \in Clients, GetSnapshot(c) PROVE ProvisioningInv'
  <2> DEFINE next == IF accounts.snapshot.initialized THEN "done" ELSE "failed"
  <2>1. next \in PCs /\ Seen(Job[c], next, accounts)
    BY <1>2, <1>7 DEF GetSnapshot, PCs, Seen, Ready
  <2>2. QED
    BY <1>1, <1>7, <2>1, ClientGoes DEF GetSnapshot
<1>8. ASSUME NEW c \in Clients, Restart(c) PROVE ProvisioningInv'
  BY <1>1, <1>8, ClientGoes DEF Restart, PCs, Seen
<1>9. ASSUME NEW c \in Clients, Interrupted(c) PROVE ProvisioningInv'
  BY <1>1, <1>9, ClientGoes DEF Interrupted, PCs, Seen
<1>10. CASE Others
  <2>1. AccountsInv(accounts') /\ Keeps(accounts, accounts')
    BY <1>1, <1>10, ReallocSnapshotKeeps, UseSnapshotKeeps, TransferKeeps DEF Others
  <2>2. \A c \in Clients : Seen(Job[c], client[c].pc, accounts')
    BY <1>2, <2>1, SeenKept
  <2>3. QED
    BY <1>10, <2>1, <2>2 DEF Others, ProvisioningInv
<1>11. CASE UNCHANGED provisioningVars
  BY <1>11 DEF provisioningVars, ProvisioningInv
<1>12. QED
  BY <1>3, <1>4, <1>5, <1>6, <1>7, <1>8, <1>9, <1>10, <1>11 DEF ProvisioningNext, Step

\* The invariant holds whatever is lost, retried, interrupted or interleaved.
THEOREM ProvisioningInvariance == ProvisioningSafety => []ProvisioningInv
<1>1. ProvisioningInv /\ [ProvisioningNext]_provisioningVars => ProvisioningInv'
  BY ProvisioningNextInv
<1>2. QED
  BY <1>1, ProvisioningInitInv, PTL DEF ProvisioningSafety

\* instructions.rs:926, keeper_loop.rs:70: a process that took its account for
\* provided is right, for any number of processes, retries and faults.
THEOREM ProvidedWhenDone == ProvisioningSafety => []DoneMeansProvided
<1>1. ProvisioningInv => DoneMeansProvided
  BY ProvisioningAssumption
  DEF ProvisioningInv, DoneMeansProvided, Seen, Ready, AccountsInv, SnapshotInv
<1>2. QED
  BY <1>1, ProvisioningInvariance, PTL

\* The clients' behaviours never strand a snapshot either.
THEOREM ClientsLetItGrow == ProvisioningSafety => []ShortSnapshotCanGrow
<1>1. ProvisioningInv => ShortSnapshotCanGrow
  BY InvLetsItGrow DEF ProvisioningInv
<1>2. QED
  BY <1>1, ProvisioningInvariance, PTL

\* The clients' transactions are the instructions of SnapshotAccount, so that
\* what holds of any accounts under them holds when they are used.
THEOREM ProvisioningKeepsTypes == ProvisioningSafety => []ProvisioningTypeOK
<1>1. ProvisioningInv => ProvisioningTypeOK
  BY DEF ProvisioningInv, ProvisioningTypeOK, AccountsTypeOK, AccountsInv, SnapshotInv
<1>2. QED
  BY <1>1, ProvisioningInvariance, PTL
===============================================================================
