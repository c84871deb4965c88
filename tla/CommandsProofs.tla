---------------------------- MODULE CommandsProofs ----------------------------
(***************************************************************************)
(* Proofs about Commands, for any number of processes, users' commands,    *)
(* retries, operators and vaults.                                          *)
(*                                                                         *)
(* An instruction is first reduced to what it may do to the ledger.  The   *)
(* invariants of the processes then speak of the attempts each of them has *)
(* outstanding, and of what is left of the list it began with.             *)
(***************************************************************************)
EXTENDS Commands, FiniteSetTheorems, SequenceTheorems, TLAPS

(***************************************************************************)
(* Instructions                                                            *)
(***************************************************************************)

Cranks == {"CrankRegisterVaults", "CrankSnapshot"}

Instruction == {i \in ProgramCommand : i.command \notin Cranks}

\* Those whose numbers are a user's are a user's.
Asked(s) ==
    {i \in Instruction :
        i.command \in {"AdminCreateConfig", "UpdateOperatorIpPort"} => i \in s.requests}

Ledger ==
    [config: Config \cup {None}, payer: Nat,
     mints: SUBSET {SupportedMint[v] : v \in DOMAIN SupportedMint},
     vaults: Seq(NcnVaults),
     operators: [NcnOperators -> {"none", "active", "removed"}],
     address: [NcnOperators -> Seq(Nat) \cup {None}],
     counted: SUBSET NcnOperators, generation: Nat]

\* What an instruction is, by its command.
LEMMA InstructionFields ==
    ASSUME NEW i \in Instruction
    PROVE  /\ i.command \in {"AdminCreateConfig", "AdminSetParameters", "AdminSetNewAdmin",
                             "AdminFundAccountPayer", "AdminRegisterStMint", "RegisterVault",
                             "RegisterOperator", "RemoveOperator", "UpdateOperatorIpPort",
                             "SnapshotVaultOperatorDelegation", "VerifyCertificate"}
           /\ i.command = "AdminCreateConfig" =>
                /\ i.tie_breaker_admin \in Keys \cup {None}
                /\ i.epochs_before_stall \in Nat /\ i.ncn_fee_bps \in Nat
           /\ i.command = "AdminSetParameters" => i.epochs_before_stall \in Nat \cup {None}
           /\ i.command = "AdminSetNewAdmin" => i.new_admin \in Keys
           /\ i.command = "AdminFundAccountPayer" => i.amount \in Nat
           /\ i.command \in {"AdminRegisterStMint", "RegisterVault"} =>
                i.vault \in DOMAIN SupportedMint
           /\ i.command \in {"RegisterOperator", "RemoveOperator", "UpdateOperatorIpPort",
                             "SnapshotVaultOperatorDelegation"} => i.operator \in NcnOperators
           /\ i.command = "UpdateOperatorIpPort" => i.ip_address \in Seq(Nat)
           /\ i.command = "SnapshotVaultOperatorDelegation" => i.vault \in NcnVaults
BY DEF Instruction, ProgramCommand, Cranks

-------------------------------------------------------------------------------
(***************************************************************************)
(* What an instruction does to the ledger: one lemma for each.             *)
(***************************************************************************)

\* Nothing is undone: accounts stay, lists grow, and an operator's state only
\* goes from none to active to removed.
Onward(l, m) ==
    /\ l.config # None => m.config # None
    /\ l.mints \subseteq m.mints
    /\ RegisteredVaults(l) \subseteq RegisteredVaults(m)
    /\ \A o \in NcnOperators :
         /\ l.operators[o] # "none" => m.operators[o] # "none"
         /\ l.operators[o] = "removed" => m.operators[o] = "removed"
         /\ o \in l.counted /\ m.operators[o] = "active" => o \in m.counted

\* Where the numbers on chain come from.
Setting(l, i, m) ==
    /\ m.config # None =>
         \/ l.config # None /\ m.config.ncn_fee_bps = l.config.ncn_fee_bps
         \/ i.command = "AdminCreateConfig" /\ m.config.ncn_fee_bps = i.ncn_fee_bps
    /\ \A o \in NcnOperators :
         \/ m.address[o] = l.address[o]
         \/ i.command = "UpdateOperatorIpPort" /\ i.operator = o /\ m.address[o] = i.ip_address

\* How the operators and the generation change together.
Counting(l, m) ==
    \/ m.operators = l.operators /\ m.generation = l.generation
    \/ /\ m.generation = l.generation + 1
       /\ \E o \in NcnOperators :
            /\ \/ l.operators[o] = "none" /\ m.operators = [l.operators EXCEPT ![o] = "active"]
               \/ l.operators[o] = "active" /\ m.operators = [l.operators EXCEPT ![o] = "removed"]

LedgerStep(l, i, m) == m \in Ledger /\ Onward(l, m) /\ Setting(l, i, m) /\ Counting(l, m)

\* The Config is written, and nothing else.
LEMMA ConfigStep ==
    ASSUME NEW l \in Ledger, NEW i, NEW c \in Config,
           \/ l.config # None /\ c.ncn_fee_bps = l.config.ncn_fee_bps
           \/ i.command = "AdminCreateConfig" /\ c.ncn_fee_bps = i.ncn_fee_bps,
           NEW m, m = [l EXCEPT !.config = c]
    PROVE  LedgerStep(l, i, m)
<1>1. c # None
  BY LedgerAssumption
<1>2. /\ m \in Ledger /\ m.config = c
      /\ m.mints = l.mints /\ m.vaults = l.vaults /\ m.operators = l.operators
      /\ m.address = l.address /\ m.counted = l.counted /\ m.generation = l.generation
  BY DEF Ledger
<1>3. QED
  BY <1>1, <1>2 DEF LedgerStep, Onward, Setting, Counting, RegisteredVaults

LEMMA CreateConfigStep ==
    ASSUME NEW l \in Ledger, NEW i \in Instruction, NEW signer \in Keys,
           i.command = "AdminCreateConfig", NEW m \in admin_create_config(l, i, signer)
    PROVE  LedgerStep(l, i, m)
<1> DEFINE c == [tie_breaker_admin |-> IF i.tie_breaker_admin = None THEN signer
                                       ELSE i.tie_breaker_admin,
                 epochs_before_stall |-> i.epochs_before_stall,
                 ncn_fee_bps |-> i.ncn_fee_bps]
<1>1. m = [l EXCEPT !.config = c]
  BY DEF admin_create_config, When
<1>2. c \in Config /\ c.ncn_fee_bps = i.ncn_fee_bps
  BY InstructionFields DEF Config
<1> HIDE DEF c
<1>3. QED
  BY <1>1, <1>2, ConfigStep

LEMMA SetNewAdminStep ==
    ASSUME NEW l \in Ledger, NEW i \in Instruction, NEW signer \in Keys,
           i.command = "AdminSetNewAdmin", NEW m \in admin_set_new_admin(l, i, signer)
    PROVE  LedgerStep(l, i, m)
<1> DEFINE c == [l.config EXCEPT !.tie_breaker_admin = i.new_admin]
<1>1. l.config # None /\ m = [l EXCEPT !.config = c]
  BY DEF admin_set_new_admin, When
<1>2. l.config \in Config
  BY <1>1 DEF Ledger
<1>3. c \in Config /\ c.ncn_fee_bps = l.config.ncn_fee_bps
  BY <1>2, InstructionFields DEF Config
<1> HIDE DEF c
<1>4. QED
  BY <1>1, <1>3, ConfigStep

LEMMA SetParametersStep ==
    ASSUME NEW l \in Ledger, NEW i \in Instruction, NEW signer \in Keys,
           i.command = "AdminSetParameters", NEW m \in admin_set_parameters(l, i, signer)
    PROVE  LedgerStep(l, i, m)
<1> DEFINE e == IF i.epochs_before_stall = None THEN l.config.epochs_before_stall
                ELSE i.epochs_before_stall
           c == [l.config EXCEPT !.epochs_before_stall = e]
<1>1. l.config # None /\ m = [l EXCEPT !.config = c]
  BY DEF admin_set_parameters, When
<1>2. l.config \in Config
  BY <1>1 DEF Ledger
<1>3. e \in Nat
  BY <1>2, InstructionFields DEF Config
<1> HIDE DEF e
<1>4. c \in Config /\ c.ncn_fee_bps = l.config.ncn_fee_bps
  BY <1>2, <1>3 DEF Config
<1> HIDE DEF c
<1>5. QED
  BY <1>1, <1>4, ConfigStep

LEMMA FundStep ==
    ASSUME NEW l \in Ledger, NEW i \in Instruction,
           i.command = "AdminFundAccountPayer", NEW m \in admin_fund_account_payer(l, i)
    PROVE  LedgerStep(l, i, m)
<1>1. m = [l EXCEPT !.payer = l.payer + i.amount] /\ i.amount \in Nat
  BY InstructionFields DEF admin_fund_account_payer
<1>2. /\ m \in Ledger /\ m.config = l.config
      /\ m.mints = l.mints /\ m.vaults = l.vaults /\ m.operators = l.operators
      /\ m.address = l.address /\ m.counted = l.counted /\ m.generation = l.generation
  BY <1>1 DEF Ledger
<1>3. QED
  BY <1>2 DEF LedgerStep, Onward, Setting, Counting, RegisteredVaults

LEMMA RegisterStMintStep ==
    ASSUME NEW l \in Ledger, NEW i \in Instruction, NEW signer \in Keys,
           i.command = "AdminRegisterStMint", NEW m \in admin_register_st_mint(l, i, signer)
    PROVE  LedgerStep(l, i, m) /\ SupportedMint[i.vault] \in m.mints
<1>1. m = [l EXCEPT !.mints = l.mints \cup {SupportedMint[i.vault]}]
  BY DEF admin_register_st_mint, When
<1>2. i.vault \in DOMAIN SupportedMint
  BY InstructionFields
<1>3. /\ m \in Ledger /\ m.config = l.config
      /\ m.mints = l.mints \cup {SupportedMint[i.vault]}
      /\ m.vaults = l.vaults /\ m.operators = l.operators
      /\ m.address = l.address /\ m.counted = l.counted /\ m.generation = l.generation
  BY <1>1, <1>2 DEF Ledger
<1>4. QED
  BY <1>3 DEF LedgerStep, Onward, Setting, Counting, RegisteredVaults

LEMMA RegisterVaultStep ==
    ASSUME NEW l \in Ledger, NEW i \in Instruction,
           i.command = "RegisterVault", NEW m \in register_vault(l, i)
    PROVE  LedgerStep(l, i, m) /\ i.vault \in RegisteredVaults(m)
<1> DEFINE vaults == IF i.vault \in RegisteredVaults(l) THEN l.vaults ELSE Append(l.vaults, i.vault)
<1>1. m = [l EXCEPT !.vaults = vaults] /\ i.vault \in NcnVaults
  BY DEF register_vault, When
<1>2. l.vaults \in Seq(NcnVaults)
  BY DEF Ledger
<1>3. vaults \in Seq(NcnVaults)
  BY <1>1, <1>2
<1>4. /\ RegisteredVaults(l) \subseteq {vaults[k] : k \in DOMAIN vaults}
      /\ i.vault \in {vaults[k] : k \in DOMAIN vaults}
  <2>1. CASE i.vault \in RegisteredVaults(l)
    BY <2>1 DEF RegisteredVaults
  <2>2. CASE i.vault \notin RegisteredVaults(l)
    <3>1. vaults = Append(l.vaults, i.vault)
      BY <2>2
    <3>2. /\ \A k \in DOMAIN l.vaults : k \in DOMAIN vaults /\ vaults[k] = l.vaults[k]
          /\ Len(l.vaults) + 1 \in DOMAIN vaults /\ vaults[Len(l.vaults) + 1] = i.vault
      BY <1>2, <3>1
    <3> HIDE DEF vaults
    <3>3. QED
      BY <3>2 DEF RegisteredVaults
  <2>3. QED
    BY <2>1, <2>2
<1> HIDE DEF vaults
<1>5. /\ m \in Ledger /\ m.config = l.config
      /\ m.vaults = vaults /\ m.mints = l.mints /\ m.operators = l.operators
      /\ m.address = l.address /\ m.counted = l.counted /\ m.generation = l.generation
  BY <1>1, <1>3 DEF Ledger
<1>6. RegisteredVaults(m) = {vaults[k] : k \in DOMAIN vaults}
  BY <1>5 DEF RegisteredVaults
<1>7. QED
  BY <1>4, <1>5, <1>6 DEF LedgerStep, Onward, Setting, Counting

LEMMA RegisterOperatorStep ==
    ASSUME NEW l \in Ledger, NEW i \in Instruction, NEW signer \in Keys,
           i.command = "RegisterOperator", NEW m \in register_operator(l, i, signer)
    PROVE  LedgerStep(l, i, m) /\ m.operators[i.operator] # "none"
<1> DEFINE operators == [l.operators EXCEPT ![i.operator] = "active"]
           generation == l.generation + 1
<1>1. /\ m = [l EXCEPT !.operators = operators, !.generation = generation]
      /\ l.operators[i.operator] = "none"
  BY DEF register_operator, When
<1>2. i.operator \in NcnOperators
  BY InstructionFields
<1>3. /\ operators \in [NcnOperators -> {"none", "active", "removed"}]
      /\ operators[i.operator] = "active"
      /\ \A o \in NcnOperators : o # i.operator => operators[o] = l.operators[o]
      /\ generation \in Nat
  BY <1>2 DEF Ledger
<1> HIDE DEF operators, generation
<1>4. /\ m \in Ledger /\ m.config = l.config
      /\ m.operators = operators /\ m.generation = generation
      /\ m.mints = l.mints /\ m.vaults = l.vaults
      /\ m.address = l.address /\ m.counted = l.counted
  BY <1>1, <1>3 DEF Ledger
<1>5. Onward(l, m)
  BY <1>1, <1>3, <1>4 DEF Onward, RegisteredVaults
<1>6. Counting(l, m)
  BY <1>1, <1>2, <1>4 DEF Counting, operators, generation
<1>7. QED
  BY <1>3, <1>4, <1>5, <1>6 DEF LedgerStep, Setting

LEMMA UpdateIpPortStep ==
    ASSUME NEW l \in Ledger, NEW i \in Instruction, NEW signer \in Keys,
           i.command = "UpdateOperatorIpPort", NEW m \in update_operator_ip_port(l, i, signer)
    PROVE  LedgerStep(l, i, m)
<1> DEFINE address == [l.address EXCEPT ![i.operator] = i.ip_address]
<1>1. m = [l EXCEPT !.address = address]
  BY DEF update_operator_ip_port, When
<1>2. i.operator \in NcnOperators /\ i.ip_address \in Seq(Nat)
  BY InstructionFields
<1>3. /\ address \in [NcnOperators -> Seq(Nat) \cup {None}]
      /\ address[i.operator] = i.ip_address
      /\ \A o \in NcnOperators : o # i.operator => address[o] = l.address[o]
  BY <1>2 DEF Ledger
<1> HIDE DEF address
<1>4. /\ m \in Ledger /\ m.config = l.config /\ m.address = address
      /\ m.mints = l.mints /\ m.vaults = l.vaults /\ m.operators = l.operators
      /\ m.counted = l.counted /\ m.generation = l.generation
  BY <1>1, <1>3 DEF Ledger
<1>5. Setting(l, i, m)
  BY <1>3, <1>4 DEF Setting
<1>6. QED
  BY <1>4, <1>5 DEF LedgerStep, Onward, Counting, RegisteredVaults

LEMMA RemoveOperatorStep ==
    ASSUME NEW l \in Ledger, NEW i \in Instruction, NEW signer \in Keys,
           i.command = "RemoveOperator", NEW m \in remove_operator(l, i, signer)
    PROVE  LedgerStep(l, i, m) /\ m.operators[i.operator] = "removed"
<1> DEFINE operators == [l.operators EXCEPT ![i.operator] = "removed"]
           generation == l.generation + 1
           counted == l.counted \ {i.operator}
<1>1. /\ m = [l EXCEPT !.operators = operators, !.counted = counted,
                       !.generation = generation]
      /\ l.operators[i.operator] = "active"
  BY DEF remove_operator, When
<1>2. i.operator \in NcnOperators
  BY InstructionFields
<1>3. /\ operators \in [NcnOperators -> {"none", "active", "removed"}]
      /\ operators[i.operator] = "removed"
      /\ \A o \in NcnOperators : o # i.operator => operators[o] = l.operators[o]
      /\ counted \subseteq NcnOperators /\ generation \in Nat
  BY <1>2 DEF Ledger
<1> HIDE DEF operators, counted, generation
<1>4. /\ m \in Ledger /\ m.config = l.config
      /\ m.operators = operators /\ m.generation = generation
      /\ m.counted = counted
      /\ m.mints = l.mints /\ m.vaults = l.vaults /\ m.address = l.address
  BY <1>1, <1>3 DEF Ledger
<1>5. Onward(l, m)
  BY <1>1, <1>3, <1>4 DEF Onward, RegisteredVaults, counted
<1>6. Counting(l, m)
  BY <1>1, <1>2, <1>4 DEF Counting, operators, generation
<1>7. QED
  BY <1>3, <1>4, <1>5, <1>6 DEF LedgerStep, Setting

LEMMA SnapshotDelegationStep ==
    ASSUME NEW l \in Ledger, NEW i \in Instruction,
           i.command = "SnapshotVaultOperatorDelegation",
           NEW m \in snapshot_vault_operator_delegation(l, i)
    PROVE  LedgerStep(l, i, m) /\ i.operator \in m.counted
<1> DEFINE counted == l.counted \cup {i.operator}
<1>1. m = [l EXCEPT !.counted = counted]
  BY DEF snapshot_vault_operator_delegation, When
<1>2. counted \subseteq NcnOperators /\ l.counted \subseteq counted /\ i.operator \in counted
  BY InstructionFields DEF Ledger
<1> HIDE DEF counted
<1>3. /\ m \in Ledger /\ m.config = l.config /\ m.counted = counted
      /\ m.mints = l.mints /\ m.vaults = l.vaults /\ m.operators = l.operators
      /\ m.address = l.address /\ m.generation = l.generation
  BY <1>1, <1>2 DEF Ledger
<1>4. QED
  BY <1>2, <1>3 DEF LedgerStep, Onward, Setting, Counting, RegisteredVaults

LEMMA LedgerStays == ASSUME NEW l \in Ledger, NEW i PROVE LedgerStep(l, i, l)
BY DEF LedgerStep, Onward, Setting, Counting

LEMMA ExecutedStep ==
    ASSUME NEW l \in Ledger, NEW i \in Instruction, NEW signer \in Keys,
           NEW m \in Executed(l, i, signer)
    PROVE  LedgerStep(l, i, m)
<1>1. CASE i.command = "AdminCreateConfig"
  BY <1>1, CreateConfigStep DEF Executed
<1>2. CASE i.command = "AdminRegisterStMint"
  BY <1>2, RegisterStMintStep DEF Executed
<1>3. CASE i.command = "AdminSetNewAdmin"
  BY <1>3, SetNewAdminStep DEF Executed
<1>4. CASE i.command = "AdminSetParameters"
  BY <1>4, SetParametersStep DEF Executed
<1>5. CASE i.command = "AdminFundAccountPayer"
  BY <1>5, FundStep DEF Executed
<1>6. CASE i.command = "RegisterVault"
  BY <1>6, RegisterVaultStep DEF Executed
<1>7. CASE i.command = "RegisterOperator"
  BY <1>7, RegisterOperatorStep DEF Executed
<1>8. CASE i.command = "UpdateOperatorIpPort"
  BY <1>8, UpdateIpPortStep DEF Executed
<1>9. CASE i.command = "RemoveOperator"
  BY <1>9, RemoveOperatorStep DEF Executed
<1>10. CASE i.command = "SnapshotVaultOperatorDelegation"
  BY <1>10, SnapshotDelegationStep DEF Executed
<1>11. CASE i.command = "VerifyCertificate"
  BY <1>11, LedgerStays DEF Executed, verify_certificate, When
<1>12. QED
  BY <1>1, <1>2, <1>3, <1>4, <1>5, <1>6, <1>7, <1>8, <1>9, <1>10, <1>11, InstructionFields

-------------------------------------------------------------------------------
(***************************************************************************)
(* The processes                                                           *)
(***************************************************************************)

ProcessFields == {"pc", "todo", "stops", "goal", "tries", "transaction", "result", "landed"}

\* A command that stops at an error has one transaction, so that nothing is
\* left undone when it stops.
ProcessOK(p) ==
    /\ DOMAIN process[p] = ProcessFields
    /\ process[p].pc \in {"idle", "send", "wait"}
    /\ process[p].todo \in Seq(Asked(session))
    /\ process[p].pc # "idle" =>
         /\ process[p].todo # <<>>
         /\ process[p].stops => Tail(process[p].todo) = <<>>

AttemptOK(n) ==
    /\ n = InNetwork(n.attempt, n.status)
    /\ n.attempt.of \in Processes
    /\ n.attempt.instruction \in Asked(session)

CommandsInv ==
    /\ session \in Sessions
    /\ ledger \in Ledger
    /\ DOMAIN process = Processes
    /\ \A p \in Processes : ProcessOK(p)
    /\ \A n \in network : AttemptOK(n)

\* An enumeration of a finite set is a sequence.
LEMMA EnumerationIsSeq ==
    ASSUME NEW S, IsFiniteSet(S)
    PROVE  SetToSeq(S) \in Seq(S)
<1>1. Cardinality(S) \in Nat /\ ExistsBijection(1 .. Cardinality(S), S)
  BY FS_CardinalityType
<1>2. \E f \in [1 .. Cardinality(S) -> S] : IsInjective(f)
  BY <1>1 DEF ExistsBijection, Bijection, Injection, IsInjective
<1>3. SetToSeq(S) \in [1 .. Cardinality(S) -> S]
  BY <1>2 DEF SetToSeq
<1>4. QED
  BY <1>1, <1>3

\* The conversions leave a command what it is; only an amount is rounded.
LEMMA ConvertedIsAsked ==
    ASSUME CommandsInv, NEW q \in session.requests, NEW r \in Converted(q)
    PROVE  /\ r \in ProgramCommand
           /\ r.command = q.command
           /\ r.command # "AdminFundAccountPayer" => r = q
<1>1. q \in ProgramCommand
  BY CommandsAssumption DEF CommandsInv
<1>2. CASE q.command = "AdminFundAccountPayer"
  <2>1. q \in [command: {"AdminFundAccountPayer"}, amount: Nat]
    BY <1>1, <1>2 DEF ProgramCommand
  <2>2. r = [q EXCEPT !.amount = sol_to_lamports(q.amount)]
    BY <1>2 DEF Converted
  <2>3. sol_to_lamports(q.amount) \in Nat
    <3>1. q.amount \in Nat /\ LAMPORT \in Nat \ {0}
      BY <2>1, LedgerAssumption
    <3>2. QED
      BY <3>1 DEF sol_to_lamports
  <2>4. r \in [command: {"AdminFundAccountPayer"}, amount: Nat]
    BY <2>1, <2>2, <2>3
  <2>5. QED
    BY <1>2, <2>4 DEF ProgramCommand
<1>3. CASE q.command # "AdminFundAccountPayer"
  BY <1>1, <1>3 DEF Converted, When
<1>4. QED
  BY <1>2, <1>3

\* Whatever a command becomes is instructions, with the user's numbers.
LEMMA InstructionsAreAsked ==
    ASSUME CommandsInv, NEW q \in session.requests, NEW r \in Converted(q)
    PROVE  /\ Instructions(r) \in Seq(Asked(session))
           /\ StopsAtError(q) => Len(Instructions(r)) <= 1
<1>1. /\ r \in ProgramCommand
      /\ r.command # "AdminFundAccountPayer" => r \in session.requests
      /\ r.command = q.command
  BY ConvertedIsAsked
<1>2. CASE r.command = "CrankRegisterVaults"
  <2> DEFINE S == NcnVaults \ RegisteredVaults(ledger)
             s == SetToSeq(S)
  <2>1. s \in Seq(S)
    <3>1. IsFiniteSet(S)
      BY LedgerAssumption, FS_Subset
    <3> HIDE DEF S
    <3>2. QED
      BY <3>1, EnumerationIsSeq
  <2>2. \A v \in S : RegisterVaultOf(v) \in Asked(session)
    BY LedgerAssumption DEF RegisterVaultOf, Asked, Instruction, ProgramCommand, Cranks
  <2>3. Instructions(r) = [k \in DOMAIN s |-> RegisterVaultOf(s[k])]
    BY <1>2 DEF Instructions, crank_register_vaults, ForEach
  <2> HIDE DEF S, s
  <2>4. [k \in DOMAIN s |-> RegisterVaultOf(s[k])] \in Seq(Asked(session))
    BY <2>1, <2>2
  <2>5. QED
    BY <1>1, <1>2, <2>3, <2>4 DEF StopsAtError
<1>3. CASE r.command = "CrankSnapshot"
  <2> DEFINE S == {o \in NcnOperators : ledger.vaults # <<>>}
             s == SetToSeq(S)
  <2>1. s \in Seq(S)
    <3>1. IsFiniteSet(S)
      BY LedgerAssumption, FS_Subset
    <3> HIDE DEF S
    <3>2. QED
      BY <3>1, EnumerationIsSeq
  <2>2. \A o \in S : Snapshotted(Head(ledger.vaults), o) \in Asked(session)
    <3> SUFFICES ASSUME NEW o \in S PROVE Snapshotted(Head(ledger.vaults), o) \in Asked(session)
      OBVIOUS
    <3>1. Head(ledger.vaults) \in NcnVaults /\ o \in NcnOperators
      BY DEF CommandsInv, Ledger
    <3>2. QED
      BY <3>1 DEF Snapshotted, Asked, Instruction, ProgramCommand, Cranks
  <2>3. Instructions(r) = [k \in DOMAIN s |-> Snapshotted(Head(ledger.vaults), s[k])]
    BY <1>3 DEF Instructions, crank_snapshot, ForEach
  <2> HIDE DEF S, s
  <2>4. [k \in DOMAIN s |-> Snapshotted(Head(ledger.vaults), s[k])] \in Seq(Asked(session))
    BY <2>1, <2>2
  <2>5. QED
    BY <1>1, <1>3, <2>3, <2>4 DEF StopsAtError
<1>4. CASE r.command \notin Cranks
  <2>1. r \in Asked(session)
    BY <1>1, <1>4 DEF Asked, Instruction
  <2>2. CASE r.command = "AdminSetNewAdmin"
    BY <2>1, <2>2 DEF Instructions
  <2>3. CASE r.command = "VerifyCertificate" /\ r.expected_generation = None
    <3>1. [r EXCEPT !.expected_generation = ledger.generation] \in Asked(session)
      <4>1. r \in [command: {"VerifyCertificate"}, expected_generation: Nat \cup {None}]
        BY <1>1, <2>3 DEF ProgramCommand
      <4>2. ledger.generation \in Nat
        BY DEF CommandsInv, Ledger
      <4>3. QED
        BY <4>1, <4>2 DEF Asked, Instruction, ProgramCommand, Cranks
    <3>2. Instructions(r) = <<[r EXCEPT !.expected_generation = ledger.generation]>>
      BY <2>3 DEF Instructions
    <3>3. QED
      BY <3>1, <3>2
  <2>4. CASE /\ r.command # "AdminSetNewAdmin"
             /\ ~(r.command = "VerifyCertificate" /\ r.expected_generation = None)
    <3>1. Instructions(r) = <<r>>
      BY <1>4, <2>4 DEF Instructions, Cranks
    <3>2. QED
      BY <2>1, <3>1
  <2>5. QED
    BY <2>2, <2>3, <2>4
<1>5. QED
  BY <1>2, <1>3, <1>4 DEF Cranks

-------------------------------------------------------------------------------
(***************************************************************************)
(* What a step changes: at most one process, in one of these ways.         *)
(***************************************************************************)

Others(p) == DOMAIN process' = Processes /\ \A o \in Processes \ {p} : process'[o] = process[o]

\* A command is started, and may have nothing to send.
LEMMA HandleEffect ==
    ASSUME CommandsInv, UNCHANGED session, NEW p \in Processes, NEW r \in session.requests, Handle(p, r)
    PROVE  /\ Others(p) /\ UNCHANGED <<ledger, network>>
           /\ process[p].pc = "idle"
           /\ \E i \in Seq(Asked(session)) :
                process'[p] =
                  [pc |-> IF i = <<>> THEN "idle" ELSE "send", todo |-> i,
                   stops |-> StopsAtError(r), goal |-> {x \in ToSet(i) : Executable(p, x)},
                   tries |-> 0, transaction |-> <<commands + 1, Len(i)>>,
                   result |-> None, landed |-> 0]
           /\ ProcessOK(p)'
<1>1. PICK x \in Converted(r) : Run(p, r, Instructions(x))
  BY DEF Handle
<1> DEFINE i == Instructions(x)
<1>3. i \in Seq(Asked(session)) /\ (StopsAtError(r) => Len(i) <= 1)
  BY InstructionsAreAsked
<1> HIDE DEF i
<1>4. process' = [process EXCEPT ![p] =
        [pc |-> IF i = <<>> THEN "idle" ELSE "send", todo |-> i, stops |-> StopsAtError(r),
         goal |-> {y \in ToSet(i) : Executable(p, y)}, tries |-> 0,
         transaction |-> <<commands + 1, Len(i)>>, result |-> None, landed |-> 0]]
  BY <1>1 DEF Run, i
<1>5. process'[p] =
        [pc |-> IF i = <<>> THEN "idle" ELSE "send", todo |-> i, stops |-> StopsAtError(r),
         goal |-> {y \in ToSet(i) : Executable(p, y)}, tries |-> 0,
         transaction |-> <<commands + 1, Len(i)>>, result |-> None, landed |-> 0]
  BY <1>4 DEF CommandsInv
<1>6. Others(p)
  BY <1>4 DEF CommandsInv, Others
<1>7. ProcessOK(p)'
  <2>1. i # <<>> /\ StopsAtError(r) => Tail(i) = <<>>
    BY <1>3
  <2>2. /\ DOMAIN process'[p] = ProcessFields
        /\ process'[p].pc = (IF i = <<>> THEN "idle" ELSE "send")
        /\ process'[p].todo = i /\ process'[p].stops = StopsAtError(r)
    BY <1>5 DEF ProcessFields
  <2>3. QED
    BY <1>3, <2>1, <2>2 DEF ProcessOK, Asked
<1>8. QED
  BY <1>3, <1>5, <1>6, <1>7 DEF Handle

\* Or it ends before it sends anything.
LEMMA NotBegunEffect ==
    ASSUME CommandsInv, UNCHANGED session, NEW p \in Processes, NEW r, NotBegun(p, r)
    PROVE  /\ Others(p) /\ UNCHANGED <<ledger, network>>
           /\ process[p].pc = "idle"
           /\ process'[p].pc = "idle" /\ process'[p].goal = {}
           /\ process'[p].result = "err" /\ process'[p].landed = 0
           /\ ProcessOK(p)'
<1>1. process'[p] =
        [pc |-> "idle", todo |-> <<>>, stops |-> StopsAtError(r), goal |-> {}, tries |-> 0,
         transaction |-> <<commands + 1, 0>>, result |-> "err", landed |-> 0]
  BY DEF NotBegun, CommandsInv
<1>2. Others(p)
  BY DEF NotBegun, CommandsInv, Others
<1>3. ProcessOK(p)'
  <2>1. /\ DOMAIN process'[p] = ProcessFields
        /\ process'[p].pc = "idle" /\ process'[p].todo = <<>>
    BY <1>1 DEF ProcessFields
  <2>2. <<>> \in Seq(Asked(session))
    OBVIOUS
  <2>3. QED
    BY <2>1, <2>2 DEF ProcessOK, Asked
<1>4. QED
  BY <1>1, <1>2, <1>3 DEF NotBegun

\* A transaction's end: the command is over, or goes on with the next one.
LEMMA EndedEffect ==
    ASSUME CommandsInv, UNCHANGED session, NEW p \in Processes, process[p].pc # "idle", NEW result, Ended(p, result)
    PROVE  /\ Others(p)
           /\ DOMAIN process'[p] = ProcessFields
           /\ process'[p].result = result
           /\ process'[p].stops = process[p].stops /\ process'[p].goal = process[p].goal
           /\ \/ /\ process'[p].pc = "idle" /\ Tail(process[p].todo) = <<>>
                 /\ process'[p].todo = process[p].todo
                 /\ process'[p].landed = process[p].landed
              \/ /\ process'[p].pc = "send" /\ Tail(process[p].todo) # <<>>
                 /\ ~process[p].stops
                 /\ process'[p].todo = Tail(process[p].todo)
                 /\ process'[p].landed = 0
           /\ ProcessOK(p)'
<1> DEFINE rest == Tail(process[p].todo)
           over == rest = <<>> \/ (result = "err" /\ process[p].stops)
<1>1. /\ DOMAIN process[p] = ProcessFields
      /\ process[p].todo \in Seq(Asked(session)) /\ process[p].todo # <<>>
      /\ process[p].stops => rest = <<>>
      /\ p \in DOMAIN process
  BY DEF CommandsInv, ProcessOK
<1>2. over <=> rest = <<>>
  BY <1>1
<1>3. /\ Others(p)
      /\ DOMAIN process'[p] = ProcessFields
      /\ process'[p].result = result
      /\ process'[p].stops = process[p].stops /\ process'[p].goal = process[p].goal
      /\ process'[p].pc = (IF over THEN "idle" ELSE "send")
      /\ process'[p].todo = (IF over THEN process[p].todo ELSE rest)
      /\ process'[p].landed = (IF over THEN process[p].landed ELSE 0)
  BY <1>1 DEF Ended, Others, CommandsInv, ProcessFields
<1>4. rest \in Seq(Asked(session))
  BY <1>1
<1> HIDE DEF rest
<1>5. ProcessOK(p)'
  BY <1>1, <1>2, <1>3, <1>4 DEF ProcessOK, Asked, rest
<1>6. QED
  BY <1>1, <1>2, <1>3, <1>5 DEF rest

\* Between attempts only the place and the number of the attempt change.
LEMMA PcEffect ==
    ASSUME CommandsInv, UNCHANGED session, NEW p \in Processes, process[p].pc # "idle",
           NEW pc \in {"send", "wait"},
           \/ process' = [process EXCEPT ![p].pc = pc]
           \/ process' = [process EXCEPT ![p].pc = pc, ![p].tries = process[p].tries + 1]
    PROVE  /\ Others(p)
           /\ DOMAIN process'[p] = ProcessFields
           /\ process'[p].pc = pc
           /\ process' = [process EXCEPT ![p].pc = pc] => Attempt(p)' = Attempt(p)
           /\ process'[p].todo = process[p].todo /\ process'[p].stops = process[p].stops
           /\ process'[p].goal = process[p].goal /\ process'[p].landed = process[p].landed
           /\ process'[p].transaction = process[p].transaction
           /\ process'[p].result = process[p].result
           /\ ProcessOK(p)'
<1>1. DOMAIN process[p] = ProcessFields /\ p \in DOMAIN process
  BY DEF CommandsInv, ProcessOK
<1>2. /\ Others(p)
      /\ DOMAIN process'[p] = ProcessFields
      /\ process'[p].pc = pc
      /\ process' = [process EXCEPT ![p].pc = pc] => process'[p].tries = process[p].tries
      /\ process'[p].todo = process[p].todo /\ process'[p].stops = process[p].stops
      /\ process'[p].goal = process[p].goal /\ process'[p].landed = process[p].landed
      /\ process'[p].transaction = process[p].transaction
      /\ process'[p].result = process[p].result
  BY <1>1 DEF Others, CommandsInv, ProcessFields
<1>3. ProcessOK(p)'
  BY <1>2 DEF ProcessOK, CommandsInv, Asked
<1>4. QED
  BY <1>2, <1>3 DEF Attempt

\* An attempt lands once: all that a process sees of it is the count.
LEMMA LandEffect ==
    ASSUME CommandsInv, UNCHANGED session, NEW n \in network, Land(n.attempt)
    PROVE  LET a == n.attempt
               p == a.of
               outcomes == Executed(ledger, a.instruction, Keypair[p])
           IN  /\ p \in Processes /\ a.instruction \in Asked(session) /\ Keypair[p] \in Keys
               /\ ledger' \in IF outcomes = {} THEN {ledger} ELSE outcomes
               /\ Others(p)
               /\ DOMAIN process'[p] = ProcessFields
               /\ process'[p].pc = process[p].pc
               /\ process'[p].todo = process[p].todo /\ process'[p].stops = process[p].stops
               /\ process'[p].goal = process[p].goal /\ process'[p].result = process[p].result
               /\ process'[p].landed =
                    IF process[p].transaction = a.transaction /\ outcomes # {}
                    THEN process[p].landed + 1 ELSE process[p].landed
               /\ Attempt(p)' = Attempt(p)
               /\ ProcessOK(p)'
<1> DEFINE a == n.attempt
           p == a.of
           outcomes == Executed(ledger, a.instruction, Keypair[p])
           landed == IF process[p].transaction = a.transaction /\ outcomes # {}
                     THEN process[p].landed + 1 ELSE process[p].landed
<1>1. p \in Processes /\ a.instruction \in Asked(session) /\ Keypair[p] \in Keys
  BY LedgerAssumption DEF CommandsInv, AttemptOK
<1>2. /\ process' = [process EXCEPT ![p].landed = landed]
      /\ ledger' \in IF outcomes = {} THEN {ledger} ELSE outcomes
  BY DEF Land
<1> HIDE DEF landed, outcomes, p, a
<1>3. DOMAIN process[p] = ProcessFields /\ p \in DOMAIN process
  BY <1>1 DEF CommandsInv, ProcessOK
<1>4. /\ Others(p)
      /\ DOMAIN process'[p] = ProcessFields
      /\ process'[p].pc = process[p].pc
      /\ process'[p].todo = process[p].todo /\ process'[p].stops = process[p].stops
      /\ process'[p].goal = process[p].goal /\ process'[p].result = process[p].result
      /\ process'[p].tries = process[p].tries
      /\ process'[p].transaction = process[p].transaction
      /\ process'[p].landed = landed
  BY <1>2, <1>3 DEF Others, CommandsInv, ProcessFields
<1>5. ProcessOK(p)'
  BY <1>1, <1>4 DEF ProcessOK, CommandsInv, Asked
<1>6. QED
  BY <1>1, <1>2, <1>4, <1>5 DEF Attempt, landed, outcomes, p, a

\* The status an attempt gets is an attempt's.
LEMMA SettledEffect ==
    ASSUME NEW a, NEW status, Settled(a, status)
    PROVE  /\ network' \subseteq network \cup {InNetwork(a, status)}
           /\ InNetwork(a, status) \in network' \/ network' \subseteq network
BY DEF Settled

\* The steps there are.
LEMMA CommandsSteps ==
    ASSUME [CommandsNext]_commandsVars
    PROVE  \/ \E p \in Processes :
                \/ \E r \in session.requests : Handle(p, r) \/ NotBegun(p, r)
                \/ Send(p)
                \/ SkipOperator(p) \/ Preflight(p) \/ NoBlockhash(p)
                \/ Succeeded(p) \/ Failed(p) \/ GiveUp(p)
           \/ \E n \in network : Land(n.attempt) \/ Expire(n.attempt)
           \/ UNCHANGED commandsVars
BY DEF CommandsNext, Client, Cluster

LEMMA SessionStays == ASSUME [CommandsNext]_commandsVars PROVE UNCHANGED session
BY DEF CommandsNext, commandsVars

\* One process moves, the network changes, and the ledger as an instruction says.
LEMMA OneMoves ==
    ASSUME CommandsInv, UNCHANGED session, NEW p \in Processes, Others(p), ProcessOK(p)',
           ledger' \in Ledger, \A n \in network' : AttemptOK(n)
    PROVE  CommandsInv'
<1>1. \A o \in Processes \ {p} : ProcessOK(o)'
  BY DEF Others, CommandsInv, ProcessOK, Asked
<1>2. \A n \in network' : AttemptOK(n)'
  BY DEF AttemptOK, Asked, InNetwork
<1>3. QED
  BY <1>1, <1>2 DEF CommandsInv, Others, Ledger

\* Again and Ended, whichever follows.
LEMMA AgainEffect ==
    ASSUME CommandsInv, UNCHANGED session, NEW p \in Processes, process[p].pc # "idle", Again(p)
    PROVE  Others(p) /\ ProcessOK(p)'
<1>1. CASE process[p].tries < session.retries
  <2>1. process' = [process EXCEPT ![p].pc = "send", ![p].tries = process[p].tries + 1]
    BY <1>1 DEF Again
  <2>2. QED
    BY <2>1, PcEffect
<1>2. CASE ~(process[p].tries < session.retries)
  BY <1>2, EndedEffect DEF Again
<1>3. QED
  BY <1>1, <1>2

\* Every step is that of an instruction a user asked for, or leaves the ledger.
LedgerMoves ==
    \/ ledger' = ledger
    \/ \E i \in Asked(session), signer \in Keys :
         ledger' \in Executed(ledger, i, signer) /\ LedgerStep(ledger, i, ledger')

\* The invariant is inductive.
LEMMA CommandsNextInv ==
    CommandsInv /\ [CommandsNext]_commandsVars => CommandsInv' /\ LedgerMoves
<1> SUFFICES ASSUME CommandsInv, [CommandsNext]_commandsVars PROVE CommandsInv' /\ LedgerMoves
  OBVIOUS
<1>1. UNCHANGED session
  BY SessionStays
<1>2. ledger \in Ledger /\ \A n \in network : AttemptOK(n)
  BY DEF CommandsInv
<1>3. ASSUME NEW p \in Processes, NEW r \in session.requests, Handle(p, r)
      PROVE  CommandsInv' /\ LedgerMoves
  BY <1>1, <1>2, <1>3, HandleEffect, OneMoves DEF LedgerMoves
<1>3a. ASSUME NEW p \in Processes, NEW r \in session.requests, NotBegun(p, r)
      PROVE  CommandsInv' /\ LedgerMoves
  BY <1>1, <1>2, <1>3a, NotBegunEffect, OneMoves DEF LedgerMoves
<1>4. ASSUME NEW p \in Processes, Send(p)
      PROVE  CommandsInv' /\ LedgerMoves
  <2>1. /\ process[p].pc # "idle"
        /\ process' = [process EXCEPT ![p].pc = "wait"]
        /\ network' = network \cup {InNetwork(Attempt(p), "sent")}
        /\ ledger' = ledger
    BY <1>4 DEF Send
  <2>2. Others(p) /\ ProcessOK(p)'
    BY <1>1, <2>1, PcEffect
  <2>3. Head(process[p].todo) \in Asked(session)
    BY <2>1 DEF CommandsInv, ProcessOK
  <2>4. AttemptOK(InNetwork(Attempt(p), "sent"))
    BY <2>3 DEF AttemptOK, InNetwork, Attempt
  <2>5. QED
    BY <1>1, <1>2, <2>1, <2>2, <2>4, OneMoves DEF LedgerMoves
<1>5. ASSUME NEW p \in Processes, SkipOperator(p) \/ Preflight(p) \/ NoBlockhash(p)
      PROVE  CommandsInv' /\ LedgerMoves
  <2>1. /\ process[p].pc # "idle" /\ Ended(p, "err")
        /\ UNCHANGED <<ledger, network>>
    BY <1>5 DEF SkipOperator, Preflight, NoBlockhash
  <2>2. QED
    BY <1>1, <1>2, <2>1, EndedEffect, OneMoves DEF LedgerMoves
<1>6. ASSUME NEW p \in Processes, Succeeded(p) \/ Failed(p) \/ GiveUp(p)
      PROVE  CommandsInv' /\ LedgerMoves
  <2>1. /\ process[p].pc # "idle"
        /\ Ended(p, "ok") \/ Again(p)
        /\ network' \subseteq network /\ ledger' = ledger
    BY <1>6 DEF Succeeded, Failed, GiveUp, ForgetStatus
  <2>2. Others(p) /\ ProcessOK(p)'
    <3>1. CASE Ended(p, "ok")
      BY <1>1, <2>1, <3>1, EndedEffect
    <3>2. CASE Again(p)
      BY <1>1, <2>1, <3>2, AgainEffect
    <3>3. QED
      BY <2>1, <3>1, <3>2
  <2>3. QED
    BY <1>1, <1>2, <2>1, <2>2, OneMoves DEF LedgerMoves
<1>7. ASSUME NEW n \in network, Land(n.attempt)
      PROVE  CommandsInv' /\ LedgerMoves
  <2> DEFINE a == n.attempt
             p == a.of
             outcomes == Executed(ledger, a.instruction, Keypair[p])
  <2>1. /\ p \in Processes /\ a.instruction \in Asked(session) /\ Keypair[p] \in Keys
        /\ ledger' \in IF outcomes = {} THEN {ledger} ELSE outcomes
        /\ Others(p) /\ ProcessOK(p)'
    BY <1>1, <1>7, LandEffect
  <2>2. PICK status : Settled(a, status)
    BY <1>7 DEF Land
  <2>3. AttemptOK(InNetwork(a, status))
    BY <1>2, <1>7 DEF AttemptOK, InNetwork
  <2>4. \A x \in network' : AttemptOK(x)
    BY <1>2, <2>2, <2>3, SettledEffect
  <2>5. LedgerMoves /\ ledger' \in Ledger
    <3>1. CASE outcomes = {}
      BY <1>2, <2>1, <3>1 DEF LedgerMoves
    <3>2. CASE outcomes # {}
      <4>1. a.instruction \in Instruction
        BY <2>1 DEF Asked
      <4>2. ledger' \in outcomes
        BY <2>1, <3>2
      <4>3. LedgerStep(ledger, a.instruction, ledger')
        BY <1>2, <2>1, <4>1, <4>2, ExecutedStep
      <4>4. ledger' \in Ledger
        BY <4>3 DEF LedgerStep
      <4>5. QED
        BY <2>1, <4>2, <4>3, <4>4 DEF LedgerMoves
    <3>3. QED
      BY <3>1, <3>2
  <2>6. QED
    BY <1>1, <2>1, <2>4, <2>5, OneMoves
<1>8. ASSUME NEW n \in network, Expire(n.attempt)
      PROVE  CommandsInv' /\ LedgerMoves
  <2> DEFINE a == n.attempt
  <2>1. Settled(a, "expired") /\ UNCHANGED <<ledger, process>>
    BY <1>8 DEF Expire
  <2>2. AttemptOK(InNetwork(a, "expired")) /\ a.of \in Processes
    BY <1>2, <1>8 DEF AttemptOK, InNetwork
  <2>3. \A x \in network' : AttemptOK(x)
    BY <1>2, <2>1, <2>2, SettledEffect
  <2>4. Others(a.of) /\ ProcessOK(a.of)'
    BY <1>1, <2>1, <2>2 DEF Others, CommandsInv, ProcessOK, Asked
  <2>5. QED
    BY <1>1, <1>2, <2>1, <2>2, <2>3, <2>4, OneMoves DEF LedgerMoves
<1>9. CASE UNCHANGED commandsVars
  BY <1>9 DEF commandsVars, CommandsInv, LedgerMoves, ProcessOK, AttemptOK, Asked, InNetwork
<1>10. QED
  BY <1>3, <1>3a, <1>4, <1>5, <1>6, <1>7, <1>8, <1>9, CommandsSteps

\* And holds at the start.
LEMMA CommandsInitInv == CommandsInit => CommandsInv
<1> SUFFICES ASSUME CommandsInit PROVE CommandsInv
  OBVIOUS
<1>1. session \in Sessions /\ session.config \in Config \cup {None}
  BY CommandsAssumption DEF CommandsInit
<1>2. ledger \in Ledger
  BY <1>1 DEF CommandsInit, Ledger
<1>3. DOMAIN process = Processes /\ \A p \in Processes : ProcessOK(p)
  <2>1. DOMAIN process = Processes
    BY DEF CommandsInit
  <2>2. ASSUME NEW p \in Processes PROVE ProcessOK(p)
    <3>1. process[p] = [pc |-> "idle", todo |-> <<>>, stops |-> TRUE, goal |-> {}, tries |-> 0,
                        transaction |-> <<0, 0>>, result |-> None, landed |-> 0]
      BY DEF CommandsInit
    <3>2. /\ DOMAIN process[p] = ProcessFields /\ process[p].pc = "idle"
          /\ process[p].todo = <<>>
      BY <3>1 DEF ProcessFields
    <3>3. <<>> \in Seq(Asked(session))
      OBVIOUS
    <3>4. QED
      BY <3>2, <3>3 DEF ProcessOK
  <2>3. QED
    BY <2>1, <2>2
<1>4. QED
  BY <1>1, <1>2, <1>3 DEF CommandsInit, CommandsInv

THEOREM CommandsInvariance == CommandsSafety => [](CommandsInv)
<1>1. CommandsInv /\ [CommandsNext]_commandsVars => CommandsInv'
  BY CommandsNextInv
<1>2. QED
  BY <1>1, CommandsInitInv, PTL DEF CommandsSafety


-------------------------------------------------------------------------------
(***************************************************************************)
(* The numbers on chain                                                    *)
(***************************************************************************)

\* Every fee and every address is one that a user asked for.
LEMMA SettingsSteps ==
    ASSUME CommandsInv, SettingsAreAsAsked, UNCHANGED session, LedgerMoves
    PROVE  SettingsAreAsAsked'
<1>1. CASE ledger' = ledger
  BY <1>1 DEF SettingsAreAsAsked
<1>2. ASSUME NEW i \in Asked(session), NEW signer \in Keys,
             LedgerStep(ledger, i, ledger')
      PROVE  SettingsAreAsAsked'
  <2>1. /\ Setting(ledger, i, ledger')
        /\ i.command \in {"AdminCreateConfig", "UpdateOperatorIpPort"} => i \in session.requests
    BY <1>2 DEF LedgerStep, Asked
  <2>2. ASSUME session.config = None, ledger'.config # None
        PROVE  \E r \in session.requests : /\ r.command = "AdminCreateConfig"
                                           /\ r.ncn_fee_bps = ledger'.config.ncn_fee_bps
    <3>1. CASE ledger.config # None /\ ledger'.config.ncn_fee_bps = ledger.config.ncn_fee_bps
      BY <2>2, <3>1 DEF SettingsAreAsAsked
    <3>2. CASE i.command = "AdminCreateConfig" /\ ledger'.config.ncn_fee_bps = i.ncn_fee_bps
      BY <2>1, <3>2
    <3>3. QED
      BY <2>1, <2>2, <3>1, <3>2 DEF Setting
  <2>3. ASSUME NEW o \in NcnOperators, ledger'.address[o] # None
        PROVE  \E r \in session.requests : /\ r.command = "UpdateOperatorIpPort"
                                           /\ r.operator = o
                                           /\ r.ip_address = ledger'.address[o]
    <3>1. CASE ledger'.address[o] = ledger.address[o]
      BY <2>3, <3>1 DEF SettingsAreAsAsked
    <3>2. CASE /\ i.command = "UpdateOperatorIpPort" /\ i.operator = o
               /\ ledger'.address[o] = i.ip_address
      BY <2>1, <3>2
    <3>3. QED
      BY <2>1, <3>1, <3>2 DEF Setting
  <2>4. QED
    BY <2>2, <2>3 DEF SettingsAreAsAsked
<1>3. QED
  BY <1>1, <1>2 DEF LedgerMoves

\* Whatever fails, is lost or is sent twice, the fee in a Config that the
\* commands created and every operator's address are a user's own numbers
\* (handler.rs:190, 405): the conversions refuse, and never cut.
THEOREM SettingsComeFromUsers == CommandsSafety => []SettingsAreAsAsked
<1>1. CommandsInit => SettingsAreAsAsked
  <2> SUFFICES ASSUME CommandsInit PROVE SettingsAreAsAsked
    OBVIOUS
  <2>1. ledger.config = session.config /\ ledger.address = [o \in NcnOperators |-> None]
    BY DEF CommandsInit
  <2>2. QED
    BY <2>1 DEF SettingsAreAsAsked
<1>2. CommandsInv /\ SettingsAreAsAsked /\ [CommandsNext]_commandsVars => SettingsAreAsAsked'
  BY CommandsNextInv, SessionStays, SettingsSteps
<1>3. QED
  BY <1>1, <1>2, CommandsInvariance, PTL DEF CommandsSafety

\* How many operators are in a state.
In(operators, state) == Cardinality({o \in NcnOperators : operators[o] = state})

LEMMA InIsNat == ASSUME NEW operators, NEW state PROVE In(operators, state) \in Nat
BY LedgerAssumption, FS_Subset, FS_CardinalityType DEF In

\* An operator that changes its state leaves one set of operators for another.
LEMMA OneChangesState ==
    ASSUME NEW before, NEW o \in NcnOperators,
           DOMAIN before = NcnOperators, NEW state, state # before[o],
           NEW after, after = [before EXCEPT ![o] = state]
    PROVE  /\ In(after, state) = In(before, state) + 1
           /\ In(after, before[o]) = In(before, before[o]) - 1
           /\ \A other : other # state /\ other # before[o] =>
                In(after, other) = In(before, other)
<1> DEFINE S(f, s) == {x \in NcnOperators : f[x] = s}
<1>1. /\ S(after, state) = S(before, state) \cup {o} /\ o \notin S(before, state)
      /\ S(after, before[o]) = S(before, before[o]) \ {o} /\ o \in S(before, before[o])
      /\ \A other : other # state /\ other # before[o] => S(after, other) = S(before, other)
  OBVIOUS
<1>2. IsFiniteSet(S(before, state)) /\ IsFiniteSet(S(before, before[o]))
  BY LedgerAssumption, FS_Subset
<1>3. /\ In(after, state) = Cardinality(S(after, state))
      /\ In(before, state) = Cardinality(S(before, state))
      /\ In(after, before[o]) = Cardinality(S(after, before[o]))
      /\ In(before, before[o]) = Cardinality(S(before, before[o]))
      /\ \A other : /\ In(after, other) = Cardinality(S(after, other))
                    /\ In(before, other) = Cardinality(S(before, other))
  BY DEF In
<1> HIDE DEF S
<1>4. Cardinality(S(before, state) \cup {o}) = Cardinality(S(before, state)) + 1
  BY <1>1, <1>2, FS_AddElement
<1>5. Cardinality(S(before, before[o]) \ {o}) = Cardinality(S(before, before[o])) - 1
  BY <1>1, <1>2, FS_RemoveElement
<1>6. QED
  BY <1>1, <1>3, <1>4, <1>5

LEMMA GenerationSteps ==
    ASSUME CommandsInv, GenerationCountsOperators, LedgerMoves
    PROVE  GenerationCountsOperators'
<1>1. /\ ledger.generation = In(ledger.operators, "active") + 2 * In(ledger.operators, "removed")
      /\ In(ledger.operators, "active") \in Nat /\ In(ledger.operators, "removed") \in Nat
      /\ DOMAIN ledger.operators = NcnOperators
  <2>1. ledger.generation = In(ledger.operators, "active") + 2 * In(ledger.operators, "removed")
    BY DEF GenerationCountsOperators, In
  <2>2. DOMAIN ledger.operators = NcnOperators
    BY DEF CommandsInv, Ledger
  <2>3. QED
    BY <2>1, <2>2, InIsNat
<1>2. ASSUME NEW i \in Asked(session), LedgerStep(ledger, i, ledger')
      PROVE  ledger'.generation =
               In(ledger'.operators, "active") + 2 * In(ledger'.operators, "removed")
  <2>1. CASE ledger'.operators = ledger.operators /\ ledger'.generation = ledger.generation
    BY <1>1, <2>1
  <2>2. ASSUME NEW o \in NcnOperators, ledger.operators[o] = "none",
               ledger'.operators = [ledger.operators EXCEPT ![o] = "active"],
               ledger'.generation = ledger.generation + 1
        PROVE  ledger'.generation =
                 In(ledger'.operators, "active") + 2 * In(ledger'.operators, "removed")
    <3>1. /\ In(ledger'.operators, "active") = In(ledger.operators, "active") + 1
          /\ In(ledger'.operators, "removed") = In(ledger.operators, "removed")
      BY <1>1, <2>2, OneChangesState
    <3>2. QED
      BY <1>1, <2>2, <3>1
  <2>3. ASSUME NEW o \in NcnOperators, ledger.operators[o] = "active",
               ledger'.operators = [ledger.operators EXCEPT ![o] = "removed"],
               ledger'.generation = ledger.generation + 1
        PROVE  ledger'.generation =
                 In(ledger'.operators, "active") + 2 * In(ledger'.operators, "removed")
    <3>1. /\ In(ledger'.operators, "removed") = In(ledger.operators, "removed") + 1
          /\ In(ledger'.operators, "active") = In(ledger.operators, "active") - 1
      BY <1>1, <2>3, OneChangesState
    <3>2. QED
      BY <1>1, <2>3, <3>1
  <2>4. QED
    BY <1>2, <2>1, <2>2, <2>3 DEF LedgerStep, Counting
<1>3. QED
  BY <1>1, <1>2 DEF LedgerMoves, GenerationCountsOperators, In

\* An attempt that is sent again, and a request made again, register or remove
\* an operator once (register_operator.rs:63, remove_operator.rs).
THEOREM GenerationIsExact == CommandsSafety => []GenerationCountsOperators
<1>1. CommandsInit => GenerationCountsOperators
  <2> SUFFICES ASSUME CommandsInit PROVE GenerationCountsOperators
    OBVIOUS
  <2>1. ledger.operators = [o \in NcnOperators |-> "none"] /\ ledger.generation = 0
    BY DEF CommandsInit
  <2>2. /\ {o \in NcnOperators : ledger.operators[o] = "active"} = {}
        /\ {o \in NcnOperators : ledger.operators[o] = "removed"} = {}
    BY <2>1
  <2>3. QED
    BY <2>1, <2>2, FS_EmptySet DEF GenerationCountsOperators
<1>2. CommandsInv /\ GenerationCountsOperators /\ [CommandsNext]_commandsVars
        => GenerationCountsOperators'
  BY CommandsNextInv, GenerationSteps
<1>3. QED
  BY <1>1, <1>2, CommandsInvariance, PTL DEF CommandsSafety

-------------------------------------------------------------------------------
(***************************************************************************)
(* What a command reports                                                  *)
(***************************************************************************)

Mine(p) == {n \in network : n.attempt.of = p}

\* While a node answers, a client has one attempt outstanding and knows of it
\* whatever there is to know: it makes no other one before the first is settled.
FinalOK(p) ==
    /\ process[p].pc = "wait" =>
         \E status \in {"sent", "landed", "failed", "expired"} :
            /\ Mine(p) = {InNetwork(Attempt(p), status)}
            /\ process[p].landed = IF status = "landed" THEN 1 ELSE 0
    /\ process[p].pc # "wait" => Mine(p) = {}
    /\ process[p].pc = "send" => process[p].landed = 0
    /\ process[p].pc = "idle" /\ process[p].result # None =>
         process[p].landed = IF process[p].result = "ok" THEN 1 ELSE 0

FinalInv == "rpc" \notin session.faults => \A p \in Processes : FinalOK(p)

\* Nothing is learned of the others.
LEMMA OneFinal ==
    ASSUME FinalInv, "rpc" \notin session.faults, NEW p \in Processes, Others(p), FinalOK(p)',
           \A o \in Processes \ {p} : Mine(o)' = Mine(o),
           UNCHANGED session
    PROVE  FinalInv'
<1>1. ASSUME NEW o \in Processes \ {p} PROVE FinalOK(o)'
  <2>1. FinalOK(o) /\ process'[o] = process[o] /\ Mine(o)' = Mine(o)
    BY DEF FinalInv, Others
  <2>2. Attempt(o)' = Attempt(o)
    BY <2>1 DEF Attempt
  <2>3. \A status : InNetwork(Attempt(o), status)' = InNetwork(Attempt(o), status)
    BY <2>2 DEF InNetwork
  <2>4. QED
    BY <2>1, <2>2, <2>3 DEF FinalOK, InNetwork
<1>2. QED
  BY <1>1 DEF FinalInv

\* An attempt that is settled is the one its client waits for.
LEMMA SettledMine ==
    ASSUME CommandsInv, FinalInv, "rpc" \notin session.faults, NEW n \in network, NEW status,
           InNetwork(n.attempt, "sent") \in network, Settled(n.attempt, status)
    PROVE  LET p == n.attempt.of
           IN  /\ p \in Processes /\ process[p].pc = "wait" /\ n.attempt = Attempt(p)
               /\ process[p].landed = 0
               /\ Mine(p)' = {InNetwork(Attempt(p), status)}
               /\ \A o \in Processes \ {p} : Mine(o)' = Mine(o)
<1> DEFINE a == n.attempt
           p == a.of
<1>1. p \in Processes
  BY DEF CommandsInv, AttemptOK
<1>2. InNetwork(a, "sent") \in Mine(p)
  BY DEF Mine, InNetwork
<1>3. process[p].pc = "wait"
  BY <1>1, <1>2 DEF FinalInv, FinalOK
<1>4. PICK before \in {"sent", "landed", "failed", "expired"} :
        /\ Mine(p) = {InNetwork(Attempt(p), before)}
        /\ process[p].landed = IF before = "landed" THEN 1 ELSE 0
  BY <1>1, <1>3 DEF FinalInv, FinalOK
<1>5. a = Attempt(p) /\ before = "sent"
  BY <1>2, <1>4 DEF InNetwork
<1>6. network' = (network \ {InNetwork(a, "sent")}) \cup {InNetwork(a, status)}
  BY <1>3, <1>5 DEF Settled
<1>7. Mine(p)' = {InNetwork(Attempt(p), status)}
  BY <1>4, <1>5, <1>6 DEF Mine, InNetwork
<1>8. \A o \in Processes \ {p} : Mine(o)' = Mine(o)
  BY <1>6 DEF Mine, InNetwork
<1>9. QED
  BY <1>1, <1>3, <1>4, <1>5, <1>7, <1>8

\* A status that is forgotten was the client's.
LEMMA ForgetMine ==
    ASSUME FinalInv, "rpc" \notin session.faults, NEW p \in Processes, process[p].pc = "wait",
           NEW status \in {"landed", "failed", "expired"},
           InNetwork(Attempt(p), status) \in network, ForgetStatus(p)
    PROVE  /\ Mine(p) = {InNetwork(Attempt(p), status)}
           /\ process[p].landed = IF status = "landed" THEN 1 ELSE 0
           /\ Mine(p)' = {}
           /\ \A o \in Processes \ {p} : Mine(o)' = Mine(o)
<1>1. PICK is \in {"sent", "landed", "failed", "expired"} :
        /\ Mine(p) = {InNetwork(Attempt(p), is)}
        /\ process[p].landed = IF is = "landed" THEN 1 ELSE 0
  BY DEF FinalInv, FinalOK
<1>2. Attempt(p).of = p
  BY DEF Attempt
<1>3. InNetwork(Attempt(p), status) \in Mine(p)
  BY <1>2 DEF Mine, InNetwork
<1>4. is = status
  BY <1>1, <1>3 DEF InNetwork
<1>5. network' = {n \in network : n.attempt = Attempt(p) => n.status = "sent"}
  BY DEF ForgetStatus
<1>6. Mine(p)' = {}
  <2> SUFFICES ASSUME NEW n \in Mine(p)' PROVE FALSE
    OBVIOUS
  <2>1. n \in Mine(p) /\ (n.attempt = Attempt(p) => n.status = "sent")
    BY <1>5 DEF Mine
  <2>2. n.attempt = Attempt(p) /\ n.status = status
    BY <1>1, <1>4, <2>1 DEF InNetwork
  <2>3. QED
    BY <2>1, <2>2
<1>7. \A o \in Processes \ {p} : Mine(o)' = Mine(o)
  BY <1>2, <1>5 DEF Mine
<1>8. QED
  BY <1>1, <1>4, <1>6, <1>7

LEMMA FinalSteps ==
    ASSUME CommandsInv, FinalInv, [CommandsNext]_commandsVars
    PROVE  FinalInv'
<1>1. UNCHANGED session
  BY SessionStays
<1> SUFFICES ASSUME "rpc" \notin session.faults PROVE FinalInv'
  BY <1>1 DEF FinalInv
<1>2. ASSUME NEW p \in Processes, NEW r \in session.requests, Handle(p, r)
      PROVE  FinalInv'
  <2>1. /\ Others(p) /\ UNCHANGED network
        /\ process[p].pc = "idle" /\ process'[p].pc \in {"idle", "send"}
        /\ process'[p].result = None /\ process'[p].landed = 0
    <3>1. PICK i \in Seq(Asked(session)) :
            process'[p] =
              [pc |-> IF i = <<>> THEN "idle" ELSE "send", todo |-> i,
               stops |-> StopsAtError(r), goal |-> {x \in ToSet(i) : Executable(p, x)},
               tries |-> 0, transaction |-> <<commands + 1, Len(i)>>,
               result |-> None, landed |-> 0]
      BY <1>1, <1>2, HandleEffect
    <3>2. /\ process'[p].pc \in {"idle", "send"}
          /\ process'[p].result = None /\ process'[p].landed = 0
      BY <3>1
    <3>3. Others(p) /\ UNCHANGED network /\ process[p].pc = "idle"
      BY <1>1, <1>2, HandleEffect
    <3>4. QED
      BY <3>2, <3>3
  <2>2. FinalOK(p)' /\ \A o \in Processes : Mine(o)' = Mine(o)
    BY <2>1 DEF FinalInv, FinalOK, Mine
  <2>3. QED
    BY <1>1, <2>1, <2>2, OneFinal
<1>2a. ASSUME NEW p \in Processes, NEW r \in session.requests, NotBegun(p, r)
      PROVE  FinalInv'
  <2>1. /\ Others(p) /\ UNCHANGED network
        /\ process[p].pc = "idle" /\ process'[p].pc = "idle"
        /\ process'[p].result = "err" /\ process'[p].landed = 0
    BY <1>1, <1>2a, NotBegunEffect
  <2>2. FinalOK(p)' /\ \A o \in Processes : Mine(o)' = Mine(o)
    BY <2>1 DEF FinalInv, FinalOK, Mine
  <2>3. QED
    BY <1>1, <2>1, <2>2, OneFinal
<1>3. ASSUME NEW p \in Processes, Send(p)
      PROVE  FinalInv'
  <2>1. /\ process[p].pc = "send"
        /\ process' = [process EXCEPT ![p].pc = "wait"]
        /\ network' = network \cup {InNetwork(Attempt(p), "sent")}
    BY <1>3 DEF Send
  <2>2. /\ Others(p) /\ process'[p].pc = "wait" /\ Attempt(p)' = Attempt(p)
        /\ process'[p].landed = process[p].landed
    BY <1>1, <2>1, PcEffect
  <2>3. Mine(p) = {} /\ process[p].landed = 0
    BY <2>1 DEF FinalInv, FinalOK
  <2>4. Attempt(p).of = p
    BY DEF Attempt
  <2>5. /\ Mine(p)' = {InNetwork(Attempt(p), "sent")}
        /\ \A o \in Processes \ {p} : Mine(o)' = Mine(o)
    BY <2>1, <2>3, <2>4 DEF Mine, InNetwork
  <2>6. FinalOK(p)'
    BY <2>2, <2>3, <2>5 DEF FinalOK, InNetwork
  <2>7. QED
    BY <1>1, <2>2, <2>5, <2>6, OneFinal
<1>4. ASSUME NEW p \in Processes, SkipOperator(p) \/ Preflight(p) \/ NoBlockhash(p)
      PROVE  FinalInv'
  <2>1. process[p].pc = "send" /\ Ended(p, "err") /\ UNCHANGED network
    BY <1>4 DEF SkipOperator, Preflight, NoBlockhash
  <2>2. /\ Others(p) /\ process'[p].result = "err" /\ process'[p].pc \in {"idle", "send"}
        /\ process'[p].landed \in {0, process[p].landed}
    BY <1>1, <2>1, EndedEffect
  <2>3. process[p].landed = 0 /\ Mine(p) = {}
    BY <2>1 DEF FinalInv, FinalOK
  <2>4. FinalOK(p)' /\ \A o \in Processes : Mine(o)' = Mine(o)
    BY <2>1, <2>2, <2>3 DEF FinalOK, Mine
  <2>5. QED
    BY <1>1, <2>2, <2>4, OneFinal
<1>5. ASSUME NEW p \in Processes, Succeeded(p)
      PROVE  FinalInv'
  <2>1. /\ process[p].pc = "wait" /\ InNetwork(Attempt(p), "landed") \in network
        /\ ForgetStatus(p) /\ Ended(p, "ok")
    BY <1>5 DEF Succeeded
  <2>2. /\ process[p].landed = 1 /\ Mine(p)' = {}
        /\ \A o \in Processes \ {p} : Mine(o)' = Mine(o)
    BY <2>1, ForgetMine
  <2>3. /\ Others(p) /\ process'[p].result = "ok"
        /\ \/ process'[p].pc = "idle" /\ process'[p].landed = process[p].landed
           \/ process'[p].pc = "send" /\ process'[p].landed = 0
    BY <1>1, <2>1, EndedEffect
  <2>4. FinalOK(p)'
    BY <2>2, <2>3 DEF FinalOK
  <2>5. QED
    BY <1>1, <2>2, <2>3, <2>4, OneFinal
<1>6. ASSUME NEW p \in Processes, Failed(p)
      PROVE  FinalInv'
  <2>1. PICK status \in {"failed", "expired"} : InNetwork(Attempt(p), status) \in network
    BY <1>6 DEF Failed, KnownNotToLand
  <2>2. process[p].pc = "wait" /\ ForgetStatus(p) /\ Again(p)
    BY <1>6 DEF Failed
  <2>3. /\ process[p].landed = 0 /\ Mine(p)' = {}
        /\ \A o \in Processes \ {p} : Mine(o)' = Mine(o)
    BY <2>1, <2>2, ForgetMine
  <2>4. /\ Others(p)
        /\ \/ process'[p].pc = "send"
           \/ process'[p].pc = "idle" /\ process'[p].result = "err"
        /\ process'[p].landed = 0
    <3>1. CASE process[p].tries < session.retries
      <4>1. process' = [process EXCEPT ![p].pc = "send", ![p].tries = process[p].tries + 1]
        BY <2>2, <3>1 DEF Again
      <4>2. QED
        BY <1>1, <2>2, <2>3, <4>1, PcEffect
    <3>2. CASE ~(process[p].tries < session.retries)
      BY <1>1, <2>2, <2>3, <3>2, EndedEffect DEF Again
    <3>3. QED
      BY <3>1, <3>2
  <2>5. FinalOK(p)'
    BY <2>3, <2>4 DEF FinalOK
  <2>6. QED
    BY <1>1, <2>3, <2>4, <2>5, OneFinal
<1>7. ASSUME NEW p \in Processes, GiveUp(p) PROVE FinalInv'
  BY <1>7 DEF GiveUp
<1>8. ASSUME NEW n \in network, Land(n.attempt)
      PROVE  FinalInv'
  <2> DEFINE a == n.attempt
             p == a.of
             outcomes == Executed(ledger, a.instruction, Keypair[p])
             status == IF outcomes = {} THEN "failed" ELSE "landed"
  <2>1. InNetwork(a, "sent") \in network /\ Settled(a, status)
    BY <1>8 DEF Land
  <2>2. /\ Others(p) /\ process'[p].pc = process[p].pc /\ Attempt(p)' = Attempt(p)
        /\ process'[p].landed = IF process[p].transaction = a.transaction /\ outcomes # {}
                                THEN process[p].landed + 1 ELSE process[p].landed
    BY <1>1, <1>8, LandEffect
  <2> HIDE DEF status, outcomes
  <2>3. /\ p \in Processes /\ process[p].pc = "wait" /\ a = Attempt(p)
        /\ process[p].landed = 0
        /\ Mine(p)' = {InNetwork(Attempt(p), status)}
        /\ \A o \in Processes \ {p} : Mine(o)' = Mine(o)
    BY <2>1, SettledMine
  <2>4. process[p].transaction = a.transaction
    BY <2>3 DEF Attempt
  <2>5. process'[p].landed = IF status = "landed" THEN 1 ELSE 0
    BY <2>2, <2>3, <2>4 DEF status
  <2>6. status \in {"sent", "landed", "failed", "expired"}
    BY DEF status
  <2>7. FinalOK(p)'
    BY <2>2, <2>3, <2>5, <2>6 DEF FinalOK, InNetwork
  <2>8. QED
    BY <1>1, <2>2, <2>3, <2>7, OneFinal
<1>9. ASSUME NEW n \in network, Expire(n.attempt)
      PROVE  FinalInv'
  <2> DEFINE a == n.attempt
             p == a.of
  <2>1. InNetwork(a, "sent") \in network /\ Settled(a, "expired") /\ UNCHANGED process
    BY <1>9 DEF Expire
  <2>2. /\ p \in Processes /\ process[p].pc = "wait"
        /\ process[p].landed = 0
        /\ Mine(p)' = {InNetwork(Attempt(p), "expired")}
        /\ \A o \in Processes \ {p} : Mine(o)' = Mine(o)
    BY <2>1, SettledMine
  <2>3. Others(p) /\ Attempt(p)' = Attempt(p)
    BY <2>1 DEF Others, CommandsInv, Attempt
  <2>4. FinalOK(p)'
    BY <2>1, <2>2, <2>3 DEF FinalOK, InNetwork
  <2>5. QED
    BY <1>1, <2>2, <2>3, <2>4, OneFinal
<1>10. CASE UNCHANGED commandsVars
  BY <1>10 DEF commandsVars, FinalInv, FinalOK, Mine, Attempt, InNetwork
<1>11. QED
  BY <1>2, <1>2a, <1>3, <1>4, <1>5, <1>6, <1>7, <1>8, <1>9, <1>10, CommandsSteps

LEMMA FinalInvariance == CommandsSafety => []FinalInv
<1>1. CommandsInit => FinalInv
  <2> SUFFICES ASSUME CommandsInit, NEW p \in Processes PROVE FinalOK(p)
    BY DEF FinalInv
  <2>1. process[p].pc = "idle" /\ process[p].result = None /\ network = {}
    BY DEF CommandsInit
  <2>2. QED
    BY <2>1 DEF FinalOK, Mine
<1>2. CommandsInv /\ FinalInv /\ [CommandsNext]_commandsVars => FinalInv'
  BY FinalSteps
<1>3. QED
  BY <1>1, <1>2, CommandsInvariance, PTL DEF CommandsSafety

\* With a node that answers, Ok is one execution and an error none, now and
\* later, though every attempt has a signature of its own
\* (instructions.rs:1197): an attempt is given up only when it cannot land.
THEOREM ReportedIsWhatHappened == CommandsSafety => []ResultIsFinal
<1>1. FinalInv => ResultIsFinal
  BY DEF FinalInv, FinalOK, Mine, ResultIsFinal
<1>2. QED
  BY <1>1, FinalInvariance, PTL

-------------------------------------------------------------------------------
(***************************************************************************)
(* What a crank has done when it ends                                      *)
(***************************************************************************)

\* The instruction's effect is there, or can never be had any more.
Finished(l, x) ==
    /\ x.command = "AdminCreateConfig" => l.config # None
    /\ x.command = "AdminRegisterStMint" => SupportedMint[x.vault] \in l.mints
    /\ x.command = "RegisterVault" => x.vault \in RegisteredVaults(l)
    /\ x.command = "RegisterOperator" => l.operators[x.operator] # "none"
    /\ x.command = "RemoveOperator" => l.operators[x.operator] = "removed"
    /\ x.command = "SnapshotVaultOperatorDelegation" =>
         \/ l.operators[x.operator] = "removed"
         \/ l.operators[x.operator] = "active" /\ x.operator \in l.counted

\* What the instruction needs besides, which nothing takes away again.
Ready(l, x, signer) ==
    /\ x.command = "AdminCreateConfig" =>
         /\ signer = NcnAdmin
         /\ x.epochs_before_stall \in 1 .. MAX_EPOCHS_BEFORE_STALL
         /\ x.ncn_fee_bps <= MAX_FEE_BPS
    /\ x.command = "AdminRegisterStMint" => l.config # None /\ signer = NcnAdmin
    /\ x.command = "RegisterVault" =>
         l.config # None /\ x.vault \in NcnVaults /\ SupportedMint[x.vault] \in l.mints
    /\ x.command = "RegisterOperator" => l.config # None /\ signer = OperatorAdmin[x.operator]
    /\ x.command = "RemoveOperator" =>
         /\ signer \in {NcnAdmin, OperatorAdmin[x.operator]}
         /\ l.operators[x.operator] # "none"
    /\ x.command = "SnapshotVaultOperatorDelegation" =>
         /\ x.vault \in RegisteredVaults(l) /\ x.operator \in Delegated
         /\ l.operators[x.operator] # "none"

Lasting == {x \in Instruction : x.command \notin EachTime}

LEMMA LastingCommands ==
    ASSUME NEW x \in Lasting
    PROVE  x.command \in {"AdminCreateConfig", "AdminRegisterStMint", "RegisterVault",
                          "RegisterOperator", "RemoveOperator",
                          "SnapshotVaultOperatorDelegation", "VerifyCertificate"}
BY InstructionFields DEF Lasting, EachTime

\* Both last.
LEMMA FinishedLasts ==
    ASSUME NEW l \in Ledger, NEW m \in Ledger, Onward(l, m), NEW x \in Lasting, Finished(l, x)
    PROVE  Finished(m, x)
<1>1. x \in Instruction
  BY DEF Lasting
<1>2. CASE x.command \in {"AdminCreateConfig", "AdminRegisterStMint", "RegisterVault"}
  BY <1>2 DEF Finished, Onward
<1>3. CASE x.command \in {"RegisterOperator", "RemoveOperator",
                          "SnapshotVaultOperatorDelegation"}
  <2>1. x.operator \in NcnOperators
    BY <1>1, <1>3, InstructionFields
  <2>2. m.operators[x.operator] \in {"none", "active", "removed"}
    BY <2>1 DEF Ledger
  <2>3. QED
    BY <1>3, <2>1, <2>2 DEF Finished, Onward
<1>4. CASE x.command = "VerifyCertificate"
  BY <1>4 DEF Finished
<1>5. QED
  BY <1>2, <1>3, <1>4, LastingCommands

LEMMA ReadyLasts ==
    ASSUME NEW l \in Ledger, NEW m \in Ledger, Onward(l, m), NEW x \in Lasting,
           NEW signer, Ready(l, x, signer)
    PROVE  Ready(m, x, signer)
<1>1. x \in Instruction
  BY DEF Lasting
<1>2. CASE x.command \in {"AdminCreateConfig", "AdminRegisterStMint", "RegisterVault"}
  BY <1>2 DEF Ready, Onward
<1>3. CASE x.command \in {"RegisterOperator", "RemoveOperator",
                          "SnapshotVaultOperatorDelegation"}
  BY <1>1, <1>3, InstructionFields DEF Ready, Onward
<1>4. CASE x.command = "VerifyCertificate"
  BY <1>4 DEF Ready
<1>5. QED
  BY <1>2, <1>3, <1>4, LastingCommands

\* What can be executed is ready.
LEMMA ExecutableIsReady ==
    ASSUME NEW l \in Ledger, NEW x \in Lasting, NEW signer, Executed(l, x, signer) # {}
    PROVE  Ready(l, x, signer)
<1>1. CASE x.command = "AdminCreateConfig"
  BY <1>1 DEF Ready, Executed, admin_create_config, When
<1>2. CASE x.command = "AdminRegisterStMint"
  BY <1>2 DEF Ready, Executed, admin_register_st_mint, When
<1>3. CASE x.command = "RegisterVault"
  BY <1>3 DEF Ready, Executed, register_vault, When
<1>4. CASE x.command = "RegisterOperator"
  BY <1>4 DEF Ready, Executed, register_operator, When
<1>5. CASE x.command = "RemoveOperator"
  BY <1>5 DEF Ready, Executed, remove_operator, When
<1>6. CASE x.command = "SnapshotVaultOperatorDelegation"
  BY <1>6 DEF Ready, Executed, snapshot_vault_operator_delegation, When
<1>7. CASE x.command = "VerifyCertificate"
  BY <1>7 DEF Ready
<1>8. QED
  BY <1>1, <1>2, <1>3, <1>4, <1>5, <1>6, <1>7, LastingCommands

\* What is ready can be executed, unless it is finished.
LEMMA ReadyIsExecutable ==
    ASSUME NEW l \in Ledger, NEW x \in Lasting, NEW signer, Ready(l, x, signer),
           Executed(l, x, signer) = {}
    PROVE  Finished(l, x)
<1>1. CASE x.command = "AdminCreateConfig"
  BY <1>1 DEF Ready, Finished, Executed, admin_create_config, When
<1>2. CASE x.command = "AdminRegisterStMint"
  BY <1>2 DEF Ready, Finished, Executed, admin_register_st_mint, When
<1>3. CASE x.command = "RegisterVault"
  BY <1>3 DEF Ready, Executed, register_vault, When
<1>4. CASE x.command = "RegisterOperator"
  BY <1>4 DEF Ready, Finished, Executed, register_operator, When
<1>5. CASE x.command \in {"RemoveOperator", "SnapshotVaultOperatorDelegation"}
  <2>1. x.operator \in NcnOperators
    BY <1>5, InstructionFields DEF Lasting
  <2>2. l.operators[x.operator] \in {"none", "active", "removed"}
    BY <2>1 DEF Ledger
  <2>3. CASE x.command = "RemoveOperator"
    BY <2>2, <2>3 DEF Ready, Finished, Executed, remove_operator, When
  <2>4. CASE x.command = "SnapshotVaultOperatorDelegation"
    BY <2>2, <2>4 DEF Ready, Finished, Executed, snapshot_vault_operator_delegation, When
  <2>5. QED
    BY <1>5, <2>3, <2>4
<1>6. CASE x.command = "VerifyCertificate"
  BY <1>6 DEF Finished
<1>7. QED
  BY <1>1, <1>2, <1>3, <1>4, <1>5, <1>6, LastingCommands

\* Once executed it is finished.
LEMMA ExecutedIsFinished ==
    ASSUME NEW l \in Ledger, NEW x \in Lasting, NEW signer \in Keys, Ready(l, x, signer),
           NEW m \in Executed(l, x, signer)
    PROVE  Finished(m, x)
<1>1. x \in Instruction /\ m \in Ledger /\ Onward(l, m)
  BY ExecutedStep DEF Lasting, LedgerStep
<1>2. CASE x.command = "AdminCreateConfig"
  <2>1. Setting(l, x, m) /\ l \in Ledger /\ m \in admin_create_config(l, x, signer)
    BY <1>1, <1>2, ExecutedStep DEF LedgerStep, Executed
  <2> DEFINE c == [tie_breaker_admin |-> IF x.tie_breaker_admin = None THEN signer
                                         ELSE x.tie_breaker_admin,
                   epochs_before_stall |-> x.epochs_before_stall,
                   ncn_fee_bps |-> x.ncn_fee_bps]
  <2>2. m = [l EXCEPT !.config = c]
    BY <2>1 DEF admin_create_config, When
  <2>3. c \in Config
    BY <1>1, <1>2, InstructionFields DEF Config
  <2> HIDE DEF c
  <2>4. m.config = c /\ c # None
    BY <2>2, <2>3, LedgerAssumption DEF Ledger
  <2>5. QED
    BY <1>2, <2>4 DEF Finished
<1>3. CASE x.command = "AdminRegisterStMint"
  <2>1. SupportedMint[x.vault] \in m.mints
    BY <1>1, <1>3, RegisterStMintStep DEF Executed
  <2>2. QED
    BY <1>3, <2>1 DEF Finished
<1>4. CASE x.command = "RegisterVault"
  <2>1. x.vault \in RegisteredVaults(m)
    BY <1>1, <1>4, RegisterVaultStep DEF Executed
  <2>2. QED
    BY <1>4, <2>1 DEF Finished
<1>5. CASE x.command = "RegisterOperator"
  <2>1. m.operators[x.operator] # "none"
    BY <1>1, <1>5, RegisterOperatorStep DEF Executed
  <2>2. QED
    BY <1>5, <2>1 DEF Finished
<1>6. CASE x.command = "RemoveOperator"
  <2>1. m.operators[x.operator] = "removed"
    BY <1>1, <1>6, RemoveOperatorStep DEF Executed
  <2>2. QED
    BY <1>6, <2>1 DEF Finished
<1>7. CASE x.command = "SnapshotVaultOperatorDelegation"
  <2>1. x.operator \in m.counted
    BY <1>1, <1>7, SnapshotDelegationStep DEF Executed
  <2>2. x.operator \in NcnOperators /\ l.operators[x.operator] # "none"
    BY <1>1, <1>7, InstructionFields DEF Ready
  <2>3. m.operators[x.operator] \in {"none", "active", "removed"}
        /\ m.operators[x.operator] # "none"
    BY <1>1, <2>2 DEF Onward, Ledger
  <2>4. QED
    BY <1>7, <2>1, <2>3 DEF Finished
<1>8. CASE x.command = "VerifyCertificate"
  BY <1>8 DEF Finished
<1>9. QED
  BY <1>2, <1>3, <1>4, <1>5, <1>6, <1>7, <1>8, LastingCommands

\* And to execute it again changes nothing.
LEMMA FinishedStays ==
    ASSUME NEW l \in Ledger, NEW x \in Lasting, NEW signer, Finished(l, x)
    PROVE  Executed(l, x, signer) \subseteq {l}
<1>1. CASE x.command = "AdminCreateConfig"
  BY <1>1 DEF Finished, Executed, admin_create_config, When
<1>2. CASE x.command = "AdminRegisterStMint"
  BY <1>2 DEF Finished, Executed, admin_register_st_mint, When
<1>3. CASE x.command = "RegisterVault"
  <2>1. [l EXCEPT !.vaults = l.vaults] = l
    BY DEF Ledger
  <2>2. QED
    BY <1>3, <2>1 DEF Finished, Executed, register_vault, When
<1>4. CASE x.command = "RegisterOperator"
  BY <1>4 DEF Finished, Executed, register_operator, When
<1>5. CASE x.command = "RemoveOperator"
  BY <1>5 DEF Finished, Executed, remove_operator, When
<1>6. CASE x.command = "SnapshotVaultOperatorDelegation"
  <2>1. CASE l.operators[x.operator] = "removed"
    BY <1>6, <2>1 DEF Executed, snapshot_vault_operator_delegation, When
  <2>2. CASE x.operator \in l.counted
    <3>1. l.counted \cup {x.operator} = l.counted
      BY <2>2
    <3>2. [l EXCEPT !.counted = l.counted] = l
      BY DEF Ledger
    <3>3. QED
      BY <1>6, <3>1, <3>2 DEF Executed, snapshot_vault_operator_delegation, When
  <2>3. QED
    BY <1>6, <2>1, <2>2 DEF Finished
<1>7. CASE x.command = "VerifyCertificate"
  BY <1>7 DEF Executed, verify_certificate, When
<1>8. QED
  BY <1>1, <1>2, <1>3, <1>4, <1>5, <1>6, <1>7, LastingCommands

\* With a network that loses nothing: what a command set out to do is finished
\* or still on its list, and the head of the list is finished as soon as its
\* attempt has been executed.
ListOK(p) ==
    /\ process[p].goal \subseteq Asked(session)
    /\ \A x \in process[p].goal : x.command \notin EachTime =>
         /\ Ready(ledger, x, Keypair[p])
         /\ Finished(ledger, x) \/ (process[p].pc # "idle" /\ x \in ToSet(process[p].todo))
         /\ /\ process[p].pc = "wait" /\ x = Head(process[p].todo)
            /\ InNetwork(Attempt(p), "sent") \notin network
            => Finished(ledger, x)

ListInv == session.faults = {} => \A p \in Processes : ListOK(p)

LEMMA GoalIsLasting ==
    ASSUME NEW p, process[p].goal \subseteq Asked(session), NEW x \in process[p].goal,
           x.command \notin EachTime
    PROVE  x \in Lasting
BY DEF Lasting, Asked

\* A list is its head and its tail.
LEMMA HeadOrTail ==
    ASSUME NEW S, NEW s \in Seq(S), s # <<>>, NEW x \in ToSet(s)
    PROVE  x = Head(s) \/ x \in ToSet(Tail(s))
<1>1. PICK k \in 1 .. Len(s) : x = s[k]
  BY DEF ToSet
<1>2. CASE k = 1
  BY <1>1, <1>2
<1>3. CASE k # 1
  <2>1. k - 1 \in 1 .. Len(Tail(s)) /\ Tail(s)[k - 1] = s[k]
    BY <1>1, <1>3
  <2>2. DOMAIN Tail(s) = 1 .. Len(Tail(s))
    OBVIOUS
  <2>3. QED
    BY <1>1, <2>1, <2>2 DEF ToSet
<1>4. QED
  BY <1>2, <1>3

\* What was ready or finished before a step is so after it.
LEMMA GoalsLast ==
    ASSUME CommandsInv, CommandsInv', LedgerMoves, NEW x \in Lasting, NEW signer
    PROVE  /\ Ready(ledger, x, signer) => Ready(ledger', x, signer)
           /\ Finished(ledger, x) => Finished(ledger', x)
<1>1. CASE ledger' = ledger
  BY <1>1
<1>2. CASE \E i \in Asked(session) : LedgerStep(ledger, i, ledger')
  <2>1. ledger \in Ledger /\ ledger' \in Ledger /\ Onward(ledger, ledger')
    BY <1>2 DEF CommandsInv, LedgerStep
  <2>2. QED
    BY <2>1, FinishedLasts, ReadyLasts
<1>3. QED
  BY <1>1, <1>2 DEF LedgerMoves

\* A process that does not move keeps its list in order, whatever an attempt of
\* another one does to the ledger.
LEMMA OthersKeepLists ==
    ASSUME CommandsInv, CommandsInv', LedgerMoves, UNCHANGED session, NEW o \in Processes,
           ListOK(o), process'[o] = process[o], Mine(o)' = Mine(o)
    PROVE  ListOK(o)'
<1>1. Attempt(o)' = Attempt(o) /\ Attempt(o).of = o
  BY DEF Attempt
<1>2. InNetwork(Attempt(o), "sent") \in network' <=> InNetwork(Attempt(o), "sent") \in network
  BY <1>1 DEF Mine, InNetwork
<1>3. process'[o].goal \subseteq Asked(session)'
  BY DEF ListOK, Asked
<1>4. ASSUME NEW x \in process'[o].goal, x.command \notin EachTime
      PROVE  /\ Ready(ledger', x, Keypair[o])
             /\ \/ Finished(ledger', x)
                \/ process'[o].pc # "idle" /\ x \in ToSet(process'[o].todo)
             /\ /\ process'[o].pc = "wait" /\ x = Head(process'[o].todo)
                /\ InNetwork(Attempt(o)', "sent") \notin network'
                => Finished(ledger', x)
  <2>1. x \in Lasting
    BY <1>4, GoalIsLasting DEF ListOK
  <2>2. /\ Ready(ledger, x, Keypair[o]) => Ready(ledger', x, Keypair[o])
        /\ Finished(ledger, x) => Finished(ledger', x)
    BY <2>1, GoalsLast
  <2>3. QED
    BY <1>1, <1>2, <1>4, <2>2 DEF ListOK
<1>5. QED
  BY <1>3, <1>4 DEF ListOK, InNetwork

LEMMA OneList ==
    ASSUME CommandsInv, CommandsInv', LedgerMoves, UNCHANGED session, ListInv,
           session.faults = {}, NEW p \in Processes, Others(p), ListOK(p)',
           \A o \in Processes \ {p} : Mine(o)' = Mine(o)
    PROVE  ListInv'
<1>1. ASSUME NEW o \in Processes \ {p} PROVE ListOK(o)'
  BY OthersKeepLists DEF ListInv, Others
<1>2. QED
  BY <1>1 DEF ListInv

\* A transaction that ends takes its instruction off the list: by then it is
\* finished, if the command had set out to do it.
LEMMA EndedList ==
    ASSUME CommandsInv, UNCHANGED <<session, ledger>>, NEW p \in Processes,
           process[p].pc # "idle", ListOK(p), NEW result, Ended(p, result),
           \A x \in process[p].goal :
              x.command \notin EachTime /\ x = Head(process[p].todo) => Finished(ledger, x)
    PROVE  ListOK(p)'
<1>1. /\ process'[p].goal = process[p].goal /\ process'[p].pc \in {"idle", "send"}
      /\ \/ process'[p].pc = "idle" /\ Tail(process[p].todo) = <<>>
         \/ process'[p].pc # "idle" /\ process'[p].todo = Tail(process[p].todo)
  BY EndedEffect
<1>2. process[p].todo \in Seq(Asked(session)) /\ process[p].todo # <<>>
  BY DEF CommandsInv, ProcessOK
<1>3. ASSUME NEW x \in process[p].goal, x.command \notin EachTime
      PROVE  Finished(ledger, x) \/ (process'[p].pc # "idle" /\ x \in ToSet(process'[p].todo))
  <2>1. SUFFICES ASSUME ~Finished(ledger, x)
                 PROVE  process'[p].pc # "idle" /\ x \in ToSet(process'[p].todo)
    OBVIOUS
  <2>2. x \in ToSet(process[p].todo) /\ x # Head(process[p].todo)
    BY <1>3, <2>1 DEF ListOK
  <2>3. x \in ToSet(Tail(process[p].todo))
    BY <1>2, <2>2, HeadOrTail
  <2>4. Tail(process[p].todo) # <<>>
    BY <2>3 DEF ToSet
  <2>5. QED
    BY <1>1, <2>3, <2>4
<1>4. QED
  BY <1>1, <1>3 DEF ListOK, Asked

\* An attempt that fails is made again, or was the last.
LEMMA AgainList ==
    ASSUME CommandsInv, UNCHANGED <<session, ledger>>, NEW p \in Processes,
           process[p].pc # "idle", ListOK(p), Again(p),
           \A x \in process[p].goal :
              x.command \notin EachTime /\ x = Head(process[p].todo) => Finished(ledger, x)
    PROVE  ListOK(p)'
<1>1. CASE process[p].tries < session.retries
  <2>1. process' = [process EXCEPT ![p].pc = "send", ![p].tries = process[p].tries + 1]
    BY <1>1 DEF Again
  <2>2. /\ process'[p].goal = process[p].goal /\ process'[p].pc = "send"
        /\ process'[p].todo = process[p].todo
    BY <2>1, PcEffect
  <2>3. QED
    BY <2>2 DEF ListOK, Asked
<1>2. CASE ~(process[p].tries < session.retries)
  BY <1>2, EndedList DEF Again
<1>3. QED
  BY <1>1, <1>2

\* By the time a status is there, the instruction was executed.
LEMMA SettledIsFinished ==
    ASSUME FinalInv, "rpc" \notin session.faults, NEW p \in Processes, ListOK(p),
           process[p].pc = "wait",
           NEW status \in {"landed", "failed", "expired"},
           InNetwork(Attempt(p), status) \in network, ForgetStatus(p),
           NEW x \in process[p].goal, x.command \notin EachTime, x = Head(process[p].todo)
    PROVE  Finished(ledger, x)
<1>1. Mine(p) = {InNetwork(Attempt(p), status)}
  BY ForgetMine
<1>2. InNetwork(Attempt(p), "sent") \notin network
  BY <1>1 DEF Mine, InNetwork, Attempt
<1>3. QED
  BY <1>2 DEF ListOK

LEMMA ListSteps ==
    ASSUME CommandsInv, FinalInv, ListInv, [CommandsNext]_commandsVars
    PROVE  ListInv'
<1>1. UNCHANGED session /\ CommandsInv' /\ LedgerMoves
  BY SessionStays, CommandsNextInv
<1> SUFFICES ASSUME session.faults = {} PROVE ListInv'
  BY <1>1 DEF ListInv
<1>2. ledger \in Ledger /\ \A p \in Processes : ListOK(p) /\ Keypair[p] \in Keys
  BY LedgerAssumption DEF CommandsInv, ListInv
<1>3. ASSUME NEW p \in Processes, NEW r \in session.requests, Handle(p, r)
      PROVE  ListInv'
  <2>1. Others(p) /\ UNCHANGED <<ledger, network>>
    BY <1>1, <1>3, HandleEffect
  <2>2. PICK i \in Seq(Asked(session)) :
          process'[p] =
            [pc |-> IF i = <<>> THEN "idle" ELSE "send", todo |-> i,
             stops |-> StopsAtError(r), goal |-> {x \in ToSet(i) : Executable(p, x)},
             tries |-> 0, transaction |-> <<commands + 1, Len(i)>>,
             result |-> None, landed |-> 0]
    BY <1>1, <1>3, HandleEffect
  <2>3. /\ process'[p].goal = {x \in ToSet(i) : Executable(p, x)}
        /\ process'[p].todo = i
        /\ process'[p].pc = IF i = <<>> THEN "idle" ELSE "send"
    BY <2>2
  <2>4. process'[p].goal \subseteq Asked(session)
    BY <2>3 DEF ToSet
  <2>5. ASSUME NEW x \in process'[p].goal, x.command \notin EachTime
        PROVE  /\ Ready(ledger, x, Keypair[p])
               /\ process'[p].pc = "send" /\ x \in ToSet(process'[p].todo)
    <3>1. x \in Lasting /\ Executed(ledger, x, Keypair[p]) # {}
      BY <2>3, <2>4, <2>5 DEF Lasting, Asked, Executable
    <3>2. x \in ToSet(i) /\ i # <<>>
      BY <2>3 DEF ToSet
    <3>3. QED
      BY <1>2, <2>3, <3>1, <3>2, ExecutableIsReady
  <2>6. ListOK(p)'
    BY <1>1, <2>1, <2>4, <2>5 DEF ListOK, Asked
  <2>7. QED
    BY <1>1, <2>1, <2>6, OneList DEF Mine
<1>4. ASSUME NEW p \in Processes, Send(p)
      PROVE  ListInv'
  <2>1. /\ process[p].pc = "send" /\ UNCHANGED ledger
        /\ process' = [process EXCEPT ![p].pc = "wait"]
        /\ network' = network \cup {InNetwork(Attempt(p), "sent")}
    BY <1>4 DEF Send
  <2>2. /\ Others(p) /\ process'[p].pc = "wait" /\ Attempt(p)' = Attempt(p)
        /\ process'[p].goal = process[p].goal /\ process'[p].todo = process[p].todo
    BY <1>1, <2>1, PcEffect
  <2>3. ListOK(p)'
    BY <1>1, <1>2, <2>1, <2>2 DEF ListOK, Asked, InNetwork
  <2>4. \A o \in Processes \ {p} : Mine(o)' = Mine(o)
    BY <2>1 DEF Mine, InNetwork, Attempt
  <2>5. QED
    BY <1>1, <2>2, <2>3, <2>4, OneList
<1>5. ASSUME NEW p \in Processes, SkipOperator(p) \/ Preflight(p)
      PROVE  ListInv'
  <2>1. process[p].pc = "send" /\ Ended(p, "err") /\ UNCHANGED <<ledger, network>>
    BY <1>5 DEF SkipOperator, Preflight
  <2>2. ASSUME NEW x \in process[p].goal, x.command \notin EachTime,
               x = Head(process[p].todo)
        PROVE  Finished(ledger, x)
    <3>1. x \in Lasting /\ Ready(ledger, x, Keypair[p])
      BY <1>2, <2>2, GoalIsLasting DEF ListOK
    <3>2. CASE SkipOperator(p)
      <4>1. x.command = "SnapshotVaultOperatorDelegation"
            /\ ledger.operators[x.operator] # "active"
        BY <2>2, <3>2 DEF SkipOperator
      <4>2. ledger.operators[x.operator] \in {"none", "active", "removed"}
        BY <1>2, <3>1, <4>1, InstructionFields DEF Lasting, Ledger
      <4>3. QED
        BY <3>1, <4>1, <4>2 DEF Ready, Finished
    <3>3. CASE Preflight(p)
      BY <1>2, <2>2, <3>1, <3>3, ReadyIsExecutable DEF Preflight, Executable
    <3>4. QED
      BY <1>5, <3>2, <3>3
  <2>3. ListOK(p)' /\ Others(p)
    BY <1>1, <1>2, <2>1, <2>2, EndedList, EndedEffect
  <2>4. QED
    BY <1>1, <2>1, <2>3, OneList DEF Mine
<1>6. ASSUME NEW p \in Processes, Succeeded(p) \/ Failed(p)
      PROVE  ListInv'
  <2>1. /\ process[p].pc = "wait" /\ ForgetStatus(p) /\ UNCHANGED ledger
        /\ Ended(p, "ok") \/ Again(p)
    BY <1>6 DEF Succeeded, Failed
  <2>2. PICK status \in {"landed", "failed", "expired"} :
          InNetwork(Attempt(p), status) \in network
    BY <1>6 DEF Succeeded, Failed, KnownNotToLand
  <2>3. ASSUME NEW x \in process[p].goal, x.command \notin EachTime,
               x = Head(process[p].todo)
        PROVE  Finished(ledger, x)
    BY <1>2, <2>1, <2>2, <2>3, SettledIsFinished
  <2>4. ListOK(p)' /\ Others(p)
    <3>1. CASE Ended(p, "ok")
      BY <1>1, <1>2, <2>1, <2>3, <3>1, EndedList, EndedEffect
    <3>2. CASE Again(p)
      BY <1>1, <1>2, <2>1, <2>3, <3>2, AgainList, AgainEffect
    <3>3. QED
      BY <2>1, <3>1, <3>2
  <2>5. \A o \in Processes \ {p} : Mine(o)' = Mine(o)
    BY <2>1, <2>2, ForgetMine
  <2>6. QED
    BY <1>1, <2>4, <2>5, OneList
<1>7. ASSUME NEW p \in Processes,
             \/ GiveUp(p) \/ NoBlockhash(p)
             \/ \E r \in session.requests : NotBegun(p, r)
      PROVE  ListInv'
  BY <1>7 DEF GiveUp, NoBlockhash, NotBegun
<1>8. ASSUME NEW n \in network, Land(n.attempt)
      PROVE  ListInv'
  <2> DEFINE a == n.attempt
             p == a.of
             outcomes == Executed(ledger, a.instruction, Keypair[p])
             status == IF outcomes = {} THEN "failed" ELSE "landed"
  <2>1. InNetwork(a, "sent") \in network /\ Settled(a, status)
    BY <1>8 DEF Land
  <2>2. /\ Others(p) /\ process'[p].pc = process[p].pc /\ Attempt(p)' = Attempt(p)
        /\ process'[p].goal = process[p].goal /\ process'[p].todo = process[p].todo
        /\ ledger' \in IF outcomes = {} THEN {ledger} ELSE outcomes
    BY <1>1, <1>8, LandEffect
  <2>3. /\ p \in Processes /\ a = Attempt(p)
        /\ \A o \in Processes \ {p} : Mine(o)' = Mine(o)
    BY <2>1, SettledMine
  <2>4. ASSUME NEW x \in process[p].goal, x.command \notin EachTime
        PROVE  /\ Ready(ledger', x, Keypair[p])
               /\ Finished(ledger, x) => Finished(ledger', x)
               /\ x = Head(process[p].todo) => Finished(ledger', x)
    <3>1. x \in Lasting /\ Ready(ledger, x, Keypair[p])
      BY <1>2, <2>3, <2>4, GoalIsLasting DEF ListOK
    <3>2. /\ Ready(ledger', x, Keypair[p])
          /\ Finished(ledger, x) => Finished(ledger', x)
      BY <1>1, <3>1, GoalsLast
    <3>3. ASSUME x = Head(process[p].todo) PROVE Finished(ledger', x)
      <4>1. x = a.instruction
        BY <2>3, <3>3 DEF Attempt
      <4>2. CASE outcomes = {}
        BY <1>2, <2>2, <3>1, <4>1, <4>2, ReadyIsExecutable
      <4>3. CASE outcomes # {}
        <5>1. ledger' \in Executed(ledger, x, Keypair[p])
          BY <2>2, <4>1, <4>3
        <5>2. QED
          BY <1>2, <2>3, <3>1, <5>1, ExecutedIsFinished
      <4>4. QED
        BY <4>2, <4>3
    <3>4. QED
      BY <3>2, <3>3
  <2> HIDE DEF status, outcomes
  <2>5. process[p].goal \subseteq Asked(session)'
    BY <1>1, <1>2, <2>3 DEF ListOK, Asked
  <2>6. ASSUME NEW x \in process[p].goal, x.command \notin EachTime
        PROVE  Finished(ledger, x) \/ (process[p].pc # "idle" /\ x \in ToSet(process[p].todo))
    BY <1>2, <2>3, <2>6 DEF ListOK
  <2> HIDE DEF p
  <2>7. ListOK(p)'
    BY <2>2, <2>4, <2>5, <2>6 DEF ListOK
  <2>8. QED
    BY <1>1, <2>2, <2>3, <2>7, OneList
<1>9. ASSUME NEW n \in network, Expire(n.attempt) PROVE ListInv'
  BY <1>9 DEF Expire
<1>10. CASE UNCHANGED commandsVars
  BY <1>10 DEF commandsVars, ListInv, ListOK, Attempt, InNetwork, Asked
<1>11. QED
  BY <1>3, <1>4, <1>5, <1>6, <1>7, <1>8, <1>9, <1>10, CommandsSteps

LEMMA ListInvariance == CommandsSafety => []ListInv
<1>1. CommandsInit => ListInv
  <2> SUFFICES ASSUME CommandsInit, NEW p \in Processes PROVE ListOK(p)
    BY DEF ListInv
  <2>1. process[p].goal = {}
    BY DEF CommandsInit
  <2>2. QED
    BY <2>1 DEF ListOK
<1>2. CommandsInv /\ FinalInv /\ ListInv /\ [CommandsNext]_commandsVars => ListInv'
  BY ListSteps
<1>3. QED
  BY <1>1, <1>2, CommandsInvariance, FinalInvariance, PTL DEF CommandsSafety

\* Whatever else in its list fails, and whoever else is at work, a crank ends
\* with everything it could do done (instructions.rs:949, 1005): it does not
\* stop at an error, and nothing takes away what an instruction needs except
\* what finishes it.
THEOREM CrankFinishes == CommandsSafety => []CrankDoesItsList
<1>1. CommandsInv /\ ListInv => CrankDoesItsList
  <2> SUFFICES ASSUME CommandsInv, ListInv, NEW p \in Processes, session.faults = {},
                      process[p].pc = "idle", NEW x \in process[p].goal,
                      x.command \notin EachTime
               PROVE  Executed(ledger, x, Keypair[p]) \subseteq {ledger}
    BY DEF CrankDoesItsList
  <2>1. x \in Lasting /\ Finished(ledger, x)
    BY GoalIsLasting DEF ListInv, ListOK
  <2>2. QED
    BY <2>1, FinishedStays DEF CommandsInv
<1>2. QED
  BY <1>1, CommandsInvariance, ListInvariance, PTL
===============================================================================
