------------------------------- MODULE Interface -------------------------------
(***************************************************************************)
(* The boundary between the clients and the program: the account lists and *)
(* data the generated clients write into an instruction, the message that  *)
(* merges the privileges of its instructions, and the order, number and    *)
(* privileges of accounts that each handler insists on before it does      *)
(* anything.  The accounts themselves are the right ones (the program's    *)
(* addresses); what is in doubt is where they stand and what may be done   *)
(* with them.                                                              *)
(***************************************************************************)
EXTENDS Naturals, Sequences, FiniteSets

CONSTANTS
    KeyPairs,               \* key pairs the client signs with
    MAX_INSTRUCTIONS    \* bound on the instructions of a message

ASSUME InterfaceAssumption == MAX_INSTRUCTIONS \in Nat

\* AccountMeta::new_readonly and new, without and with a signature.
R(role)  == [role |-> role, signer |-> FALSE, writable |-> FALSE]
W(role)  == [role |-> role, signer |-> FALSE, writable |-> TRUE]
S(role)  == [role |-> role, signer |-> TRUE,  writable |-> FALSE]
WS(role) == [role |-> role, signer |-> TRUE,  writable |-> TRUE]

\* The roles whose holder signs; the other accounts have keys of their own.
SigningRoles == {"ncn_admin", "operator_admin", "admin"}

-------------------------------------------------------------------------------
(***************************************************************************)
(* The generated clients: the accounts, the discriminator and the          *)
(* arguments of an instruction, and the fields its builder insists on.     *)
(***************************************************************************)

FieldsOf(ix) ==
    {ix.accounts[i].role : i \in DOMAIN ix.accounts} \cup {ix.args[i] : i \in DOMAIN ix.args}

InitializeConfigInstruction ==
    [discriminator |-> 0,
     accounts |-> <<W("config"), R("ncn"), R("ncn_fee_wallet"), S("ncn_admin"),
                   R("tie_breaker_admin"), W("account_payer"), R("system_program")>>,
     args |-> <<"epochs_before_stall", "epochs_after_consensus_before_close",
               "valid_slots_after_consensus", "minimum_stake", "ncn_fee_bps">>]

InitializeConfigBuilder == FieldsOf(InitializeConfigInstruction) \ {"system_program"}

InitializeVaultRegistryInstruction ==
    [discriminator |-> 1,
     accounts |-> <<R("config"), W("vault_registry"), R("ncn"), W("account_payer"),
                   R("system_program")>>,
     args |-> <<>>]

InitializeVaultRegistryBuilder == FieldsOf(InitializeVaultRegistryInstruction) \ {"system_program"}

RegisterVaultInstruction ==
    [discriminator |-> 2,
     accounts |-> <<R("config"), W("vault_registry"), R("ncn"), R("vault"),
                   R("ncn_vault_ticket")>>,
     args |-> <<>>]

RegisterVaultBuilder == FieldsOf(RegisterVaultInstruction)

RegisterOperatorInstruction ==
    [discriminator |-> 3,
     accounts |-> <<R("config"), W("ncn_operator_account"), R("ncn"), R("operator"),
                   S("operator_admin"), R("ncn_operator_state"), W("snapshot"),
                   R("restaking_config"), W("account_payer"), R("system_program")>>,
     args |-> <<"g1_pubkey", "g2_pubkey", "signature">>]

RegisterOperatorBuilder == FieldsOf(RegisterOperatorInstruction) \ {"system_program"}

UpdateOperatorBN128KeysInstruction ==
    [discriminator |-> 4,
     accounts |-> <<R("config"), W("ncn_operator_account"), R("ncn"), R("operator"),
                   S("operator_admin"), W("snapshot")>>,
     args |-> <<"g1_pubkey", "g2_pubkey", "signature">>]

UpdateOperatorBN128KeysBuilder == FieldsOf(UpdateOperatorBN128KeysInstruction)

RemoveOperatorInstruction ==
    [discriminator |-> 5,
     accounts |-> <<R("config"), R("ncn"), R("operator"), S("admin"), W("snapshot")>>,
     args |-> <<>>]

RemoveOperatorBuilder == FieldsOf(RemoveOperatorInstruction)

UpdateOperatorIpPortInstruction ==
    [discriminator |-> 6,
     accounts |-> <<R("config"), W("ncn_operator_account"), R("ncn"), R("operator"),
                   S("operator_admin")>>,
     args |-> <<"ip_address", "port">>]

UpdateOperatorIpPortBuilder == FieldsOf(UpdateOperatorIpPortInstruction)

InitializeSnapshotInstruction ==
    [discriminator |-> 7,
     accounts |-> <<R("ncn"), W("snapshot"), W("account_payer"), R("system_program")>>,
     args |-> <<>>]

InitializeSnapshotBuilder == FieldsOf(InitializeSnapshotInstruction) \ {"system_program"}

\* Mutant: the snapshot is passed as the handler loads it.
ReallocSnapshotReadonly ==
    [discriminator |-> 8,
     accounts |-> <<R("ncn"), R("config"), R("snapshot"), W("account_payer"),
                   R("system_program")>>,
     args |-> <<>>]

ReallocSnapshotInstruction ==
    [discriminator |-> 8,
     accounts |-> <<R("ncn"), R("config"), W("snapshot"), W("account_payer"),
                   R("system_program")>>,
     args |-> <<>>]

ReallocSnapshotBuilder == FieldsOf(ReallocSnapshotInstruction) \ {"system_program"}

SnapshotVaultOperatorDelegationInstruction ==
    [discriminator |-> 9,
     accounts |-> <<R("config"), R("restaking_config"), R("ncn"), R("operator"),
                   R("vault"), R("vault_ncn_ticket"), R("ncn_vault_ticket"),
                   R("ncn_operator_state"), R("vault_operator_delegation"),
                   W("snapshot"), R("vault_registry")>>,
     args |-> <<>>]

SnapshotVaultOperatorDelegationBuilder == FieldsOf(SnapshotVaultOperatorDelegationInstruction)

VerifyCertificateInstruction ==
    [discriminator |-> 10,
     accounts |-> <<R("ncn_config"), R("ncn"), R("snapshot"), R("restaking_config")>>,
     args |-> <<"digest", "aggregated_g2", "aggregated_signature",
               "operators_signature_bitmap", "expected_generation">>]

VerifyCertificateBuilder == FieldsOf(VerifyCertificateInstruction)

AdminSetParametersInstruction ==
    [discriminator |-> 11,
     accounts |-> <<W("config"), R("ncn"), S("ncn_admin")>>,
     args |-> <<"starting_valid_epoch", "epochs_before_stall",
               "epochs_after_consensus_before_close", "valid_slots_after_consensus",
               "minimum_stake", "consensus_threshold_bps">>]

AdminSetParametersBuilder == FieldsOf(AdminSetParametersInstruction) \ {"starting_valid_epoch", "epochs_before_stall",
            "epochs_after_consensus_before_close", "valid_slots_after_consensus",
            "minimum_stake", "consensus_threshold_bps"}

AdminSetNewAdminInstruction ==
    [discriminator |-> 12,
     accounts |-> <<W("config"), R("ncn"), S("ncn_admin"), R("new_admin")>>,
     args |-> <<"role">>]

AdminSetNewAdminBuilder == FieldsOf(AdminSetNewAdminInstruction)

AdminRegisterStMintInstruction ==
    [discriminator |-> 13,
     accounts |-> <<R("config"), R("ncn"), R("st_mint"), W("vault_registry"),
                   WS("admin")>>,
     args |-> <<"weight_bps">>]

AdminRegisterStMintBuilder == FieldsOf(AdminRegisterStMintInstruction)

ClientInstructions == {
    <<InitializeConfigInstruction, InitializeConfigBuilder>>,
    <<InitializeVaultRegistryInstruction, InitializeVaultRegistryBuilder>>,
    <<RegisterVaultInstruction, RegisterVaultBuilder>>,
    <<RegisterOperatorInstruction, RegisterOperatorBuilder>>,
    <<UpdateOperatorBN128KeysInstruction, UpdateOperatorBN128KeysBuilder>>,
    <<RemoveOperatorInstruction, RemoveOperatorBuilder>>,
    <<UpdateOperatorIpPortInstruction, UpdateOperatorIpPortBuilder>>,
    <<InitializeSnapshotInstruction, InitializeSnapshotBuilder>>,
    <<ReallocSnapshotInstruction, ReallocSnapshotBuilder>>,
    <<SnapshotVaultOperatorDelegationInstruction, SnapshotVaultOperatorDelegationBuilder>>,
    <<VerifyCertificateInstruction, VerifyCertificateBuilder>>,
    <<AdminSetParametersInstruction, AdminSetParametersBuilder>>,
    <<AdminSetNewAdminInstruction, AdminSetNewAdminBuilder>>,
    <<AdminRegisterStMintInstruction, AdminRegisterStMintBuilder>>}

-------------------------------------------------------------------------------
(***************************************************************************)
(* The program: what a handler expects at each position, and whether it    *)
(* writes to that account.                                                 *)
(***************************************************************************)

Expects(role, needs, writes) == [role |-> role, needs |-> needs, writes |-> writes]
Plain(role) == Expects(role, {}, FALSE)
Loaded(role) == Expects(role, {"writable"}, TRUE)
Unloaded(role) == Expects(role, {}, TRUE)     \* written without being loaded as writable
Signs(role) == Expects(role, {"signer"}, FALSE)
SignsWritable(role) == Expects(role, {"signer", "writable"}, FALSE)

process_admin_initialize_config ==
    <<Loaded("config"), Plain("ncn"), Plain("ncn_fee_wallet"), Signs("ncn_admin"),
      Plain("tie_breaker_admin"), Loaded("account_payer"), Plain("system_program")>>

process_initialize_vault_registry ==
    <<Plain("config"), Loaded("vault_registry"), Plain("ncn"),
      Loaded("account_payer"), Plain("system_program")>>

process_register_vault ==
    <<Plain("config"), Loaded("vault_registry"), Plain("ncn"), Plain("vault"),
      Plain("ncn_vault_ticket")>>

process_register_operator ==
    <<Plain("config"), Loaded("ncn_operator_account"), Plain("ncn"),
      Plain("operator"), Signs("operator_admin"), Plain("ncn_operator_state"),
      Loaded("snapshot"), Plain("restaking_config"), Loaded("account_payer"),
      Plain("system_program")>>

process_update_operator_bn128_keys ==
    <<Plain("config"), Loaded("ncn_operator_account"), Plain("ncn"),
      Plain("operator"), Signs("operator_admin"), Loaded("snapshot")>>

process_remove_operator ==
    <<Plain("config"), Plain("ncn"), Plain("operator"), Signs("admin"),
      Loaded("snapshot")>>

process_update_operator_ip_port ==
    <<Plain("config"), Loaded("ncn_operator_account"), Plain("ncn"),
      Plain("operator"), Signs("operator_admin")>>

process_initialize_snapshot ==
    <<Plain("ncn"), Loaded("snapshot"), Loaded("account_payer"),
      Plain("system_program")>>

process_realloc_snapshot ==
    <<Plain("ncn"), Plain("config"), Unloaded("snapshot"), Loaded("account_payer"),
      Plain("system_program")>>

process_snapshot_vault_operator_delegation ==
    <<Plain("config"), Plain("restaking_config"), Plain("ncn"), Plain("operator"),
      Plain("vault"), Plain("vault_ncn_ticket"), Plain("ncn_vault_ticket"),
      Plain("ncn_operator_state"), Plain("vault_operator_delegation"),
      Loaded("snapshot"), Plain("vault_registry")>>

process_verify_certificate ==
    <<Plain("ncn_config"), Plain("ncn"), Plain("snapshot"), Plain("restaking_config")>>

process_admin_set_parameters ==
    <<Loaded("config"), Plain("ncn"), SignsWritable("ncn_admin")>>

process_admin_set_new_admin ==
    <<Loaded("config"), Plain("ncn"), SignsWritable("ncn_admin"), Plain("new_admin")>>

process_admin_register_st_mint ==
    <<Plain("config"), Plain("ncn"), Plain("st_mint"), Loaded("vault_registry"),
      Signs("admin")>>

\* The variants in the order of the enumeration: handler and fields.
NCNProgramInstruction == <<
    <<process_admin_initialize_config,
        <<"epochs_before_stall", "epochs_after_consensus_before_close",
          "valid_slots_after_consensus", "minimum_stake", "ncn_fee_bps">>>>,
    <<process_initialize_vault_registry,
        <<>>>>,
    <<process_register_vault,
        <<>>>>,
    <<process_register_operator,
        <<"g1_pubkey", "g2_pubkey", "signature">>>>,
    <<process_update_operator_bn128_keys,
        <<"g1_pubkey", "g2_pubkey", "signature">>>>,
    <<process_remove_operator,
        <<>>>>,
    <<process_update_operator_ip_port,
        <<"ip_address", "port">>>>,
    <<process_initialize_snapshot,
        <<>>>>,
    <<process_realloc_snapshot,
        <<>>>>,
    <<process_snapshot_vault_operator_delegation,
        <<>>>>,
    <<process_verify_certificate,
        <<"digest", "aggregated_g2", "aggregated_signature",
          "operators_signature_bitmap", "expected_generation">>>>,
    <<process_admin_set_parameters,
        <<"starting_valid_epoch", "epochs_before_stall",
          "epochs_after_consensus_before_close", "valid_slots_after_consensus",
          "minimum_stake", "consensus_threshold_bps">>>>,
    <<process_admin_set_new_admin,
        <<"role">>>>,
    <<process_admin_register_st_mint,
        <<"weight_bps">>>> >>

-------------------------------------------------------------------------------
(***************************************************************************)
(* Messages                                                                *)
(***************************************************************************)

VARIABLES
    fee_payer,    \* signs and is writable in every message
    holder,       \* of each signing role, a key
    message,      \* the instructions built so far
    outcome

interfaceVars == <<fee_payer, holder, message, outcome>>

InterfaceInit ==
    /\ fee_payer \in KeyPairs
    /\ holder \in [SigningRoles -> KeyPairs]
    /\ message = <<>>
    /\ outcome = "none"

\* Fields a caller may leave out by the documentation of the builders.
OptionalFields(ix) ==
    {"system_program"} \cup (IF ix.discriminator = 11 THEN {ix.args[i] : i \in DOMAIN ix.args} ELSE {})

Build(entry, omitted) ==
    /\ outcome = "none"
    /\ Len(message) < MAX_INSTRUCTIONS
    /\ IF entry[2] \cap omitted = {}
       THEN message' = Append(message, entry[1]) /\ UNCHANGED outcome
       ELSE outcome' = "panic" /\ UNCHANGED message
    /\ UNCHANGED <<fee_payer, holder>>

KeyOf(role) == IF role \in SigningRoles THEN holder[role] ELSE role

\* A key has the union of what the instructions of the message ask for it.
MetasOf(key) ==
    {m \in UNION {{message[i].accounts[p] : p \in DOMAIN message[i].accounts} : i \in DOMAIN message} :
        KeyOf(m.role) = key}
IsSigner(key)   == key = fee_payer \/ \E m \in MetasOf(key) : m.signer
IsWritable(key) == key = fee_payer \/ \E m \in MetasOf(key) : m.writable

\* What happens at one position of a handler's account list.
Check(expected, role) ==
    IF role # expected.role THEN "wrong account"
    ELSE IF "signer" \in expected.needs /\ ~IsSigner(KeyOf(role)) THEN "MissingRequiredSignature"
    ELSE IF "writable" \in expected.needs /\ ~IsWritable(KeyOf(role)) THEN "InvalidAccountData"
    ELSE IF expected.writes /\ ~IsWritable(KeyOf(role)) THEN "ReadonlyDataModified"
    ELSE "ok"

process_instruction(ix) ==
    LET variant == NCNProgramInstruction[ix.discriminator + 1]
        handler == variant[1]
    IN  IF variant[2] # ix.args THEN {"undecodable"}
        ELSE IF Len(handler) # Len(ix.accounts) THEN {"NotEnoughAccountKeys"}
        ELSE {Check(handler[p], ix.accounts[p].role) : p \in DOMAIN handler}

\* One instruction that fails fails the message.
SendMessage ==
    /\ outcome = "none"
    /\ message # <<>>
    /\ LET results == UNION {process_instruction(message[i]) : i \in DOMAIN message}
       IN  IF results = {"ok"} THEN outcome' = "ok" ELSE outcome' \in results \ {"ok"}
    /\ UNCHANGED <<fee_payer, holder, message>>

InterfaceNext ==
    \/ \E entry \in ClientInstructions : \E omitted \in SUBSET OptionalFields(entry[1]) : Build(entry, omitted)
    \/ SendMessage

InterfaceSpec == InterfaceInit /\ [][InterfaceNext]_interfaceVars

-------------------------------------------------------------------------------
(***************************************************************************)
(* Properties                                                              *)
(***************************************************************************)

\* Whatever instructions a message combines, whatever optional fields it
\* leaves out and whoever pays and signs, what the clients write is what the
\* handlers expect, position by position and privilege by privilege, and no
\* handler writes to an account that was passed as read-only (realloc_snapshot
\* never loads the snapshot as writable), although a handler and its client
\* are written, or generated, apart from each other.  The one exception is
\* admin_set_parameters.rs:52 and admin_set_new_admin.rs:33, which insist on a
\* writable ncn_admin: that key has to pay for the message.
OnlyAReadonlyAdminIsRefused ==
    outcome \notin {"none", "ok"} =>
        /\ outcome = "InvalidAccountData"
        /\ holder["ncn_admin"] # fee_payer
        /\ \E i \in DOMAIN message : message[i].discriminator \in {11, 12}
===============================================================================
