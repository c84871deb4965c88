-------------------------------- MODULE MCParts --------------------------------
(***************************************************************************)
(* Six parts that share no state, in one run: the variable part, chosen    *)
(* at the start, says which of them moves while the others stay as they    *)
(* began.                                                                  *)
(*                                                                         *)
(*   settlement  one application, two payers, several payloads for each    *)
(*               index, stories in two versions, payloads that must be     *)
(*               refused for each reason there is; a buffer is created     *)
(*               with three cells, two of them its trailer, and grows by   *)
(*               at most three: one of capacity 2 grows by one cell, less  *)
(*               than the trailer, so that the old and the new trailer     *)
(*               overlap, one of capacity 3 by a whole trailer, a first    *)
(*               write at the end of either is too far ahead, and capacity *)
(*               4 is refused; what producer runs make is tried in every   *)
(*               state;                                                    *)
(*   registry    one mint and one vault more than the lists hold, two      *)
(*               vaults of the same mint, weights on both sides of the     *)
(*               range;                                                    *)
(*   fees        the cap is 10 and the protocol's fee 4, so that 6 is the  *)
(*               largest fee, 7 exceeds the cap in total and 11 by itself; *)
(*   interface   two key pairs, messages of up to two instructions;        *)
(*   key_file    two operators, three generated keys and one of a user's;  *)
(*   vault_update  two clients, up to two delegations and two epochs.      *)
(***************************************************************************)
EXTENDS PayloadProducer, VaultRegistry, Fees, Interface, KeyFile, VaultUpdate

CONSTANTS a1, b1, b2, r1, r2, m1, m2, m3, v1, v2, v3, v4, w1, w2, o1, o2, p1, p2, user_key, c1, c2

Store(r) == [kind |-> "Store", data |-> r]
Event(n) == [kind |-> "Event", payload_len |-> n, meta |-> None]
Story(app, index, story) ==
    [kind |-> "Event", payload_len |-> STORY_META_LEN,
     meta |-> [story_sha256 |-> story, buffer |-> <<app, index>>, len |-> Len(story)]]

Payload(index, updates) ==
    [transition_index |-> index, state_pda |-> a1,
     ix_discriminator |-> SETTLE_DISCRIMINATOR, updates |-> updates]

MCPayloads ==
    {Payload(0, <<Store(r1), Story(a1, 0, <<b1>>)>>),
     Payload(0, <<Event(0), Store(r2)>>),
     Payload(1, <<Story(a1, 1, <<b2, b1>>), Store(r1)>>),
     Payload(1, <<Store(r2)>>),
     Payload(1, <<Store(r2), Story(a1, 0, <<b1>>)>>),
     Payload(0, <<Store(r1), Store(r1)>>),
     Payload(0, <<Event(1)>>),
     Payload(0, <<Store(r2), Event(73)>>),
     [Payload(0, <<Store(r2)>>) EXCEPT !.ix_discriminator = "other"]}
MCChunks == {<<b1>>, <<b2, b1>>}

\* A run of the producer for every story that occurs, and one for the buffer of
\* another index; prompts with which the event just fits and just does not.
AStory(index, buffer_index, story) ==
    [story |-> story, new_root |-> r1, transition_index |-> index, state_pda |-> a1,
     ix_discriminator |-> SETTLE_DISCRIMINATOR, buffer |-> <<a1, buffer_index>>]
MCStoryInputs ==
    {AStory(0, 0, <<b1>>), AStory(0, 0, <<>>), AStory(0, 0, <<b1, b2, b1>>),
     AStory(0, 0, <<b1, ZERO>>),
     AStory(1, 1, <<b2, b1>>), AStory(1, 0, <<b1>>)}
AnAnswer(prompt_ids, answer_ids) ==
    [model |-> 0, prompt_ids |-> prompt_ids, answer_ids |-> answer_ids, manifest |-> "overlay",
     new_root |-> r1, transition_index |-> 1, state_pda |-> a1,
     ix_discriminator |-> SETTLE_DISCRIMINATOR]
MCAnswerInputs ==
    {AnAnswer(<<1, 2, 3, 4, 5>>, <<6, 7>>), AnAnswer(<<1, 2, 3, 4, 5, 6>>, <<7, 8>>),
     AnAnswer(<<1>>, <<2, 3, 4>>), AnAnswer(<<>>, <<>>)}

\* Every payload, published with a story of its own or of another.
MCFixtures ==
    {[story_utf8 |-> story, story_sha256 |-> story, payload |-> p, digest |-> p] :
        story \in {<<b1>>, <<b2, b1>>}, p \in MCPayloads}

MCMints == {m1, m2, m3}
MCVaults == {v1, v2, v3, v4}
MCSupportedMint ==
    [v \in MCVaults |-> CASE v \in {v1, v2} -> m1 [] v = v3 -> m2 [] v = v4 -> m3]
MCWeightArgs == {0, 1, FULL_WEIGHT_BPS, FULL_WEIGHT_BPS + 1}
MCKeyPairs == {"key 1", "key 2"}

VARIABLE part

settlementOnly ==
    UNCHANGED <<registryVars, feesVars, interfaceVars, keyFileVars, vaultUpdateVars>>
registryOnly == UNCHANGED <<settlementVars, feesVars, interfaceVars, keyFileVars, vaultUpdateVars>>
feesOnly == UNCHANGED <<settlementVars, registryVars, interfaceVars, keyFileVars, vaultUpdateVars>>
interfaceOnly == UNCHANGED <<settlementVars, registryVars, feesVars, keyFileVars, vaultUpdateVars>>
keyFileOnly == UNCHANGED <<settlementVars, registryVars, feesVars, interfaceVars, vaultUpdateVars>>
vaultUpdateOnly == UNCHANGED <<settlementVars, registryVars, feesVars, interfaceVars, keyFileVars>>

partsVars ==
    <<part, settlementVars, registryVars, feesVars, interfaceVars, keyFileVars, vaultUpdateVars>>

PartsInit ==
    /\ part \in {"settlement", "registry", "fees", "interface", "key_file", "vault_update"}
    /\ SettlementInit
    /\ RegistryInit
    /\ FeesInit
    /\ part # "fees" => epoch = 0 /\ fee_1.ncn_fee_bps = 0 /\ ncn_fee_wallet = w1
    /\ InterfaceInit
    /\ part # "interface" => fee_payer = "key 1" /\ \A role \in SigningRoles : holder[role] = "key 1"
    /\ KeyFileInit
    /\ VaultUpdateInit

PartsNext ==
    /\ \/ part = "settlement" /\ SettlementNext /\ settlementOnly
       \/ part = "registry" /\ RegistryNext /\ registryOnly
       \/ part = "fees" /\ FeesNext /\ feesOnly
       \/ part = "interface" /\ InterfaceNext /\ interfaceOnly
       \/ part = "key_file" /\ KeyFileNext /\ keyFileOnly
       \/ part = "vault_update" /\ VaultUpdateNext /\ vaultUpdateOnly
    /\ UNCHANGED part

\* The fairness of VaultUpdateSpec, when that part moves.
PartsFairness ==
    /\ WF_partsVars(part = "vault_update" /\ RpcRecovers /\ vaultUpdateOnly /\ UNCHANGED part)
    /\ \A c \in Clients :
         WF_partsVars(part = "vault_update" /\ ClientStep(c) /\ vaultUpdateOnly /\ UNCHANGED part)

PartsSpec == PartsInit /\ [][PartsNext]_partsVars /\ PartsFairness
===============================================================================
