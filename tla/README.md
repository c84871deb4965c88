# TLA+ for the NCN program, the settlement program and their clients

This directory models the two on-chain programs of this repository, the NCN
program (`program/`, `core/`) and gaskiller-settlement (`settlement_program/`,
`settlement_core/`), and what drives them from outside: the keeper, the command
line (`cli/`), the generated Rust client (`clients/rust/`) and the payload
producer (`llm_payload_producer/`).  TLC checks the models and TLAPS proves the
main results.  Module comments say what a module
abstracts; `PROJECT.json` maps every definition to the lines it stands for.

## 1. The system

An NCN is a network of *operators*.  Each registers a BLS key; *vaults* delegate
stake to operators; a *certificate* is one aggregated BLS signature of operators
that hold a threshold of the stake.  The NCN program keeps the operators, their
keys and a copy of their stake, and verifies certificates.  The settlement
program lets an application advance its commitment root by certified
transitions.  A *keeper* off chain creates the accounts and copies stake every
epoch; everything else is a command somebody runs.

| Component | State | Operations | Interacts with |
|---|---|---|---|
| Operator set (`core/src/snapshot.rs`, `register_operator.rs`, `remove_operator.rs`, `update_operator_bn128_keys.rs`) | slots of the Snapshot account, one key account per operator, registration count, generation, running aggregate key (APK) | register, rotate key, remove | restaking program numbers operators; certificates are verified against APK, slots and generation |
| Stake snapshot (`snapshot.rs`, `snapshot_vault_operator_delegation.rs`) | per operator: contributions per vault, totals, minimum flags, freshness marker; a marker of the whole snapshot | the permissionless crank of one vault and one operator | reads delegations, tickets, opt-ins and the clock |
| Certificate verification (`core/src/certificate.rs`, `utils.rs`) | none | `verify_certificate`, from its own instruction and from settle; `create_signer_bitmap` off chain | reads the two above at a later time than the certificate was assembled |
| Vault registry (`core/src/vault_registry.rs`) | list of mints with weights, list of vaults | register mint, register vault | its positions key the contributions, its weights scale them |
| Accounts (`initialize_snapshot.rs`, `realloc_snapshot.rs`, `initialize_vault_registry.rs`) | length and contents of snapshot and registry account | create, grow by 10 KB, initialise when long enough | copies `Config.minimum_stake` |
| Config and admin (`config.rs`, `admin_*.rs`) | parameters, admins | initialise, set parameters, set admin | read by verification and by the accounts |
| Account payer (`core/src/account_payer.rs`) | lamports | pay rent, top up what was sent ahead | every account that is created or grown |
| Fees (`core/src/fees.rs`) | two fee records, wallet | charge of an epoch, update | initialised with the Config |
| Settlement (`settlement_program/`) | per application: commitment root and transition count | initialise, settle | calls certificate verification, reads buffers |
| Buffers (`write_buffer.rs`, `close_buffer.rs`) | account bytes with a trailer (payer, capacity) | write (creates and grows), close | settle hashes their content |
| Program interface (`program/src/lib.rs`, `clients/rust/`) | none | lists of accounts and privileges of each instruction, in the client and in the handler | every instruction passes through it |
| Creation of accounts (`get_or_create_snapshot`, `create_vault_registry`) | position in a sequence of reads and transactions | read, send, retry | keeper phase 0, CLI commands |
| Keeper (`cli/src/keeper/`) | epoch, list of operators due | loop: read, crank, sleep | RPC reads and the crank |
| Vault update (`full_vault_update`) | tracker, position in the delegations | initialise tracker, crank, close | vault program; run by keeper, CLI, anybody |
| Commands (`cli/src/handler.rs`, `instructions.rs`) | attempts under way | one or several instructions per command | everything above |
| Key file (`cli/src/bls_keys.rs`) | private keys of operators on a machine | save, load, register | the keys of the operator set |
| Payload producer (`llm_payload_producer/`) | none | build a payload from a story or an answer, write a fixture, verify one | what it builds is certified and settled |
| Legacy operator registry, JavaScript client, frontend, tests | | | not modelled (section 7) |

What is hard about it.  *On chain* all instructions are permissionless or come
from different parties and interleave; a certificate is assembled in one state
and verified in another; stake ages by itself with the clock; one freshness
marker stands for several cranks; registration happens in another order than the
opt-ins that number the slots; removal leaves tombstones and accounts behind;
buffers and the snapshot are created and grown by several calls of several
parties while others use them or wait for them.  A Solana transaction is
atomic, so an instruction is one action of the models and each early return a
conjunct of its guard; there is no crash between two writes of one instruction.
*Off chain* nothing is atomic: each read and each transaction is a step, what was
read is old when it is used, several processes do the same work, an attempt may
be lost, land without being reported or land late, and is then sent again with a
new blockhash; a process may be stopped between any two steps.

Correctness, by component: *operator set* - slots, accounts and APK agree, a
removed operator stays out, and no change of the set keeps the generation;
*stake* - totals are those of the contributions, and counted stake is still
delegated; *certificates* - accepted only with the quorum and signatures they
claim and against the set they were assembled for, and honest quorums accepted;
*registry* - one position and weight per vault, for good; *accounts* -
initialised once, at full size, rent exempt, and never beyond completing;
*fees* - a fee announced for an epoch is charged in it, and no total passes
the cap; *settlement* - each index settles once, in order, and the story that
settled stays; *buffers* - growth is invisible to readers; *producer* - what it
builds settles when its story is staged, and a verified fixture shows the text
that settled; *interface* - the
client asks for the privileges a handler insists on; *clients* - what is
reported agrees with what happened, work done once is not done twice, and every
operator is cranked in every epoch; *key file* - a key is on disk before it goes
to the chain, and no later run replaces the private half of a registered one.

## 2. Modules

| Module | Contents |
|---|---|
| `G1` | keys as generators of a free commutative group, so a sum determines its summands (aggregate signatures verify for the keys that signed and no others) |
| `SignerSet` | abstract: who signs with which key, who left, and a version that moves with every change |
| `OperatorSet` | the three instructions on the set and the restaking program's numbering; implements `SignerSet` (`ImplementsSignerSet`) |
| `StakeSnapshot` | extends `OperatorSet` with clock, delegations, tickets and the crank; its actions conjoin those of `OperatorSet` |
| `Certificate` | extends `StakeSnapshot` with one certificate in flight; `verify_certificate` is a predicate, as it changes nothing |
| `VaultRegistry` | the two lists and the crank's two lookups |
| `SnapshotLife` | abstract: a snapshot that is allocated, becomes ready once, and then has a growing generation |
| `SnapshotAccount` | Config, snapshot account, registry account and payer; implements `SnapshotLife` (`ImplementsSnapshotLife`) |
| `Provisioning` | extends `SnapshotAccount` with the processes that create the accounts, their transactions, retries and faults |
| `FeeSchedule` | abstract: a fee of this epoch that nothing changes, a fee of the next that may be set |
| `Fees` | the two records of `FeeConfig`; implements `FeeSchedule` (`ImplementsFeeSchedule`) |
| `Staging` | abstract: buffers as byte arrays with fixed payer and capacity, and the floor of unsettled transitions |
| `Settlement` | the settlement instructions over account data; implements `Staging` (`ImplementsStaging`) |
| `PayloadProducer` | extends `Settlement` with the payloads and fixtures of the producer, as operators, and what the two agree on |
| `Interface` | for every instruction the client's account list and the handler's, compiled into one message |
| `Keeper` | the loop, one action per read, transaction or decision, next to a moving chain |
| `VaultUpdate` | `full_vault_update` of several clients and the vault program's tracker |
| `Commands` | the commands, the instructions they become, attempts under way and what is reported |
| `KeyFile` | the key file, its truncating write, attempts to register that may land at any later time, crashes |
| `NumberTheorems` | lemmas about quotients and about sums over finite sets |
| `OperatorSetProofs` | theorems about `OperatorSet` |
| `CertificateProofs` | theorems about `StakeSnapshot` and `Certificate`, and that both implement `OperatorSet`, so its theorems carry over |
| `PartsProofs` | theorems about `VaultRegistry`, `Fees`, `Interface` and `Keeper`, which share no state |
| `SnapshotAccountProofs` | theorems about `SnapshotAccount` and `Provisioning` |
| `SettlementProofs` | theorems about `Settlement` and `PayloadProducer` |
| `ClientProofs` | theorems about `KeyFile` and `VaultUpdate` |
| `CommandsProofs` | theorems about `Commands` |
| `MC*` | constants and symmetry for TLC; `MCParts` joins six modules that share no state |

How state corresponds: variables have the names of the account fields
(`operators_registered`, `total_aggregated_g1_pubkey`, `last_snapshot_slot`,
`st_mint_list`, ...).  `stake[i]` holds the stake fields of the slot whose
identity fields are `operator_snapshots[i]`.  A PDA that may not exist is `None`
until created.  In `Settlement` `buffers[k]` is the account data, one cell per
byte and a trailer of two cells (36 bytes in the program); a hash is modelled as
what was hashed.  In `SnapshotAccount` all accounts are one record and an
instruction maps it to the set of its outcomes, empty when it fails: a
transaction of several instructions is then a composition, atomic as on chain.
A process off chain has a `pc`, named for the call it makes next, and fields for
what it has read.  Definitions whose comment begins with *Mutant* are changed
copies of the definition they precede; no specification uses them.

Simplifications that matter:

- Keys are abstract, and the proof of possession is a precondition: nobody
  registers a key that is not independent of the others.
- The contribution of a vault is keyed by the vault, not by its position.
  `SlotAndWeightAreForGood` of `VaultRegistry`, proved, is why that is the same.
- The crank requires the delegation account to be initialised, because
  `VaultOperatorDelegation::load` fails otherwise; the branch for an empty
  account (`delegation_dne`) is therefore not reachable and not in the model,
  although `docs/PARITY-PLAN.md:138` counts an empty account as zero stake.  The
  same line derives the weight of the next epoch from the staked part, where the
  code subtracts what is cooling down from the total; the model has the code.
- Toggles of the restaking program change state at any time rather than after
  their epochs, and tickets expire and renew at any time: more behaviours than
  the real programs have.
- `process_settle` verifies against the NCN account it is passed and does not
  compare it with `GkState::ncn`.  The models have one NCN, so `Settlement`
  says nothing of that field.
- The runtime allocates at most 10,240 bytes for an account in one instruction.
  `WithRoom` has that rule also for a buffer the same call created, and
  `SnapshotAccount` for the snapshot.
- EmitEvent changes no account and needs the event authority's signature, which
  only settle gives: it is part of `Settle`.
- `Keeper` takes the update of a vault as one step.  `OneCallIsEnough` of
  `VaultUpdate`, proved for any number of clients and delegations, is its
  licence: a call that loses nothing and stays within its epoch brings the vault
  up to date whatever other clients do meanwhile.
- `Commands` reduces what a program does with an instruction to what tells two
  executions of it apart (was it the first, did it find what it needs); the
  modules of the programs have the rest.  A command whose reads fail, or whose
  snapshot cannot be created (`get_or_create_snapshot`), ends before it sends its
  list (`NotBegun`); the transactions of that creation are `Provisioning`'s, those
  of the vault's update, whose failure is only logged, `VaultUpdate`'s.
- In `KeyFile` an attempt to register stays in flight when its command has ended,
  failed or crashed, and may land at any later step: after the file was removed,
  or while the next command has it truncated.
- A bitmap is any set of bit indices in `certificate_set`.  The honest certificate
  is the one of `create_signer_bitmap`, which sets every bit but the listed ones:
  padding and, unless they are listed, tombstones too.
- An RPC that fails does so for as long as it likes and then answers for good
  (`rpc_responds`); safety is checked of all behaviours, before and after.

## 3. Runs

| Run | Question | Distinct states |
|---|---|---|
| `operator_set` | do slots, accounts, count and APK stay consistent under any interleaving, and is every history one of `SignerSet`? | 1.4 k (symmetric) |
| `stake_totals` | do totals follow the contributions under repeated cranks of two vaults, opt-outs and removal? | 0.6 M |
| `certificate_set` | what does acceptance of a certificate imply, over four changes of the set? | 0.8 M |
| `certificate_stake` | is an honest quorum ever refused, tombstones and padding included, and is counted stake still delegated, over two epoch boundaries with missed vault updates? | 0.5 M |
| `provisioning` | is the snapshot initialised once, at full size and rent exempt, in any order of instructions; and do three processes that create accounts at once, with and without faults, report success only of what exists, and succeed without faults? | 0.7 M |
| `keeper_live` | is a keeper that finds nothing to do right, is every operator of the first vault cranked in every epoch that lasts, although one fails in every round, and does the keeper in the end only retry that one? | 90 k |
| `commands` | does a command report what happened, and what happened once; are settings those asked for; does a crank do its list; does every command end? | 1.3 M |
| `separate_parts` | six parts that share no state, below | 0.3 M |

Four runs check what a comment, document or test says and are expected to find
it violated: `aggregate_is_live_sum`, `verify_loop_covers_live`,
`stake_two_vaults` and `everyone_provided` (section 6).

`separate_parts` explores six modules with one variable, `part`, that chooses
at the start which of them moves while the others stay as they began; the states
are then the sum of the parts and not their product.  *settlement*: does every
index settle once, does its story stay, do growing buffers with a trailer
implement byte arrays, and does what the producer made settle exactly when its
story is staged?  *registry*: are positions and weights stable, with full
lists and weights out of range?  *fees*: do two records implement one schedule
under the cap?  *interface*: is a message of the generated client refused only
because the client marks an admin as read-only?  *key_file*: is a key saved
before it is sent, whatever is still in flight, and does every later run keep the
private half of a registered one in a file that can be read?  *vault_update*: is one undisturbed call enough, and is the vault
updated in every epoch that lasts?

### Bounds

`MAX_GENERATION` bounds the changes of the operator set: an instruction that
would pass it fails, as `checked_add` does at 2^64.  Seven suffice for three
registrations, rotations before and after a removal, and the full set.
`MAX_OPERATORS` is 3 (256), with an operator more than slots so that an index
past the array occurs.  In the certificate runs two operators share three
slots, and bytes have two bits: a bitmap is one byte, with a padding bit while
one operator is registered and a tombstone's bit after a removal.  Rounding down
is refuted at one operator; bitmaps of several bytes are in the proof of
`HonestQuorumAccepted`, for any `BYTE_BITS`.
`MAX_SLOT` bounds the clock; one to three epochs are enough because
`EffectiveStake` distinguishes ages 0, 1 and more.  `MAX_DELEGATION` is 1 or 2:
enough for stake that is partly cooling down.  `Bitmaps` are the bitmaps that
aggregators write into submitted certificates: every subset of the byte indices
in `certificate_set`, and none in `certificate_stake`, which submits nothing and
asks in every state what would become of the honest certificate (the bitmap is
built in the property).  `UnstableVaults` are those whose tickets expire in a
run; it is empty where tickets do not matter.  Weights are full and half, so
that rounding to zero occurs.

In `provisioning` a snapshot has five cells, of which an instruction allocates
two, so that it takes two reallocations and the last is shorter.  Two processes
want the snapshot and one the registry; the payer starts with too little or with
enough; `FaultModels` are none and all (`lost`, `unreported`, `interrupted`).
`Retries` is 1.  Behaviours with `who = "anybody"` have no processes and every
instruction with arguments inside and outside each range.

In `keeper_live` one keeper and two operators run over three epochs of two
slots; one more epoch boundary than the keeper's reads can straddle in one
round.  `Delegated` is one of the two: the other has no delegation account and
fails in every round.  The chain registers and removes operators, updates the
vault and cranks by itself at any time.

In `commands` octets are below 4 and fees below 16 (2^8 and 2^16), so that
arguments that do not fit occur; a lamport is two units, so that an amount is
rounded.  A session is what users set out to do and what
may go wrong: settings with lost attempts; changes of the operator set with lost
attempts and a node that does not answer; cranks without faults, while the
other user changes registry and operators; a short session with every fault.
`Retries` is 1, or 0 where nothing is lost.  `CrankDoesItsList` leaves out the
commands of `EachTime` (settings and transfers), whose effect another user may
replace.

In `separate_parts` an instruction of the settlement program allocates three
cells (trailer two) and capacities are 2, 3 and 4.  A buffer is created with one
cell of content: capacity 2 grows by one cell, less than a trailer, so that the two
trailers overlap, and capacity 3 by exactly a trailer; a first write at the end is
too far ahead, and capacity 4 is refused.  No capacity is created in full; stories come in two versions, and the nine payloads include a wrong
discriminator, two stores, no store, an event too large and a story in the
buffer of another index.  The producer runs for six stories, one of them empty,
one with a wrong buffer and one that ends in a zero byte, and for answers whose
event just fits and just does not; the fixtures pair the payloads with right
and wrong texts.  The registry has one mint and one vault more than its lists
hold.  The cap on fees is 10 and the protocol's fee 4, so 6 is the largest
fee, 7 exceeds the cap in total and 11 by itself; five epochs allow an update in
each, none, and several in one.  Messages have up to two instructions and two
key pairs hold the roles.  The key file has two operators, one process, three
generated keys and one of a user.  Two clients crank a vault of up to two
delegations in two epochs; what more of them would do is proved.

Deadlock is checked in `keeper_live`, whose loop never ends.  The others end at
their bounds (full lists, last slot, no request left), so there it is not.

### Fairness

No instruction is forced on anybody, neither a crank nor a registration.  What is
assumed is that code keeps running and that an RPC that fails does so for a while:

- `Keeper`: weak fairness of the keeper's next step, as its loop has no exit, and
  of `RpcRecovers`.  The clock is not fair: a property that needs time says that
  the epoch lasts or is over.
- `VaultUpdate`: weak fairness of each client's next step (the keeper calls again
  every round) and of `RpcRecovers`.
- `Provisioning`: weak fairness of each process's next step, and strong fairness of
  `SendConfirmed`: an attempt that is sent again and again is confirmed at some
  time.  In the run it is asked only of behaviours where processes run and
  nothing is lost (`MCFairness`).
- `Commands`: weak fairness of each process and of the cluster, which decides
  the status of an attempt: a blockhash expires.  Asked of the short session.

## 4. Proofs

For all values of the constants that meet the named assumptions of the modules:

- `OperatorSet`: `TypeCorrect`; `SlotsMatch` from `IndexInv` (the restaking
  program's numbers are distinct, below its count, and a slot's operator has its
  index - needed because a registration must not meet another operator's slot);
  `CountsRegistrations` (the count is the cardinality of the registered
  operators, bounded because they inject into the indices); `RemovedForGood`;
  `AggregateBounded` (the APK is the sum of the live keys up to one orphan; the
  strengthening says that an orphan arises only in a set with a single
  registration, whose operator was removed); `ImplementsAbstractSet` (refinement of
  `SignerSet`, through reading the signers off the accounts).
- `StakeSnapshot`: `StakeTypeCorrect` (with the bound of a delegation, as a
  cooldown moves stake to a part that must still have room);
  `TotalsAreContributions` (a crank replaces or appends one contribution and adds
  the difference of the old and the new; `Adds` says of a list that inserting and
  replacing moves its sum by just that); `FreshnessHolds` (no operator's marker is
  ahead of the snapshot's, nor that of the clock, so the subtractions of
  verification succeed); `OneVaultBacks`, that counted stake is still delegated,
  for every NCN with one vault (with two it is false, section 6).  `BackedInv`
  compares a crank with the vault's last update: in the same epoch the stake is
  all there, one epoch later what was promised for the next one is, and no update
  is older than the crank.
- `Certificate`: `AcceptedHoldsQuorum` and `HonestQuorumAccepted` (no certificate
  of eligible operators with the threshold is refused, if the APK has no orphan,
  the loop reaches every live slot and the empty slots below the count are listed
  as non-signers; if they are not, it is refused exactly when there is one);
  `AcceptedSetIsAssembledSet` (a step that changes a slot moves the generation,
  and the generation never goes back); `CountedSigned` (from `AggregateBounded`:
  the APK covers the live keys, so taking out the non-signers leaves every counted
  signer's key).  `StakeImplementsOperatorSet`, `CertificateImplementsOperatorSet`
  and `CertificateImplementsStake` carry invariants from one module to the next.
- Sums: `SumFunctionOnSet` is a fold, and a fold a function defined by choosing an
  element of what is left.  `NumberTheorems` proves that the definition has a
  solution, that it does not depend on the choice, and what follows from it.  The
  induction is by a smallest counterexample: a set of natural numbers that is not
  empty has a least element (`LeastNat`).
- `VaultRegistry`: `RegistryIsTyped`, `OneSlotOneWeightHolds` and
  `SlotAndWeightFixed`, from an invariant that lists every mint and vault once
  and requires a listed vault's mint to be listed.
- `SnapshotAccount`: `AccountsAreTyped`, `InitialisedWithAllSlots`,
  `AccountsAreRentExempt`, `ConfigStaysInRange` and the refinement
  `AccountsImplementLife`, for any sizes and any bound on one allocation.
  `AccountsInv` is preserved by each instruction as a map on accounts, one lemma
  each; rent is inductive because `pay_rent` tops up to the balance of the new
  length whatever was there.
- `Provisioning`, for any number of processes, retries and faults:
  `ProvidedWhenDone`, from `ProvisioningInv`: what a process has seen at each of its
  steps (`Seen`) is still so, because no instruction, and so no transaction of any
  number of them, takes away an account or makes it uninitialised (`Keeps`).
  `ShortSnapshotGrows` and `ClientsLetItGrow`: a snapshot that is too short can be
  continued by anybody, alone and with the processes at work.
  `ProvisioningKeepsTypes`.
- `Fees`: `FeesAreTyped`, `OneRecordIsScheduled` (so `set_fees_to_current` never
  finds two scheduled records), `CapHolds`, and the refinement
  `FeesImplementSchedule`.  The strengthening: two records of the same epoch have
  the same fee (`SameWhenTogether`), as `current_fees` then takes the first.
- `Interface`: `ClientsFitHandlers`, for messages of any length and whoever signs
  and pays: each of the client's lists meets the handler's, entry by entry, but
  for the admin of the two instructions that change the Config.
- `Keeper`, for any number of keepers and operators and epochs of any two lengths:
  `RestIsEarned` (a keeper that reports everything up to date is right, although
  it compared an old copy), `CranksFollowUpdates` (no marker is in a later epoch
  than the vault's last update) and `KeeperIsTyped`, from `KeeperInv`: the operators
  of a copy are registered or removed, and its markers are never ahead of the
  chain's.
- `Commands`, for any number of processes, users' requests and retries.  An
  instruction is first reduced to what it may do to the ledger (`LedgerStep`: what is
  done stays done, settings are a user's, the generation counts), one lemma each.
  `SettingsComeFromUsers` and `GenerationIsExact` follow, with `CommandsInv`.
  `ReportedIsWhatHappened` rests on `FinalInv`: while the node answers, a process
  has one attempt outstanding, and makes no other before that is decided.
  `CrankFinishes` rests on `ListInv`: what an instruction needs stays (`Ready`) and
  so does its effect (`Finished`), so what a process set out to do is finished or
  still on its list, whatever others do.
- `Settlement`: `SettledOnce` and `StoryFrozen`, from `SettlementInv`.  Freezing
  is not inductive alone: `SettledIsBehind` adds that what settled is below the
  count and that its story is in the buffer of its own index, so the floor of
  `process_write_buffer` keeps every later write away from it; and
  `VerifiedTextHolds` of the producer's fixtures, because the event that is verified
  there is the one that settled.  `StagedStoriesSettle`: a payload of the producer
  passes the checks of settle exactly when its story is in its buffer, also for a
  buffer that is being grown; a story is read back from the words it is packed in,
  and settle meets one store and one event.  `SettlementIsTyped`, and the
  refinement `BuffersImplementStaging`: an account is content, zeros and trailer, and growing it leaves the content and moves the trailer, also
  when the two trailers overlap.
- `VaultUpdate`: `VaultUpdateIsTyped` and `OneCallSuffices`, for any number of
  clients, delegations and epochs.  After k cranks of a tracker exactly the
  delegations (epoch + j) mod count, j < k, are up to date (`VaultNow`); a client
  that started at the tracker's index and was not disturbed has sent at least
  what is missing when it closes, because whatever others cranked only shortens
  what is left (`GoodNow`).
- `KeyFile`: `KeyFileIsTyped`; for one process at a time `RegisteredKeysAreKept`
  and `SentKeysAreSaved`.  While nobody removed the file, `KeptInv` says that one
  which is not torn holds every key that is registered or in flight (`HoldsSent`),
  and `NothingLost` that while it is torn by a run the process has them in memory;
  and always that its own key is in the file when it goes to the network.

Model-checked only: liveness (`CrankedInEveryEpoch`, `OnlyFailuresAreRetried`,
`UpdatedInEveryEpoch`, `MCProvidedWithoutFaults`, `MCEveryCommandEnds`).  Their
proofs need fairness and ENABLED, which are out of the prover's reach.  Every
safety property of a passing run has a theorem; with two vaults
`CountedStakeIsBacked` has a counterexample instead.

The type invariants (`OperatorSet`, `SnapshotAccount`, `Provisioning`, `Fees`,
`VaultRegistry`, `Settlement`, `KeyFile`, `VaultUpdate`, `StakeSnapshot`, `Keeper`)
are proved and the properties of no run.

## 5. Plan

Done, in this order: operator set, stake, certificates, registry, settlement;
accounts and their creation, keeper, vault update, fees, interface, key file,
commands; the refinements of settlement, accounts and fees.  Left, most important
first:

1. A composition of certificates and settlement with two NCNs, in which the
   comparison with `GkState::ncn` that settle does not make can be stated.
2. `Keeper` with two keepers and with a cluster epoch that differs from the
   restaking program's; today the run has one keeper and equal lengths, and other
   crankers are steps of the chain.
3. A composition of `Keeper` and `StakeSnapshot`: which stake is counted when the
   keeper alone cranks, and only the first vault.
4. The torn reads of `NcnTickets::fetch`, which only prints today.

## 6. Where the code and what is said of it differ

Shown by a run:

- `AggregateIsLiveSum` (`core/src/snapshot.rs:255`): with one registration ever
  made, a rotation of an operator that was removed makes its key the APK, which
  then is not the sum of the live keys.  `AggregateWithinOneOrphan`, proved,
  bounds the damage, and `CountedSignersSigned` shows acceptance stays sound:
  certificates of the full set are refused instead.
- `VerifyLoopCoversLive` (`core/src/certificate.rs:99`): registering out of
  opt-in order leaves an operator at an index that the loop does not reach until
  the earlier ones register.
- `CountedStakeIsBacked` with two vaults (`core/src/snapshot.rs:707`): one marker
  dates all contributions.
- `EveryoneProvided` (`cli/src/instructions.rs:919`): one transaction that lands
  without being reported, between the creation and the growth of the snapshot,
  leaves a short account that `get_or_create_snapshot` tries to create again on
  every start.  `ShortSnapshotCanGrow` shows that it is not lost: a
  ReallocSnapshot of anybody continues.

Only described, as no single statement of the repository is refuted or the runs
leave the case out:

- `cli/src/handler.rs:359`: the default generation of the command that verifies a
  certificate is that of its submission, not that of the set it was assembled for;
  such a certificate may be accepted of a newer set, with the quorum it claims.
- `program/src/admin_initialize_config.rs:161` takes a minimum stake of zero,
  which `admin_set_parameters.rs:125` refuses; and `realloc_snapshot.rs:52` copies
  the minimum stake, so a later setting reaches no crank.
- `cli/src/keeper/keeper_state.rs:186`: the keeper counts epochs with the length of
  the cluster's, an operator's entry with that of the restaking program's; when
  they differ operators are left out or cranked without end.
- `cli/src/instructions.rs:1038`: the keeper cranks the first vault only; an
  operator it has no delegation account for is tried in every round and never
  updated, so the keeper never finds all up to date (`OnlyFailuresAreRetried`).
- `cli/src/keeper/keeper_loop.rs:165` logs that all operators are up to date also
  when nothing was compared, because no snapshot was read.  `SaysUpToDateTruly`
  is about the rounds that compared.
- `core/src/utils.rs:122`: `create_signer_bitmap` sets the bits that are not
  listed.  An aggregator that lists the live non-signers only leaves the bit of a
  tombstone, or of a slot that is not taken yet, set, and
  `core/src/certificate.rs:104` refuses the certificate.
- `program/src/admin_set_parameters.rs:52` and `admin_set_new_admin.rs:33` want a
  writable `ncn_admin`, which neither the documented accounts nor the generated
  client give; it is writable only when it pays, as `OnlyAReadonlyAdminIsRefused`
  says.
- `cli/src/bls_keys.rs:125`: `fs::write` truncates the file first.  A crash before
  the text is written loses every key in it, registered ones included: no property
  can forbid it, `RegisteredKeyIsKept` leaves a torn file out, and later runs end
  with its parse error until the user removes it.
- `cli/src/instructions.rs:1182`: an attempt to register may land after its command
  failed and the file was removed; the key on chain is then one whose private half
  is nowhere, or another than the file's next.
- `cli/src/bls_keys.rs:164`: of two overlapping registrations on one machine the
  second save drops the first key.  Line 192 generates a new key pair where the
  file has none, so `cli/getting_started.md:488`, which has the user remove the
  file to regenerate keys, gives up the private half of a key on chain; line 195
  stores supplied public keys next to a private key that is not theirs.
- `llm_payload_producer/src/main.rs:193` bounds the answer that rides in an event and
  not the prompt: an event too long for settle is built, and refused there.
- `settlement_program/src/settle.rs:213`: a buffer is as long as it was grown to, so
  a story that ends in zero bytes can be staged only by writing or allocating
  them; content that equals the story up to those zeros is refused, although the
  missing bytes would be zeros.  `StagedStorySettles` says exactly which are taken.
- `cli/src/instructions.rs:1190`: an attempt whose status could not be read is sent
  again, so a transfer may be made twice.

## 7. Not modelled

Curve arithmetic, hashing and serialisation; PDA derivation and account
ownership (each action is applied to the right accounts); rent of buffers.  The
port and socket of an operator's address, which the instruction sets with the
address and nothing reads.  The legacy operator registry, which nothing calls, and
the functions of the core library without a caller (`set_st_mint`,
`close_account`, `transfer`).  The commands that print what they read, the
local commands that aggregate signatures, and the metrics: they change nothing.
The generated client's CPI half repeats the account lists of the other half; the
JavaScript client, the frontend, scripts and tests have no logic of the programs.
