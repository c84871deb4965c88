-------------------------------- MODULE KeyFile --------------------------------
(***************************************************************************)
(* The register-operator command: the file in which the CLI keeps the BLS  *)
(* keys it generates, and the registration it sends afterwards.  The file  *)
(* is read once, changed in memory and written over; it is the only place  *)
(* where a generated private key is kept.  What was sent outlives the run  *)
(* that sent it: send_transactions can return an error, or the process     *)
(* stop, while an attempt is live, and it lands when the file has changed. *)
(*                                                                         *)
(* A private key and the G1 and G2 keys derived from it have one name.     *)
(***************************************************************************)
EXTENDS Integers

CONSTANTS
    Operators,
    Processes,       \* runs of the command at one time
    MAX_KEYS,        \* bound on the private keys that are drawn
    Supplied,        \* key pairs users have from elsewhere
    Nothing

ASSUME KeyFileAssumption ==
    /\ MAX_KEYS \in Nat
    /\ Supplied \cap (1 .. MAX_KEYS) = {}

VARIABLES
    file,            \* text of the file and the entries it decodes to
    drawn,           \* private keys drawn so far
    removed,         \* whether a user ever removed the file
    registered,      \* of each operator, the key on chain
    sent,            \* attempts that can still land
    process

keyFileVars == <<file, drawn, removed, registered, sent, process>>

Keys == 1 .. MAX_KEYS
PublicKeys == Keys \cup Supplied

\* BlsKeySet; the G1 and the G2 key always change together.
BlsKeySet == [private_key: Keys, pubkeys: PublicKeys]
BlsKeyStorage == [Operators -> BlsKeySet \cup {Nothing}]
NoKeys == [o \in Operators |-> Nothing]
Attempts == [operator: Operators, key_set: BlsKeySet]

ASSUME KeyFileNoneAssumption == Nothing \notin BlsKeySet /\ Nothing \notin PublicKeys

PCs == {"idle", "load", "truncate", "write", "register"}
Process == [pc: PCs, operator: Operators \cup {Nothing}, g1_g2: Supplied \cup {Nothing},
            storage: BlsKeyStorage, key_set: BlsKeySet \cup {Nothing}]
Idle == [pc |-> "idle", operator |-> Nothing, g1_g2 |-> Nothing, storage |-> NoKeys, key_set |-> Nothing]

KeyFileTypeOK ==
    /\ file \in [text: {"missing", "torn", "whole"}, operators: BlsKeyStorage]
    /\ file.text # "whole" => file.operators = NoKeys
    /\ drawn \in 0 .. MAX_KEYS
    /\ removed \in BOOLEAN
    /\ registered \in [Operators -> PublicKeys \cup {Nothing}]
    /\ sent \subseteq Attempts
    /\ process \in [Processes -> Process]

KeyFileInit ==
    /\ file = [text |-> "missing", operators |-> NoKeys]
    /\ drawn = 0
    /\ removed = FALSE
    /\ registered = [o \in Operators |-> Nothing]
    /\ sent = {}
    /\ process = [p \in Processes |-> Idle]

Becomes(p, state) == process' = [process EXCEPT ![p] = state]

-------------------------------------------------------------------------------
(***************************************************************************)
(* Keys                                                                    *)
(***************************************************************************)

generate_bls_keypair == [private_key |-> drawn + 1, pubkeys |-> drawn + 1]

\* The signature is made with the private key over the digest of the G1 key,
\* and verified with the G2 key.
SignatureVerifies(key_set) == key_set.private_key = key_set.pubkeys

WithSupplied(key_set, g1_g2) ==
    IF g1_g2 = Nothing THEN key_set ELSE [key_set EXCEPT !.pubkeys = g1_g2]

\* Mutant: a key is generated whether there is one or not.
generate_always(storage, operator, g1_g2) ==
    {[key_set |-> WithSupplied(generate_bls_keypair, g1_g2), drawn |-> drawn + 1, save |-> TRUE]}

\* Mutant: a new key is kept in memory only.
generate_unsaved(storage, operator, g1_g2) ==
    IF storage[operator] # Nothing
    THEN {[key_set |-> WithSupplied(storage[operator], g1_g2), drawn |-> drawn,
           save |-> g1_g2 # Nothing]}
    ELSE {[key_set |-> WithSupplied(generate_bls_keypair, g1_g2), drawn |-> drawn + 1, save |-> FALSE]}

\* An existing private key is kept, whatever public keys are put next to it.
generate_or_use_keys(storage, operator, g1_g2) ==
    IF storage[operator] # Nothing
    THEN {[key_set |-> WithSupplied(storage[operator], g1_g2), drawn |-> drawn,
           save |-> g1_g2 # Nothing]}
    ELSE {[key_set |-> WithSupplied(generate_bls_keypair, g1_g2), drawn |-> drawn + 1, save |-> TRUE]}

-------------------------------------------------------------------------------
(***************************************************************************)
(* The command                                                             *)
(***************************************************************************)

\* register-operator without keys, or with G1 and G2 and no signature.
RegisterOperatorCommand(p, operator, g1_g2) ==
    /\ process[p].pc = "idle"
    /\ Becomes(p, [Idle EXCEPT !.pc = "load", !.operator = operator, !.g1_g2 = g1_g2])
    /\ UNCHANGED <<file, drawn, removed, registered, sent>>

\* With all three given the file is not touched.
RegisterWithSignature(operator, key) ==
    /\ registered[operator] = Nothing
    /\ registered' = [registered EXCEPT ![operator] = key]
    /\ UNCHANGED <<file, drawn, removed, sent, process>>

\* No file is an empty storage; one that does not parse is an error.
load_keys_from_file(p) ==
    /\ process[p].pc = "load"
    /\ IF file.text = "torn" THEN Becomes(p, Idle) /\ UNCHANGED drawn
       ELSE \E r \in generate_or_use_keys(file.operators, process[p].operator, process[p].g1_g2) :
              /\ r.drawn <= MAX_KEYS
              /\ drawn' = r.drawn
              /\ Becomes(p, [process[p] EXCEPT
                   !.key_set = r.key_set,
                   !.pc = IF r.save THEN "truncate" ELSE "register",
                   !.storage = IF r.save THEN [file.operators EXCEPT ![process[p].operator] = r.key_set]
                               ELSE NoKeys])
    /\ UNCHANGED <<file, removed, registered, sent>>

\* fs::write opens the file, which truncates it, and then writes.
Truncate(p) ==
    /\ process[p].pc = "truncate"
    /\ file' = [text |-> "torn", operators |-> NoKeys]
    /\ Becomes(p, [process[p] EXCEPT !.pc = "write"])
    /\ UNCHANGED <<drawn, removed, registered, sent>>

\* What another process wrote in between is overwritten from its start; the
\* rest of a longer text stays behind.
Write(p) ==
    /\ process[p].pc = "write"
    /\ \/ file' = [text |-> "whole", operators |-> process[p].storage]
       \/ file.text = "whole" /\ file' = [text |-> "torn", operators |-> NoKeys]
    /\ Becomes(p, [process[p] EXCEPT !.pc = "register", !.storage = NoKeys])
    /\ UNCHANGED <<drawn, removed, registered, sent>>

\* send_transactions: one more attempt, or the end of the command, whether it
\* learned that one landed, ran out of retries or lost the node before the
\* first.  Attempts of one command with the same keys cannot be told apart.
register_operator(p) ==
    /\ process[p].pc = "register"
    /\ \/ /\ sent' = sent \cup {[operator |-> process[p].operator, key_set |-> process[p].key_set]}
          /\ UNCHANGED process
       \/ Becomes(p, Idle) /\ UNCHANGED sent
    /\ UNCHANGED <<file, drawn, removed, registered>>

\* The program takes an operator once, with a signature that verifies.
Land(attempt) ==
    /\ attempt \in sent
    /\ registered[attempt.operator] = Nothing
    /\ SignatureVerifies(attempt.key_set)
    /\ registered' = [registered EXCEPT ![attempt.operator] = attempt.key_set.pubkeys]
    /\ sent' = sent \ {attempt}
    /\ UNCHANGED <<file, drawn, removed, process>>

\* Lost, refused, or its blockhash too old.
Expire(attempt) ==
    /\ attempt \in sent
    /\ sent' = sent \ {attempt}
    /\ UNCHANGED <<file, drawn, removed, registered, process>>

Crash(p) ==
    /\ process[p].pc # "idle"
    /\ Becomes(p, Idle)
    /\ UNCHANGED <<file, drawn, removed, registered, sent>>

\* getting_started.md:489: rm bls-keys.json, between two commands.
DeleteFile ==
    /\ \A p \in Processes : process[p].pc = "idle"
    /\ file.text # "missing"
    /\ file' = [text |-> "missing", operators |-> NoKeys]
    /\ removed' = TRUE
    /\ UNCHANGED <<drawn, registered, sent, process>>

KeyFileNext ==
    \/ \E p \in Processes :
         \/ \E operator \in Operators, g1_g2 \in Supplied \cup {Nothing} :
              RegisterOperatorCommand(p, operator, g1_g2)
         \/ load_keys_from_file(p) \/ Truncate(p) \/ Write(p) \/ register_operator(p) \/ Crash(p)
    \/ \E operator \in Operators, key \in Supplied : RegisterWithSignature(operator, key)
    \/ \E attempt \in sent : Land(attempt) \/ Expire(attempt)
    \/ DeleteFile

KeyFileSpec == KeyFileInit /\ [][KeyFileNext]_keyFileVars

-------------------------------------------------------------------------------
(***************************************************************************)
(* Properties                                                              *)
(***************************************************************************)

\* bls_keys.rs:205: a key goes to the network only when its private half is on disk,
\* under the operator it is for; and while nobody removes the file every attempt
\* in flight for that operator, of this run or of one that failed or crashed,
\* carries the same key, so that it does not matter which of them lands.
SentKeyIsSaved ==
    [][\A a \in sent' \ sent :
         /\ file.text = "whole"
         /\ file.operators[a.operator] # Nothing
         /\ file.operators[a.operator].private_key = a.key_set.private_key
         /\ ~removed => \A b \in sent :
              b.operator = a.operator => b.key_set.private_key = a.key_set.private_key]_keyFileVars

\* bls_keys.rs:168: unless a user removed the file, one that can be read has
\* the private half of every generated key that is registered, also when the
\* attempt landed long after its run: no later run, for the same operator or
\* another, with keys given or none, replaces it.  A crash between truncation
\* and write leaves a file that cannot be read and loses every key in it.
RegisteredKeyIsKept ==
    \A o \in Operators :
        ~removed /\ file.text # "torn" /\ registered[o] \in Keys =>
            /\ file.operators[o] # Nothing
            /\ file.operators[o].private_key = registered[o]
===============================================================================
