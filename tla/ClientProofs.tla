------------------------------ MODULE ClientProofs ------------------------------
(***************************************************************************)
(* Proofs about two clients with steps that interleave: register-operator  *)
(* and its key file (KeyFile), and full_vault_update (VaultUpdate), for    *)
(* any operators, keys, arguments, clients, delegations and epochs.  They  *)
(* share no state.                                                         *)
(***************************************************************************)
EXTENDS KeyFile, VaultUpdate, SequenceTheorems, TLAPS

(***************************************************************************)
(* The key file.  Types hold for any number of processes, the rest for one *)
(* process at a time: of two that overlap the second save drops the key of *)
(* the first.                                                              *)
(***************************************************************************)

\* What the command makes of the storage: the operator's private key is the
\* stored one or a new one.
LEMMA GeneratedKeys ==
    ASSUME NEW storage \in BlsKeyStorage, NEW operator \in Operators,
           NEW g1_g2 \in Supplied \cup {Nothing}, drawn \in 0 .. MAX_KEYS,
           NEW r \in generate_or_use_keys(storage, operator, g1_g2), r.drawn <= MAX_KEYS
    PROVE  /\ r.key_set \in BlsKeySet /\ r.drawn \in 0 .. MAX_KEYS /\ r.save \in BOOLEAN
           /\ storage[operator] # Nothing => r.key_set.private_key = storage[operator].private_key
           /\ ~r.save => storage[operator] # Nothing
<1>1. CASE storage[operator] # Nothing
  <2>1. /\ storage[operator] \in BlsKeySet
        /\ r = [key_set |-> WithSupplied(storage[operator], g1_g2), drawn |-> drawn,
                save |-> g1_g2 # Nothing]
    BY <1>1 DEF generate_or_use_keys, BlsKeyStorage
  <2>2. /\ WithSupplied(storage[operator], g1_g2) \in BlsKeySet
        /\ WithSupplied(storage[operator], g1_g2).private_key = storage[operator].private_key
    BY <2>1 DEF WithSupplied, BlsKeySet, PublicKeys
  <2>3. QED
    BY <1>1, <2>1, <2>2
<1>2. CASE storage[operator] = Nothing
  <2>1. r = [key_set |-> WithSupplied(generate_bls_keypair, g1_g2), drawn |-> drawn + 1, save |-> TRUE]
    BY <1>2 DEF generate_or_use_keys
  <2>2. drawn + 1 \in Keys
    BY <2>1, KeyFileAssumption DEF Keys
  <2>3. generate_bls_keypair \in BlsKeySet
    BY <2>2 DEF generate_bls_keypair, BlsKeySet, PublicKeys
  <2>4. WithSupplied(generate_bls_keypair, g1_g2) \in BlsKeySet
    BY <2>3 DEF WithSupplied, BlsKeySet, PublicKeys
  <2>5. QED
    BY <1>2, <2>1, <2>2, <2>4 DEF Keys
<1>3. QED
  BY <1>1, <1>2

-------------------------------------------------------------------------------
(***************************************************************************)
(* Types                                                                   *)
(***************************************************************************)

\* A process that got as far as signing has an operator and a key.
KeyFileInv ==
    /\ KeyFileTypeOK
    /\ \A p \in Processes :
         /\ process[p].pc # "idle" => process[p].operator \in Operators
         /\ process[p].pc \in {"truncate", "write", "register"} => process[p].key_set \in BlsKeySet

\* A step of a process changes no other process.
LEMMA BecomesInv ==
    ASSUME KeyFileInv, NEW p \in Processes, NEW state \in Process, Becomes(p, state),
           state.pc # "idle" => state.operator \in Operators,
           state.pc \in {"truncate", "write", "register"} => state.key_set \in BlsKeySet
    PROVE  /\ process' \in [Processes -> Process]
           /\ process'[p] = state
           /\ \A q \in Processes :
                /\ process'[q].pc # "idle" => process'[q].operator \in Operators
                /\ process'[q].pc \in {"truncate", "write", "register"} =>
                     process'[q].key_set \in BlsKeySet
BY DEF Becomes, KeyFileInv, KeyFileTypeOK

LEMMA IdleIsOne == Idle \in Process /\ Idle.pc = "idle"
BY DEF Idle, Process, PCs, NoKeys, BlsKeyStorage

LEMMA EmptyStorage == NoKeys \in BlsKeyStorage
BY DEF NoKeys, BlsKeyStorage

\* The six steps of a process, on the process itself.
LEMMA LoadEffect ==
    ASSUME KeyFileInv, NEW p \in Processes, load_keys_from_file(p)
    PROVE  /\ process[p].pc = "load" /\ UNCHANGED <<file, removed, registered, sent>>
           /\ drawn' \in 0 .. MAX_KEYS
           /\ \/ Becomes(p, Idle)
              \/ \E state \in Process :
                   /\ Becomes(p, state)
                   /\ file.text # "torn"
                   /\ state.operator \in Operators /\ state.key_set \in BlsKeySet
                   /\ LET kept == file.operators[state.operator]
                      IN  /\ kept # Nothing => state.key_set.private_key = kept.private_key
                          /\ \/ /\ state.pc = "truncate"
                                /\ state.storage = [file.operators EXCEPT ![state.operator] = state.key_set]
                             \/ /\ state.pc = "register" /\ kept # Nothing
<1> DEFINE operator == process[p].operator
           g1_g2 == process[p].g1_g2
<1>1. /\ process[p].pc = "load" /\ UNCHANGED <<file, removed, registered, sent>>
      /\ process[p] \in Process /\ operator \in Operators /\ g1_g2 \in Supplied \cup {Nothing}
      /\ file.operators \in BlsKeyStorage /\ drawn \in 0 .. MAX_KEYS
  BY DEF load_keys_from_file, KeyFileInv, KeyFileTypeOK, Process
<1>2. CASE file.text = "torn"
  BY <1>1, <1>2 DEF load_keys_from_file
<1>3. CASE file.text # "torn"
  <2>1. PICK r \in generate_or_use_keys(file.operators, operator, g1_g2) :
          /\ r.drawn <= MAX_KEYS
          /\ drawn' = r.drawn
          /\ Becomes(p, [process[p] EXCEPT
               !.key_set = r.key_set,
               !.pc = IF r.save THEN "truncate" ELSE "register",
               !.storage = IF r.save THEN [file.operators EXCEPT ![operator] = r.key_set]
                           ELSE NoKeys])
    BY <1>3 DEF load_keys_from_file
  <2>2. /\ r.key_set \in BlsKeySet /\ r.drawn \in 0 .. MAX_KEYS /\ r.save \in BOOLEAN
        /\ file.operators[operator] # Nothing =>
             r.key_set.private_key = file.operators[operator].private_key
        /\ ~r.save => file.operators[operator] # Nothing
    BY <1>1, <2>1, GeneratedKeys
  <2> DEFINE state == [process[p] EXCEPT
               !.key_set = r.key_set,
               !.pc = IF r.save THEN "truncate" ELSE "register",
               !.storage = IF r.save THEN [file.operators EXCEPT ![operator] = r.key_set]
                           ELSE NoKeys]
  <2>3. [file.operators EXCEPT ![operator] = r.key_set] \in BlsKeyStorage
    BY <1>1, <2>2 DEF BlsKeyStorage
  <2>4. /\ state \in Process
        /\ state.operator = operator /\ state.key_set = r.key_set
        /\ state.pc = IF r.save THEN "truncate" ELSE "register"
        /\ r.save => state.storage = [file.operators EXCEPT ![operator] = r.key_set]
    BY <1>1, <2>2, <2>3, EmptyStorage DEF Process, PCs
  <2>5. Becomes(p, state)
    BY <2>1
  <2> HIDE DEF state
  <2>6. QED
    BY <1>1, <1>3, <2>1, <2>2, <2>4, <2>5
<1>4. QED
  BY <1>2, <1>3

LEMMA KeyFileInvInit == KeyFileInit => KeyFileInv
<1> SUFFICES ASSUME KeyFileInit
             PROVE  KeyFileInv
  OBVIOUS
<1>1. file = [text |-> "missing", operators |-> NoKeys] /\ drawn = 0 /\ removed = FALSE
  BY DEF KeyFileInit
<1>2. /\ file \in [text: {"missing", "torn", "whole"}, operators: BlsKeyStorage]
      /\ file.operators = NoKeys
  BY <1>1, EmptyStorage
<1>3. drawn \in 0 .. MAX_KEYS /\ removed \in BOOLEAN
  <2>1. drawn \in 0 .. MAX_KEYS
    BY <1>1, KeyFileAssumption
  <2>2. removed \in BOOLEAN
    BY <1>1
  <2>3. QED
    BY <2>1, <2>2
<1>4. registered \in [Operators -> PublicKeys \cup {Nothing}] /\ sent = {}
  BY DEF KeyFileInit
<1>5. process \in [Processes -> Process] /\ \A p \in Processes : process[p].pc = "idle"
  BY IdleIsOne DEF KeyFileInit
<1>6. QED
  BY <1>2, <1>3, <1>4, <1>5 DEF KeyFileInv, KeyFileTypeOK

LEMMA KeyFileInvNext == KeyFileInv /\ [KeyFileNext]_keyFileVars => KeyFileInv'
<1> SUFFICES ASSUME KeyFileInv, [KeyFileNext]_keyFileVars
             PROVE  KeyFileInv'
  OBVIOUS
<1>1. ASSUME NEW p \in Processes, NEW operator \in Operators, NEW g1_g2 \in Supplied \cup {Nothing},
             RegisterOperatorCommand(p, operator, g1_g2)
      PROVE  KeyFileInv'
  <2> DEFINE state == [Idle EXCEPT !.pc = "load", !.operator = operator, !.g1_g2 = g1_g2]
  <2>1. /\ state \in Process /\ state.pc = "load" /\ state.operator = operator
        /\ Becomes(p, state)
        /\ UNCHANGED <<file, drawn, removed, registered, sent>>
    BY <1>1, IdleIsOne DEF RegisterOperatorCommand, Process, PCs
  <2> HIDE DEF state
  <2>2. QED
    BY <2>1, BecomesInv DEF KeyFileInv, KeyFileTypeOK
<1>2. ASSUME NEW p \in Processes, load_keys_from_file(p)
      PROVE  KeyFileInv'
  <2>1. /\ UNCHANGED <<file, removed, registered, sent>> /\ drawn' \in 0 .. MAX_KEYS
        /\ \/ Becomes(p, Idle)
           \/ \E state \in Process : /\ Becomes(p, state)
                                     /\ state.operator \in Operators /\ state.key_set \in BlsKeySet
    BY <1>2, LoadEffect
  <2>2. CASE Becomes(p, Idle)
    BY <2>1, <2>2, IdleIsOne, BecomesInv DEF KeyFileInv, KeyFileTypeOK
  <2>3. ASSUME NEW state \in Process, Becomes(p, state),
               state.operator \in Operators, state.key_set \in BlsKeySet
        PROVE  KeyFileInv'
    BY <2>1, <2>3, BecomesInv DEF KeyFileInv, KeyFileTypeOK
  <2>4. QED
    BY <2>1, <2>2, <2>3
<1>3. ASSUME NEW p \in Processes, Truncate(p)
      PROVE  KeyFileInv'
  <2> DEFINE state == [process[p] EXCEPT !.pc = "write"]
  <2>1. /\ process[p] \in Process /\ process[p].operator \in Operators
        /\ process[p].key_set \in BlsKeySet
    BY <1>3 DEF Truncate, KeyFileInv, KeyFileTypeOK
  <2>2. /\ state \in Process /\ state.operator \in Operators /\ state.key_set \in BlsKeySet
        /\ Becomes(p, state)
        /\ file' = [text |-> "torn", operators |-> NoKeys]
        /\ UNCHANGED <<drawn, removed, registered, sent>>
    BY <1>3, <2>1 DEF Truncate, Process, PCs
  <2> HIDE DEF state
  <2>3. QED
    BY <2>2, EmptyStorage, BecomesInv DEF KeyFileInv, KeyFileTypeOK
<1>4. ASSUME NEW p \in Processes, Write(p)
      PROVE  KeyFileInv'
  <2> DEFINE state == [process[p] EXCEPT !.pc = "register", !.storage = NoKeys]
  <2>1. /\ process[p] \in Process /\ process[p].operator \in Operators
        /\ process[p].key_set \in BlsKeySet /\ process[p].storage \in BlsKeyStorage
    BY <1>4 DEF Write, KeyFileInv, KeyFileTypeOK, Process
  <2>2. /\ state \in Process /\ state.operator \in Operators /\ state.key_set \in BlsKeySet
        /\ Becomes(p, state)
        /\ \/ file' = [text |-> "whole", operators |-> process[p].storage]
           \/ file' = [text |-> "torn", operators |-> NoKeys]
        /\ UNCHANGED <<drawn, removed, registered, sent>>
    BY <1>4, <2>1, EmptyStorage DEF Write, Process, PCs
  <2> HIDE DEF state
  <2>3. QED
    BY <2>1, <2>2, EmptyStorage, BecomesInv DEF KeyFileInv, KeyFileTypeOK
<1>5. ASSUME NEW p \in Processes, register_operator(p)
      PROVE  KeyFileInv'
  <2>1. /\ process[p].operator \in Operators /\ process[p].key_set \in BlsKeySet
        /\ UNCHANGED <<file, drawn, removed, registered>>
    BY <1>5 DEF register_operator, KeyFileInv
  <2> DEFINE attempt == [operator |-> process[p].operator, key_set |-> process[p].key_set]
  <2>2. CASE sent' = sent \cup {attempt} /\ UNCHANGED process
    <3>1. attempt \in Attempts
      BY <2>1 DEF Attempts
    <3> HIDE DEF attempt
    <3>2. sent' \subseteq Attempts
      BY <2>2, <3>1 DEF KeyFileInv, KeyFileTypeOK
    <3>3. QED
      BY <2>1, <2>2, <3>2 DEF KeyFileInv, KeyFileTypeOK
  <2>3. CASE Becomes(p, Idle) /\ UNCHANGED sent
    BY <2>1, <2>3, IdleIsOne, BecomesInv DEF KeyFileInv, KeyFileTypeOK
  <2>4. QED
    BY <1>5, <2>2, <2>3 DEF register_operator
<1>6. ASSUME NEW p \in Processes, Crash(p)
      PROVE  KeyFileInv'
  BY <1>6, IdleIsOne, BecomesInv DEF Crash, KeyFileInv, KeyFileTypeOK
<1>7. ASSUME NEW operator \in Operators, NEW key \in Supplied, RegisterWithSignature(operator, key)
      PROVE  KeyFileInv'
  BY <1>7 DEF RegisterWithSignature, KeyFileInv, KeyFileTypeOK, PublicKeys
<1>8. ASSUME NEW attempt \in sent, Land(attempt) \/ Expire(attempt)
      PROVE  KeyFileInv'
  <2>1. attempt.operator \in Operators /\ attempt.key_set.pubkeys \in PublicKeys
    BY DEF KeyFileInv, KeyFileTypeOK, Attempts, BlsKeySet
  <2>2. /\ registered' \in [Operators -> PublicKeys \cup {Nothing}]
        /\ sent' = sent \ {attempt} /\ UNCHANGED <<file, drawn, removed, process>>
    BY <1>8, <2>1 DEF Land, Expire, KeyFileInv, KeyFileTypeOK
  <2>3. QED
    BY <2>2 DEF KeyFileInv, KeyFileTypeOK
<1>9. ASSUME DeleteFile
      PROVE  KeyFileInv'
  BY <1>9, EmptyStorage DEF DeleteFile, KeyFileInv, KeyFileTypeOK
<1>10. ASSUME UNCHANGED keyFileVars
      PROVE  KeyFileInv'
  BY <1>10 DEF keyFileVars, KeyFileInv, KeyFileTypeOK
<1>11. QED
  BY <1>1, <1>2, <1>3, <1>4, <1>5, <1>6, <1>7, <1>8, <1>9, <1>10 DEF KeyFileNext

LEMMA KeyFileInvariance == KeyFileSpec => []KeyFileInv
BY KeyFileInvInit, KeyFileInvNext, PTL DEF KeyFileSpec

\* Any number of processes, crashes and deletions keep the file, the keys and
\* the processes in their types; a file that is not whole decodes to nothing.
THEOREM KeyFileIsTyped == KeyFileSpec => []KeyFileTypeOK
<1>1. KeyFileInv => KeyFileTypeOK
  BY DEF KeyFileInv
<1>2. QED
  BY <1>1, KeyFileInvariance, PTL

-------------------------------------------------------------------------------
(***************************************************************************)
(* One process at a time                                                   *)
(***************************************************************************)

PrivateKeyIs(entry, key) == entry # Nothing /\ entry.private_key = key

\* The entries hold every generated key that is on chain or on its way there.
HoldsSent(entries) ==
    ~removed =>
        /\ \A o \in Operators : registered[o] \in Keys => PrivateKeyIs(entries[o], registered[o])
        /\ \A a \in sent : PrivateKeyIs(entries[a.operator], a.key_set.private_key)

\* What a process is about to do to the file loses nothing: before it opens
\* the file it has all of it in memory, then only it has it, and when it goes
\* to the chain its own key is in the file.
NothingLost(p) ==
    LET operator == process[p].operator
        key_set == process[p].key_set
    IN  /\ process[p].pc = "truncate" =>
             /\ file.text # "torn"
             /\ process[p].storage = [file.operators EXCEPT ![operator] = key_set]
             /\ file.operators[operator] # Nothing =>
                  key_set.private_key = file.operators[operator].private_key
        /\ process[p].pc = "write" =>
             /\ file.text = "torn"
             /\ process[p].storage[operator] = key_set
             /\ HoldsSent(process[p].storage)
        /\ process[p].pc = "register" =>
             /\ file.text = "whole"
             /\ PrivateKeyIs(file.operators[operator], key_set.private_key)

KeptInv(p) ==
    /\ KeyFileInv
    /\ file.text # "torn" => HoldsSent(file.operators)
    /\ NothingLost(p)

LEMMA KeptInvInit == ASSUME NEW p \in Processes PROVE KeyFileInit => KeptInv(p)
<1> SUFFICES ASSUME KeyFileInit
             PROVE  KeptInv(p)
  OBVIOUS
<1>1. KeyFileInv
  BY KeyFileInvInit
<1>2. HoldsSent(file.operators)
  BY KeyFileNoneAssumption DEF KeyFileInit, HoldsSent, PublicKeys
<1>3. process[p].pc = "idle"
  BY IdleIsOne DEF KeyFileInit
<1>4. QED
  BY <1>1, <1>2, <1>3 DEF KeptInv, NothingLost

LEMMA KeptInvNext ==
    ASSUME NEW p \in Processes, Processes = {p}
    PROVE  KeptInv(p) /\ [KeyFileNext]_keyFileVars => KeptInv(p)'
<1> SUFFICES ASSUME KeptInv(p), [KeyFileNext]_keyFileVars
             PROVE  KeptInv(p)'
  OBVIOUS
<1>0. KeyFileInv /\ KeyFileInv'
  BY KeyFileInvNext DEF KeptInv
<1>1. ASSUME NEW operator \in Operators, NEW g1_g2 \in Supplied \cup {Nothing},
             RegisterOperatorCommand(p, operator, g1_g2)
      PROVE  KeptInv(p)'
  <2>1. process'[p].pc = "load" /\ UNCHANGED <<file, drawn, removed, registered, sent>>
    BY <1>0, <1>1, IdleIsOne
       DEF RegisterOperatorCommand, Becomes, KeyFileInv, KeyFileTypeOK, Idle
  <2>2. QED
    BY <1>0, <2>1 DEF KeptInv, NothingLost, HoldsSent
<1>2. ASSUME load_keys_from_file(p)
      PROVE  KeptInv(p)'
  <2>1. /\ UNCHANGED <<file, removed, registered, sent>>
        /\ (file.text # "torn" => HoldsSent(file.operators))'
    BY <1>0, <1>2, LoadEffect DEF KeptInv, HoldsSent
  <2>2. CASE Becomes(p, Idle)
    <3>1. process'[p].pc = "idle"
      BY <1>0, <2>2, IdleIsOne DEF Becomes, KeyFileInv, KeyFileTypeOK
    <3>2. QED
      BY <1>0, <2>1, <3>1 DEF KeptInv, NothingLost
  <2>3. ASSUME NEW state \in Process, Becomes(p, state), file.text # "torn",
               state.operator \in Operators,
               LET kept == file.operators[state.operator]
               IN  /\ kept # Nothing => state.key_set.private_key = kept.private_key
                   /\ \/ /\ state.pc = "truncate"
                         /\ state.storage = [file.operators EXCEPT ![state.operator] = state.key_set]
                      \/ /\ state.pc = "register" /\ kept # Nothing
        PROVE  KeptInv(p)'
    <3>1. process'[p] = state
      BY <1>0, <2>3 DEF Becomes, KeyFileInv, KeyFileTypeOK
    <3>2. file.operators[state.operator] # Nothing => file.text = "whole"
      BY <1>0, <2>3 DEF KeyFileInv, KeyFileTypeOK, NoKeys
    <3>3. NothingLost(p)'
      BY <2>1, <2>3, <3>1, <3>2 DEF NothingLost, PrivateKeyIs
    <3>4. QED
      BY <1>0, <2>1, <3>3 DEF KeptInv
  <2>4. QED
    BY <1>0, <1>2, <2>2, <2>3, LoadEffect
<1>3. ASSUME Truncate(p)
      PROVE  KeptInv(p)'
  <2> DEFINE operator == process[p].operator
             key_set == process[p].key_set
  <2>1. /\ process'[p] = [process[p] EXCEPT !.pc = "write"]
        /\ process[p] \in Process /\ operator \in Operators /\ key_set \in BlsKeySet
        /\ file'.text = "torn" /\ UNCHANGED <<removed, registered, sent>> /\ sent \subseteq Attempts
        /\ file.operators \in BlsKeyStorage
    BY <1>0, <1>3 DEF Truncate, Becomes, KeyFileInv, KeyFileTypeOK
  <2>2. /\ process[p].storage = [file.operators EXCEPT ![operator] = key_set]
        /\ file.operators[operator] # Nothing =>
             key_set.private_key = file.operators[operator].private_key
        /\ HoldsSent(file.operators)
    BY <1>3 DEF Truncate, KeptInv, NothingLost
  <2>3. key_set # Nothing
    BY <2>1, KeyFileNoneAssumption
  <2>4. /\ process[p].storage[operator] = key_set
        /\ \A o \in Operators : o # operator => process[p].storage[o] = file.operators[o]
    BY <2>1, <2>2 DEF BlsKeyStorage
  <2>5. HoldsSent(process[p].storage)
    BY <2>1, <2>2, <2>3, <2>4 DEF HoldsSent, PrivateKeyIs, Attempts
  <2>6. process'[p].pc = "write" /\ process'[p].storage = process[p].storage
        /\ process'[p].operator = operator /\ process'[p].key_set = key_set
    BY <2>1 DEF Process
  <2>7. NothingLost(p)'
    BY <2>1, <2>4, <2>5, <2>6 DEF NothingLost, HoldsSent
  <2>8. QED
    BY <1>0, <2>1, <2>7 DEF KeptInv
<1>4. ASSUME Write(p)
      PROVE  KeptInv(p)'
  <2> DEFINE operator == process[p].operator
             key_set == process[p].key_set
             storage == process[p].storage
  <2>1. /\ file.text = "torn" /\ storage[operator] = key_set /\ HoldsSent(storage)
        /\ operator \in Operators /\ key_set \in BlsKeySet /\ process[p] \in Process
    BY <1>0, <1>4 DEF Write, KeptInv, NothingLost, KeyFileInv, KeyFileTypeOK
  <2>2. /\ file' = [text |-> "whole", operators |-> storage]
        /\ process'[p] = [process[p] EXCEPT !.pc = "register", !.storage = NoKeys]
        /\ UNCHANGED <<removed, registered, sent>>
    BY <1>0, <1>4, <2>1 DEF Write, Becomes, KeyFileInv, KeyFileTypeOK
  <2>3. /\ process'[p].pc = "register" /\ process'[p].operator = operator
        /\ process'[p].key_set = key_set
    BY <2>1, <2>2 DEF Process
  <2>4. key_set # Nothing
    BY <2>1, KeyFileNoneAssumption
  <2>5. NothingLost(p)'
    BY <2>1, <2>2, <2>3, <2>4 DEF NothingLost, PrivateKeyIs
  <2>6. HoldsSent(file.operators)'
    BY <2>1, <2>2 DEF HoldsSent
  <2>7. QED
    BY <1>0, <2>5, <2>6 DEF KeptInv
<1>5. ASSUME register_operator(p)
      PROVE  KeptInv(p)'
  <2> DEFINE operator == process[p].operator
             key_set == process[p].key_set
             attempt == [operator |-> operator, key_set |-> key_set]
  <2>1. /\ file.text = "whole" /\ PrivateKeyIs(file.operators[operator], key_set.private_key)
        /\ HoldsSent(file.operators) /\ UNCHANGED <<file, removed, registered>>
    BY <1>5 DEF register_operator, KeptInv, NothingLost
  <2>2. CASE sent' = sent \cup {attempt} /\ UNCHANGED process
    <3>1. HoldsSent(file.operators)'
      BY <2>1, <2>2 DEF HoldsSent
    <3>2. NothingLost(p)'
      BY <1>5, <2>1, <2>2 DEF register_operator, NothingLost
    <3>3. QED
      BY <1>0, <3>1, <3>2 DEF KeptInv
  <2>3. CASE Becomes(p, Idle) /\ UNCHANGED sent
    <3>1. process'[p].pc = "idle"
      BY <1>0, <2>3, IdleIsOne DEF Becomes, KeyFileInv, KeyFileTypeOK
    <3>2. QED
      BY <1>0, <2>1, <2>3, <3>1 DEF KeptInv, NothingLost, HoldsSent
  <2>4. QED
    BY <1>5, <2>2, <2>3 DEF register_operator
<1>6. ASSUME Crash(p)
      PROVE  KeptInv(p)'
  <2>1. process'[p].pc = "idle" /\ UNCHANGED <<file, drawn, removed, registered, sent>>
    BY <1>0, <1>6, IdleIsOne DEF Crash, Becomes, KeyFileInv, KeyFileTypeOK
  <2>2. QED
    BY <1>0, <2>1 DEF KeptInv, NothingLost, HoldsSent
<1>7. ASSUME NEW operator \in Operators, NEW key \in Supplied, RegisterWithSignature(operator, key)
      PROVE  KeptInv(p)'
  <2>1. /\ UNCHANGED <<file, drawn, removed, sent, process>>
        /\ \A o \in Operators : registered'[o] \in Keys => registered'[o] = registered[o]
    BY <1>0, <1>7, KeyFileAssumption
       DEF RegisterWithSignature, KeyFileInv, KeyFileTypeOK, Keys
  <2>2. QED
    BY <1>0, <2>1 DEF KeptInv, NothingLost, HoldsSent
<1>8. ASSUME NEW attempt \in sent, Land(attempt) \/ Expire(attempt)
      PROVE  KeptInv(p)'
  <2> DEFINE operator == attempt.operator
             key_set == attempt.key_set
  <2>1. /\ sent' \subseteq sent /\ UNCHANGED <<file, drawn, removed, process>>
        /\ registered \in [Operators -> PublicKeys \cup {Nothing}]
        /\ \A o \in Operators :
             \/ registered'[o] = registered[o]
             \/ o = operator /\ registered'[o] = key_set.private_key
    BY <1>0, <1>8 DEF Land, Expire, SignatureVerifies, KeyFileInv, KeyFileTypeOK
  <2>2. file.text # "torn" => HoldsSent(file.operators)'
    BY <2>1 DEF KeptInv, HoldsSent
  <2>3. process[p].pc = "write" => HoldsSent(process[p].storage)'
    BY <2>1 DEF KeptInv, NothingLost, HoldsSent
  <2>4. NothingLost(p)'
    BY <2>1, <2>3 DEF KeptInv, NothingLost
  <2>5. QED
    BY <1>0, <2>1, <2>2, <2>4 DEF KeptInv
<1>9. ASSUME DeleteFile
      PROVE  KeptInv(p)'
  <2>1. removed' /\ UNCHANGED process /\ process[p].pc = "idle"
    BY <1>9 DEF DeleteFile
  <2>2. QED
    BY <1>0, <2>1 DEF KeptInv, NothingLost, HoldsSent
<1>10. ASSUME UNCHANGED keyFileVars
      PROVE  KeptInv(p)'
  BY <1>0, <1>10 DEF keyFileVars, KeptInv, NothingLost, HoldsSent
<1>11. QED
  BY <1>1, <1>2, <1>3, <1>4, <1>5, <1>6, <1>7, <1>8, <1>9, <1>10 DEF KeyFileNext

\* One run of the command at a time, with any crashes, attempts that land late and
\* keys given by users, never replaces the private half of a registered key.
THEOREM RegisteredKeysAreKept ==
    ASSUME NEW p \in Processes, Processes = {p}
    PROVE  KeyFileSpec => []RegisteredKeyIsKept
<1>1. KeyFileInit => KeptInv(p)
  BY KeptInvInit
<1>2. KeptInv(p) /\ [KeyFileNext]_keyFileVars => KeptInv(p)'
  BY KeptInvNext
<1>3. KeptInv(p) => RegisteredKeyIsKept
  BY DEF KeptInv, HoldsSent, PrivateKeyIs, RegisteredKeyIsKept
<1>4. QED
  BY <1>1, <1>2, <1>3, PTL DEF KeyFileSpec

\* And no generated key goes to the network before it is in the file, nor a
\* second one for an operator while an attempt with the first may still land.
THEOREM SentKeysAreSaved ==
    ASSUME NEW p \in Processes, Processes = {p}
    PROVE  KeyFileSpec => SentKeyIsSaved
<1> DEFINE Saved == \A a \in sent' \ sent :
         /\ file.text = "whole"
         /\ file.operators[a.operator] # Nothing
         /\ file.operators[a.operator].private_key = a.key_set.private_key
         /\ ~removed => \A b \in sent :
              b.operator = a.operator => b.key_set.private_key = a.key_set.private_key
<1>1. KeyFileInit => KeptInv(p)
  BY KeptInvInit
<1>2. KeptInv(p) /\ [KeyFileNext]_keyFileVars => KeptInv(p)'
  BY KeptInvNext
<1>3. KeptInv(p) /\ [KeyFileNext]_keyFileVars => [Saved]_keyFileVars
  <2> SUFFICES ASSUME KeptInv(p), KeyFileNext
               PROVE  Saved
    BY DEF keyFileVars
  <2>1. CASE sent' \subseteq sent
    BY <2>1
  <2>2. CASE register_operator(p)
    <3> DEFINE attempt == [operator |-> process[p].operator, key_set |-> process[p].key_set]
    <3>1. \A a \in sent' \ sent : a = attempt
      BY <2>2 DEF register_operator
    <3>2. /\ file.text = "whole" /\ HoldsSent(file.operators)
          /\ PrivateKeyIs(file.operators[attempt.operator], attempt.key_set.private_key)
      BY <2>2 DEF register_operator, KeptInv, NothingLost
    <3> HIDE DEF attempt
    <3>3. ~removed => \A b \in sent :
            b.operator = attempt.operator => b.key_set.private_key = attempt.key_set.private_key
      BY <3>2 DEF HoldsSent, PrivateKeyIs
    <3>4. QED
      BY <3>1, <3>2, <3>3 DEF PrivateKeyIs
  <2>3. sent' \subseteq sent \/ register_operator(p)
    BY DEF KeyFileNext, RegisterOperatorCommand, RegisterWithSignature, load_keys_from_file,
           Truncate, Write, Crash, Land, Expire, DeleteFile
  <2>4. QED
    BY <2>1, <2>2, <2>3
<1>4. QED
  BY <1>1, <1>2, <1>3, PTL DEF KeyFileSpec, SentKeyIsSaved

(***************************************************************************)
(* The vault update: one undisturbed call of full_vault_update is enough,  *)
(* whatever other clients did to the same tracker.  The argument counts:   *)
(* when k of n delegations were cranked in epoch e, they are those with    *)
(* the indices (e + j) % n for j below k, and the vault program takes      *)
(* (e + k) % n next.  A client that starts there, wherever others have got *)
(* to meanwhile, finds at each of its n transactions that the delegation   *)
(* is next or done already.                                                *)
(***************************************************************************)

-------------------------------------------------------------------------------
(***************************************************************************)
(* Remainders                                                              *)
(***************************************************************************)

LEMMA DivMod ==
    ASSUME NEW a \in Nat, NEW n \in Nat \ {0}
    PROVE  a = n * (a \div n) + (a % n) /\ a \div n \in Nat /\ a % n \in 0 .. n - 1
BY SMT

LEMMA NoMultiple ==
    ASSUME NEW n \in Nat \ {0}, NEW d \in Int, NEW x \in Int, x = n * d, -n < x, x < n
    PROVE  x = 0
BY SMT

\* There is one quotient and one remainder.
LEMMA Remainder ==
    ASSUME NEW a \in Nat, NEW n \in Nat \ {0}, NEW q \in Int, NEW r \in 0 .. n - 1, a = n * q + r
    PROVE  a % n = r
<1> DEFINE p == a \div n
           s == a % n
<1>1. a = n * p + s /\ p \in Nat /\ s \in 0 .. n - 1
  BY DivMod
<1> HIDE DEF p, s
<1>2. r - s = n * (p - q)
  BY <1>1
<1>3. r - s = 0
  BY <1>1, <1>2, NoMultiple
<1>4. s = r
  BY <1>1, <1>3
<1>5. QED
  BY <1>4 DEF s

\* n numbers in a row have different remainders, ...
LEMMA ModDistinct ==
    ASSUME NEW a \in Nat, NEW b \in Nat, NEW n \in Nat \ {0}, a < b, b < a + n
    PROVE  a % n # b % n
<1> DEFINE p == a \div n
           q == b \div n
           s == a % n
           t == b % n
<1>1. a = n * p + s /\ p \in Nat /\ s \in 0 .. n - 1
  BY DivMod
<1>2. b = n * q + t /\ q \in Nat /\ t \in 0 .. n - 1
  BY DivMod
<1> HIDE DEF p, q, s, t
<1>3. s # t
  <2>1. SUFFICES ASSUME s = t PROVE FALSE
    OBVIOUS
  <2>2. b - a = n * (q - p) /\ q - p \in Int /\ b - a \in Int
    BY <1>1, <1>2, <2>1
  <2>3. b - a = 0
    BY <2>2, NoMultiple
  <2>4. QED
    BY <2>3
<1>4. QED
  BY <1>3 DEF s, t

\* ... and every remainder is among them.
LEMMA ModReaches ==
    ASSUME NEW a \in Nat, NEW n \in Nat \ {0}, NEW i \in 0 .. n - 1
    PROVE  \E j \in 0 .. n - 1 : (a + j) % n = i
<1> DEFINE p == a \div n
           s == a % n
<1>1. a = n * p + s /\ p \in Nat /\ s \in 0 .. n - 1
  BY DivMod
<1> HIDE DEF p, s
<1>2. CASE s <= i
  <2> DEFINE j == i - s
             b == a + j
  <2>1. j \in 0 .. n - 1 /\ b \in Nat /\ b = n * p + i
    BY <1>1, <1>2
  <2> HIDE DEF b
  <2>2. b % n = i
    BY <1>1, <2>1, Remainder
  <2>3. QED
    BY <2>1, <2>2 DEF b
<1>3. CASE s > i
  <2> DEFINE j == i + n - s
             b == a + j
             q == p + 1
  <2>1. j \in 0 .. n - 1 /\ b \in Nat /\ q \in Int /\ b = n * q + i
    BY <1>1, <1>3
  <2> HIDE DEF b, q
  <2>2. b % n = i
    BY <2>1, Remainder
  <2>3. QED
    BY <2>1, <2>2 DEF b
<1>4. QED
  BY <1>1, <1>2, <1>3

LEMMA ModAdd ==
    ASSUME NEW a \in Nat, NEW b \in Nat, NEW n \in Nat \ {0}
    PROVE  ((a % n) + b) % n = (a + b) % n
<1> DEFINE p == a \div n
           s == a % n
           q == (a + b) \div n
           t == (a + b) % n
<1>1. a = n * p + s /\ p \in Nat /\ s \in 0 .. n - 1
  BY DivMod
<1>2. a + b = n * q + t /\ q \in Nat /\ t \in 0 .. n - 1
  <2>1. a + b \in Nat
    OBVIOUS
  <2>2. QED
    BY <2>1, DivMod
<1> HIDE DEF p, q, s, t
<1>3. /\ s + b = n * (q - p) + t
      /\ s + b \in Nat /\ q - p \in Int
  BY <1>1, <1>2
<1>4. (s + b) % n = t
  <2> DEFINE c == s + b
             d == q - p
  <2>1. c \in Nat /\ d \in Int /\ c = n * d + t
    BY <1>3
  <2> HIDE DEF c, d
  <2>2. c % n = t
    BY <1>2, <2>1, Remainder
  <2>3. QED
    BY <2>2 DEF c
<1>5. QED
  BY <1>4 DEF s, t

\* After n steps the order begins again.
LEMMA ModAround ==
    ASSUME NEW a \in Nat, NEW n \in Nat \ {0}
    PROVE  (a + n) % n = a % n
<1> DEFINE p == a \div n
           s == a % n
           b == a + n
           q == p + 1
<1>1. a = n * p + s /\ p \in Nat /\ s \in 0 .. n - 1
  BY DivMod
<1> HIDE DEF p, s
<1>2. b \in Nat /\ q \in Int /\ b = n * q + s
  BY <1>1
<1> HIDE DEF b, q
<1>3. b % n = s
  BY <1>1, <1>2, Remainder
<1>4. QED
  BY <1>3 DEF b, s

-------------------------------------------------------------------------------
(***************************************************************************)
(* The vault, its delegations and its trackers.  The operators take the    *)
(* state they speak of as arguments: the epoch e of the clock, the vault's *)
(* epoch v, its delegations' epochs d and the trackers t.                  *)
(***************************************************************************)

VaultTyped(e, v, d, t) ==
    /\ e \in Epochs /\ v \in 0 .. e
    /\ d \in Seq(Nat) /\ Len(d) <= MAX_DELEGATIONS
    /\ \A i \in 1 .. Len(d) : d[i] \in v .. e
    /\ t \in [Epochs -> {NONE, MAX} \cup 0 .. (Len(d) - 1)]
    /\ \A x \in Epochs : t[x] # NONE => x <= e /\ (v < x \/ x < e)

\* k delegations were cranked in epoch e, in order.
CrankedUpTo(e, d, t, k) ==
    /\ t[e] = IF k = 0 THEN MAX ELSE (e + k - 1) % Len(d)
    /\ \A j \in 0 .. Len(d) - 1 : d[((e + j) % Len(d)) + 1] = e <=> j < k

VaultInv(e, v, d, t) ==
    /\ VaultTyped(e, v, d, t)
    /\ v < e /\ t[e] = NONE => \A i \in 1 .. Len(d) : d[i] < e
    /\ v < e /\ t[e] # NONE => \E k \in 0 .. Len(d) : CrankedUpTo(e, d, t, k)

\* What the vault program takes next.
LEMMA NextIsNext ==
    ASSUME NEW e \in Epochs, NEW d \in Seq(Nat), NEW k \in 0 .. Len(d), CrankedUpTo(e, d, tracker, k),
           Len(d) > 0
    PROVE  NextIndex(e, Len(d)) = (e + k) % Len(d)
<1> DEFINE n == Len(d)
<1>1. n \in Nat \ {0} /\ e \in Nat /\ k \in Nat
  BY VaultUpdateAssumption DEF Epochs
<1>2. CASE k = 0
  <2>1. tracker[e] = MAX /\ e + k = e
    BY <1>1, <1>2 DEF CrankedUpTo
  <2>2. QED
    BY <2>1 DEF NextIndex
<1>3. CASE k # 0
  <2> DEFINE b == e + k - 1
             r == b % n
  <2>0. b \in Nat /\ b + 1 = e + k /\ tracker[e] = r
    BY <1>1, <1>3 DEF CrankedUpTo
  <2> HIDE DEF b
  <2>1. r \in 0 .. n - 1
    BY <1>1, <2>0, DivMod
  <2>2. tracker[e] # MAX
    BY <1>1, <2>0, <2>1 DEF MAX
  <2>3. (r + 1) % n = (b + 1) % n
    BY <1>1, <2>0, ModAdd
  <2> HIDE DEF r
  <2>4. QED
    BY <2>0, <2>2, <2>3 DEF NextIndex
<1>4. QED
  BY <1>2, <1>3

VaultNow == VaultInv(clock_epoch, vault_epoch, delegation_epoch, tracker)
VaultThen == VaultInv(clock_epoch, vault_epoch', delegation_epoch', tracker')

\* While the vault is not yet in the clock's epoch, nothing is undone.
Progress ==
    /\ Len(delegation_epoch') = Len(delegation_epoch)
    /\ vault_epoch <= vault_epoch'
    /\ vault_epoch' < clock_epoch =>
         /\ tracker[clock_epoch] # NONE => tracker'[clock_epoch] # NONE
         /\ \A i \in 1 .. Len(delegation_epoch) :
              delegation_epoch[i] = clock_epoch => delegation_epoch'[i] = clock_epoch

LEMMA InitializeKeeps ==
    ASSUME VaultNow, NEW x \in Epochs, CanInitialize(x), InitializeTracker(x)
    PROVE  VaultThen /\ Progress
<1> DEFINE d == delegation_epoch
           n == Len(d)
<1>1. /\ x = clock_epoch /\ tracker[x] = NONE /\ vault_epoch < clock_epoch
      /\ tracker' = [tracker EXCEPT ![x] = MAX]
      /\ vault_epoch' = vault_epoch /\ delegation_epoch' = delegation_epoch
  BY DEF CanInitialize, InitializeTracker, is_update_needed
<1>2. VaultTyped(clock_epoch, vault_epoch, delegation_epoch, tracker)
      /\ \A i \in 1 .. n : d[i] < clock_epoch
  BY <1>1 DEF VaultNow, VaultInv
<1>3. VaultTyped(clock_epoch, vault_epoch, delegation_epoch, tracker')
  BY <1>1, <1>2 DEF VaultTyped, Epochs
<1>4. n \in Nat /\ clock_epoch \in Nat /\ tracker'[clock_epoch] = MAX
  BY <1>1, <1>2, VaultUpdateAssumption DEF VaultTyped, Epochs
<1>5. CrankedUpTo(clock_epoch, d, tracker', 0)
  <2>1. ASSUME NEW j \in 0 .. n - 1
        PROVE  ~(d[((clock_epoch + j) % n) + 1] = clock_epoch) /\ ~(j < 0)
    <3>1. clock_epoch + j \in Nat /\ n \in Nat \ {0}
      BY <1>4, <2>1
    <3>2. (clock_epoch + j) % n \in 0 .. n - 1
      BY <3>1, DivMod
    <3>3. d[((clock_epoch + j) % n) + 1] < clock_epoch
      BY <1>2, <1>4, <3>2
    <3>4. d[((clock_epoch + j) % n) + 1] \in Nat
      BY <1>2, <1>4, <3>2 DEF VaultTyped
    <3>5. QED
      BY <3>3, <3>4, <1>4, <2>1
  <2>2. QED
    BY <1>4, <2>1 DEF CrankedUpTo
<1>6. VaultThen
  <2>1. 0 \in 0 .. n
    BY <1>4
  <2>2. tracker'[clock_epoch] # NONE
    BY <1>4 DEF NONE, MAX
  <2>3. QED
    BY <1>1, <1>3, <1>5, <2>1, <2>2 DEF VaultThen, VaultInv
<1>7. Progress
  <2>1. vault_epoch <= vault_epoch'
    BY <1>1, <1>2 DEF VaultTyped
  <2>2. tracker[clock_epoch] = NONE
    BY <1>1
  <2>3. QED
    BY <1>1, <2>1, <2>2 DEF Progress
<1>8. QED
  BY <1>6, <1>7

LEMMA CrankKeeps ==
    ASSUME VaultNow, operator_count > 0, NEW x \in Epochs, NEW i \in Nat,
           CanCrank(x, i), CrankDelegation(x, i)
    PROVE  VaultThen /\ Progress
<1> DEFINE e == clock_epoch
           d == delegation_epoch
           n == Len(d)
           index(j) == (e + j) % n
<1>1. /\ x = e /\ tracker[e] # NONE /\ i = NextIndex(e, n) /\ d[i + 1] < e
      /\ tracker' = [tracker EXCEPT ![e] = i]
      /\ delegation_epoch' = [d EXCEPT ![i + 1] = e]
      /\ vault_epoch' = vault_epoch
  BY DEF CanCrank, CrankDelegation, operator_count
<1>2. VaultTyped(e, vault_epoch, d, tracker) /\ vault_epoch < e
  <2>1. VaultTyped(e, vault_epoch, d, tracker)
    BY DEF VaultNow, VaultInv
  <2>2. e \in Epochs /\ (vault_epoch < e \/ e < e)
    BY <1>1, <2>1 DEF VaultTyped
  <2>3. e \in Nat
    BY <2>2, VaultUpdateAssumption DEF Epochs
  <2>4. QED
    BY <2>1, <2>2, <2>3
<1>3. n \in Nat \ {0} /\ e \in Nat /\ e \in Epochs /\ vault_epoch \in Nat
  <2>1. e \in Epochs /\ vault_epoch \in 0 .. e /\ d \in Seq(Nat)
    BY <1>2 DEF VaultTyped
  <2>2. e \in Nat /\ vault_epoch \in Nat
    BY <2>1, VaultUpdateAssumption DEF Epochs
  <2>3. n \in Nat /\ n > 0
    BY <2>1, LenProperties DEF operator_count
  <2>4. QED
    BY <2>1, <2>2, <2>3
<1>4. PICK k \in 0 .. n : CrankedUpTo(e, d, tracker, k)
  BY <1>1, <1>2 DEF VaultNow, VaultInv
<1>5. i = index(k)
  <2>1. d \in Seq(Nat)
    BY <1>2 DEF VaultTyped
  <2>2. NextIndex(e, n) = index(k)
    BY <1>3, <1>4, <2>1, NextIsNext
  <2>3. QED
    BY <1>1, <2>2
<1>6. \A j \in 0 .. n : index(j) \in 0 .. n - 1
  <2>1. ASSUME NEW j \in 0 .. n PROVE index(j) \in 0 .. n - 1
    <3>1. e + j \in Nat
      BY <1>3
    <3>2. QED
      BY <1>3, <3>1, DivMod
  <2>2. QED
    BY <2>1
<1>7. k < n
  <2>1. SUFFICES ASSUME k = n PROVE FALSE
    BY <1>3
  <2>2. index(n) = index(0)
    BY <1>3, ModAround
  <2>3. d[index(0) + 1] = e
    BY <1>3, <1>4, <2>1 DEF CrankedUpTo
  <2>4. QED
    BY <1>1, <1>3, <1>5, <2>1, <2>2, <2>3
<1>8. \A j \in 0 .. n - 1 : j # k => index(j) # index(k)
  <2>1. ASSUME NEW j \in 0 .. n - 1, j < k PROVE index(j) # index(k)
    <3>1. e + j \in Nat /\ e + k \in Nat /\ e + j < e + k /\ e + k < (e + j) + n
      BY <1>3, <1>7, <2>1
    <3>2. QED
      BY <1>3, <3>1, ModDistinct
  <2>2. ASSUME NEW j \in 0 .. n - 1, k < j PROVE index(j) # index(k)
    <3>1. e + j \in Nat /\ e + k \in Nat /\ e + k < e + j /\ e + j < (e + k) + n
      BY <1>3, <1>7, <2>2
    <3>2. QED
      BY <1>3, <3>1, ModDistinct
  <2>3. QED
    BY <1>3, <2>1, <2>2
<1>9. i \in 0 .. n - 1
  BY <1>3, <1>5, <1>6
<1> HIDE DEF index
<1>10. VaultTyped(e, vault_epoch, delegation_epoch', tracker') /\ Len(delegation_epoch') = n
  BY <1>1, <1>2, <1>3, <1>9 DEF VaultTyped, Epochs
<1>11. tracker'[e] = i /\ i # NONE
  BY <1>1, <1>2, <1>3, <1>9 DEF VaultTyped, NONE
<1>12. CrankedUpTo(e, delegation_epoch', tracker', k + 1)
  <2>1. ASSUME NEW j \in 0 .. n - 1
        PROVE  delegation_epoch'[index(j) + 1] = e <=> j < k + 1
    <3>1. CASE j = k
      BY <1>1, <1>2, <1>3, <1>5, <1>9, <3>1 DEF VaultTyped
    <3>2. CASE j # k
      <4>1. index(j) # i /\ index(j) \in 0 .. n - 1
        BY <1>3, <1>5, <1>6, <1>8, <2>1, <3>2
      <4>2. delegation_epoch'[index(j) + 1] = d[index(j) + 1]
        BY <1>1, <1>2, <1>3, <1>9, <4>1 DEF VaultTyped
      <4>3. d[index(j) + 1] = e <=> j < k
        BY <1>4, <2>1 DEF CrankedUpTo, index
      <4>4. QED
        BY <1>3, <1>4, <2>1, <3>2, <4>2, <4>3
    <3>3. QED
      BY <3>1, <3>2
  <2>2. e + (k + 1) - 1 = e + k /\ k + 1 # 0
    BY <1>3, <1>4
  <2>3. QED
    BY <1>5, <1>10, <1>11, <2>1, <2>2 DEF CrankedUpTo, index
<1>13. VaultThen
  <2>1. k + 1 \in 0 .. n
    BY <1>3, <1>7
  <2>2. QED
    BY <1>1, <1>10, <1>11, <1>12, <2>1 DEF VaultThen, VaultInv
<1>14. Progress
  BY <1>1, <1>2, <1>3, <1>9, <1>10, <1>11 DEF Progress, VaultTyped
<1>15. QED
  BY <1>13, <1>14

LEMMA CloseKeeps ==
    ASSUME VaultNow, NEW x \in Epochs, CanClose(x), CloseTracker(x)
    PROVE  VaultThen /\ Progress
<1> DEFINE e == clock_epoch
           d == delegation_epoch
<1>1. /\ tracker[x] # NONE /\ delegation_epoch' = d
      /\ tracker' = [tracker EXCEPT ![x] = NONE]
  BY DEF CanClose, CloseTracker
<1>2. VaultTyped(e, vault_epoch, d, tracker)
  BY DEF VaultNow, VaultInv
<1>3. Len(d) \in Nat /\ e \in Nat /\ e \in Epochs /\ vault_epoch \in Nat /\ x \in Nat
  BY <1>2, VaultUpdateAssumption DEF VaultTyped, Epochs
<1>4. CASE x = e
  <2>1. vault_epoch' = e /\ \A i \in 1 .. Len(d) : d[i] = e
    BY <1>4 DEF CanClose, CloseTracker, operator_count
  <2>2. VaultTyped(e, e, d, tracker')
    BY <1>1, <1>2, <1>3, <1>4, <2>1 DEF VaultTyped, Epochs
  <2>3. QED
    BY <1>1, <1>2, <1>3, <2>1, <2>2 DEF VaultThen, VaultInv, Progress, VaultTyped
<1>5. CASE x # e
  <2>1. vault_epoch' = vault_epoch /\ tracker'[e] = tracker[e]
    BY <1>1, <1>2, <1>5 DEF CloseTracker, VaultTyped
  <2>2. VaultTyped(e, vault_epoch, d, tracker')
    BY <1>1, <1>2, <1>3 DEF VaultTyped, Epochs
  <2>3. \A k : CrankedUpTo(e, d, tracker, k) => CrankedUpTo(e, d, tracker', k)
    BY <2>1 DEF CrankedUpTo
  <2>4. VaultThen
    BY <1>1, <2>1, <2>2, <2>3 DEF VaultNow, VaultThen, VaultInv
  <2>5. QED
    BY <1>1, <1>2, <1>3, <2>1, <2>4 DEF Progress, VaultTyped
<1>6. QED
  BY <1>4, <1>5

-------------------------------------------------------------------------------
(***************************************************************************)
(* The clients                                                             *)
(***************************************************************************)

Listed(s, d) ==
    /\ Len(s.operators) \in 1 .. Len(d)
    /\ s.operators = get_all_sorted_operators_for_vault(Len(s.operators))

CallTyped(s, e, d) ==
    /\ s \in ClientState
    /\ s.began <= e
    /\ s.pc \in {"index", "crank"} => Listed(s, d)
    /\ s.pc = "index" => s.sent = 0
    /\ s.pc = "crank" => s.sent < Len(s.operators)

\* The call began at the k-th delegation: those before it and those it has sent
\* since are done.
SentFrom(s, e, d, k) ==
    /\ s.index = (e + k) % Len(d)
    /\ \A j \in 0 .. Len(d) - 1 : j < k + s.sent => d[((e + j) % Len(d)) + 1] = e

\* A call that was not disturbed, while the vault is not in its epoch.
OnTrack(s, e, v, d, t) ==
    s.undisturbed /\ s.began = e /\ v < e =>
        /\ s.pc \notin {"ok", "error"}
        /\ s.pc # "slot" => s.ncn_epoch = e
        /\ s.pc = "slot again" => s.vault_epoch < e
        /\ s.pc \in {"operators", "index", "crank", "closing", "close"} => t[e] # NONE
        /\ s.pc \in {"index", "crank"} => Len(s.operators) = Len(d)
        /\ s.pc = "crank" => \E k \in 0 .. Len(d) : SentFrom(s, e, d, k)
        /\ s.pc \in {"closing", "close"} => \A i \in 1 .. Len(d) : d[i] = e

Good(s, e, v, d, t) == CallTyped(s, e, d) /\ OnTrack(s, e, v, d, t)
GoodNow(s) == Good(s, clock_epoch, vault_epoch, delegation_epoch, tracker)
GoodThen(s) == Good(s, clock_epoch, vault_epoch', delegation_epoch', tracker')

IInv ==
    /\ VaultNow
    /\ rpc_responds \in BOOLEAN
    /\ client \in [Clients -> ClientState]
    /\ \A c \in Clients : GoodNow(client[c])

\* What one step of client c leaves.
StepOf(c) ==
    /\ VaultThen
    /\ Progress
    /\ client' \in [Clients -> ClientState]
    /\ GoodThen(client'[c])
    /\ \A other \in Clients \ {c} : client'[other] = client[other]

\* What others do to the vault does not take a call off its track.
LEMMA OthersKeep ==
    ASSUME NEW s, GoodNow(s), VaultNow, VaultThen, Progress
    PROVE  GoodThen(s)
<1> DEFINE e == clock_epoch
           d == delegation_epoch
<1>1. /\ VaultTyped(e, vault_epoch, d, tracker)
      /\ VaultTyped(e, vault_epoch', d', tracker')
  BY DEF VaultNow, VaultThen, VaultInv
<1>2. /\ Len(d') = Len(d) /\ Len(d) \in Nat /\ e \in Nat
      /\ vault_epoch \in Nat /\ vault_epoch' \in Nat /\ vault_epoch <= vault_epoch'
  BY <1>1, VaultUpdateAssumption DEF Progress, VaultTyped, Epochs
<1>3. CallTyped(s, e, d')
  BY <1>2 DEF GoodNow, Good, CallTyped, Listed
<1>4. ASSUME vault_epoch' < e, s.undisturbed, s.began = e
      PROVE  OnTrack(s, e, vault_epoch', d', tracker')
  <2>1. /\ vault_epoch < e /\ OnTrack(s, e, vault_epoch, d, tracker)
        /\ tracker[e] # NONE => tracker'[e] # NONE
        /\ \A i \in 1 .. Len(d) : d[i] = e => d'[i] = e
    BY <1>2, <1>4 DEF GoodNow, Good, Progress
  <2>2. ASSUME NEW k \in 0 .. Len(d), SentFrom(s, e, d, k)
        PROVE  SentFrom(s, e, d', k)
    <3>1. ASSUME NEW j \in 0 .. Len(d) - 1, j < k + s.sent
          PROVE  d'[((e + j) % Len(d)) + 1] = e
      <4>1. e + j \in Nat /\ Len(d) \in Nat \ {0}
        BY <1>2, <3>1
      <4>2. (e + j) % Len(d) \in 0 .. Len(d) - 1
        BY <4>1, DivMod
      <4>3. d[((e + j) % Len(d)) + 1] = e
        BY <2>2, <3>1 DEF SentFrom
      <4>4. QED
        BY <1>2, <2>1, <4>2, <4>3
    <3>2. QED
      BY <1>2, <2>2, <3>1 DEF SentFrom
  <2>3. QED
    BY <1>2, <1>4, <2>1, <2>2 DEF OnTrack
<1>5. QED
  BY <1>3, <1>4 DEF GoodThen, Good, OnTrack

LEMMA BecomesKeeps ==
    ASSUME client \in [Clients -> ClientState], NEW c \in Clients, NEW s, GoodThen(s),
           VaultThen, Progress, ClientBecomes(c, s)
    PROVE  StepOf(c)
<1> DEFINE ended == [s EXCEPT !.ncn_epoch = 0, !.vault_epoch = 0, !.operators = <<>>,
                              !.index = 0, !.sent = 0]
<1>1. client' = [client EXCEPT ![c] = IF s.pc \in {"ok", "error"} THEN ended ELSE s]
  BY DEF ClientBecomes
<1>2. s \in ClientState
  BY DEF GoodThen, Good, CallTyped
<1>3. ASSUME s.pc \in {"ok", "error"}
      PROVE  ended \in ClientState /\ GoodThen(ended)
  <2>1. 0 \in Epochs /\ 0 \in 0 .. MAX_DELEGATIONS /\ <<>> \in Seq(Nat)
    BY VaultUpdateAssumption DEF Epochs
  <2>2. /\ ended \in ClientState
        /\ ended.pc = s.pc /\ ended.began = s.began /\ ended.undisturbed = s.undisturbed
    BY <1>2, <2>1 DEF ClientState
  <2> HIDE DEF ended
  <2>3. QED
    BY <1>3, <2>2 DEF GoodThen, Good, CallTyped, OnTrack
<1>4. QED
  BY <1>1, <1>2, <1>3 DEF StepOf

\* A call that was disturbed promises nothing.
LEMMA DisturbedIsGood ==
    ASSUME NEW s \in ClientState, NEW e, NEW v, NEW d, NEW t, CallTyped(s, e, d)
    PROVE  Good([s EXCEPT !.undisturbed = FALSE], e, v, d, t)
<1> DEFINE lost == [s EXCEPT !.undisturbed = FALSE]
<1>1. /\ lost \in ClientState /\ ~lost.undisturbed
      /\ lost.began = s.began /\ lost.pc = s.pc
      /\ lost.operators = s.operators /\ lost.sent = s.sent
  BY DEF ClientState
<1> HIDE DEF lost
<1>2. Good(lost, e, v, d, t)
  BY <1>1 DEF Good, CallTyped, OnTrack, Listed
<1>3. QED
  BY <1>2 DEF lost

\* A step that leaves the vault alone.
LEMMA VaultRests ==
    ASSUME VaultNow, UNCHANGED vault
    PROVE  VaultThen /\ Progress /\ \A s : GoodThen(s) <=> GoodNow(s)
<1>1. VaultTyped(clock_epoch, vault_epoch, delegation_epoch, tracker)
  BY DEF VaultNow, VaultInv
<1>2. vault_epoch \in Nat
  BY <1>1, VaultUpdateAssumption DEF VaultTyped, Epochs
<1>3. QED
  BY <1>2 DEF vault, VaultNow, VaultThen, Progress, GoodNow, GoodThen

\* A transaction that did not land, and may be reported as such.
LEMMA NotSent ==
    ASSUME IInv, NEW c \in Clients, NEW s, CallTyped(s, clock_epoch, delegation_epoch),
           UNCHANGED vault, ClientBecomes(c, [s EXCEPT !.undisturbed = FALSE])
    PROVE  StepOf(c)
<1> DEFINE lost == [s EXCEPT !.undisturbed = FALSE]
<1>1. s \in ClientState
  BY DEF CallTyped
<1>2. GoodNow(lost)
  BY <1>1, DisturbedIsGood DEF GoodNow
<1> HIDE DEF lost
<1>3. VaultThen /\ Progress /\ GoodThen(lost)
  BY <1>2, VaultRests DEF IInv
<1>4. ClientBecomes(c, lost)
  BY DEF lost
<1>5. QED
  BY <1>3, <1>4, BecomesKeeps DEF IInv

LEMMA ReadKeeps ==
    ASSUME IInv, NEW c \in Clients, NEW s, GoodNow(s), Read(c, s)
    PROVE  StepOf(c)
<1>1. UNCHANGED vault
  BY DEF Read
<1>2. CASE ClientBecomes(c, s)
  BY <1>1, <1>2, VaultRests, BecomesKeeps DEF IInv
<1>3. CASE ClientBecomes(c, [client[c] EXCEPT !.pc = "error", !.undisturbed = FALSE])
  <2> DEFINE failed == [client[c] EXCEPT !.pc = "error"]
  <2>1. client[c] \in ClientState /\ client[c].began <= clock_epoch
    BY DEF IInv, GoodNow, Good, CallTyped
  <2>2. failed \in ClientState /\ failed.pc = "error" /\ failed.began = client[c].began
    BY <2>1 DEF ClientState, ClientPCs
  <2>3. [client[c] EXCEPT !.pc = "error", !.undisturbed = FALSE]
          = [failed EXCEPT !.undisturbed = FALSE]
    BY <2>1 DEF ClientState
  <2> HIDE DEF failed
  <2>4. CallTyped(failed, clock_epoch, delegation_epoch)
    BY <2>1, <2>2 DEF CallTyped
  <2>5. QED
    BY <1>1, <1>3, <2>3, <2>4, NotSent
<1>4. QED
  BY <1>2, <1>3 DEF Read

\* What the proofs about the steps use of the invariant.
LEMMA Facts ==
    ASSUME IInv, NEW c \in Clients
    PROVE  /\ client[c] \in ClientState /\ client[c].began <= clock_epoch
           /\ OnTrack(client[c], clock_epoch, vault_epoch, delegation_epoch, tracker)
           /\ VaultTyped(clock_epoch, vault_epoch, delegation_epoch, tracker)
           /\ clock_epoch \in Epochs /\ clock_epoch \in Nat /\ vault_epoch \in Epochs
           /\ vault_epoch \in Nat /\ vault_epoch <= clock_epoch
           /\ delegation_epoch \in Seq(Nat) /\ Len(delegation_epoch) \in 0 .. MAX_DELEGATIONS
<1>1. /\ client[c] \in ClientState /\ client[c].began <= clock_epoch
      /\ OnTrack(client[c], clock_epoch, vault_epoch, delegation_epoch, tracker)
      /\ VaultTyped(clock_epoch, vault_epoch, delegation_epoch, tracker)
  BY DEF IInv, GoodNow, Good, CallTyped, VaultNow, VaultInv
<1>2. QED
  BY <1>1, VaultUpdateAssumption DEF VaultTyped, Epochs

LEMMA CallKeeps ==
    ASSUME IInv, NEW c \in Clients, Call(c) PROVE StepOf(c)
<1> DEFINE s == [client[c] EXCEPT !.pc = "slot", !.began = clock_epoch, !.undisturbed = TRUE]
<1>1. s \in ClientState /\ s.pc = "slot" /\ s.began = clock_epoch /\ clock_epoch \in Nat
  BY Facts DEF ClientState, ClientPCs
<1>2. UNCHANGED vault /\ ClientBecomes(c, s)
  BY DEF Call
<1> HIDE DEF s
<1>3. GoodNow(s)
  BY <1>1 DEF GoodNow, Good, CallTyped, OnTrack
<1>4. QED
  BY <1>2, <1>3, VaultRests, BecomesKeeps DEF IInv

LEMMA ReadSlotKeeps ==
    ASSUME IInv, NEW c \in Clients, ReadSlot(c) PROVE StepOf(c)
<1> DEFINE s == [client[c] EXCEPT !.pc = "vault", !.ncn_epoch = clock_epoch]
<1>1. /\ s \in ClientState /\ s.pc = "vault" /\ s.ncn_epoch = clock_epoch
      /\ s.began = client[c].began
  BY Facts DEF ClientState, ClientPCs
<1>2. Read(c, s)
  BY DEF ReadSlot
<1> HIDE DEF s
<1>3. GoodNow(s)
  BY <1>1, Facts DEF GoodNow, Good, CallTyped, OnTrack
<1>4. QED
  BY <1>2, <1>3, ReadKeeps

LEMMA ReadVaultKeeps ==
    ASSUME IInv, NEW c \in Clients, ReadVault(c) PROVE StepOf(c)
<1> DEFINE s == [client[c] EXCEPT !.pc = "slot again", !.vault_epoch = vault_epoch]
<1>1. /\ s \in ClientState /\ s.pc = "slot again" /\ s.vault_epoch = vault_epoch
      /\ s.began = client[c].began /\ s.undisturbed = client[c].undisturbed
      /\ s.ncn_epoch = client[c].ncn_epoch
  BY Facts DEF ClientState, ClientPCs
<1>2. Read(c, s) /\ client[c].pc = "vault"
  BY DEF ReadVault
<1> HIDE DEF s
<1>3. GoodNow(s)
  BY <1>1, <1>2, Facts DEF GoodNow, Good, CallTyped, OnTrack
<1>4. QED
  BY <1>2, <1>3, ReadKeeps

LEMMA ReadSlotAgainKeeps ==
    ASSUME IInv, NEW c \in Clients, ReadSlotAgain(c) PROVE StepOf(c)
<1> DEFINE to == IF is_update_needed(client[c].vault_epoch, clock_epoch) THEN "tracker" ELSE "ok"
           s == [client[c] EXCEPT !.pc = to]
<1>1. /\ s \in ClientState /\ s.pc = to
      /\ s.began = client[c].began /\ s.undisturbed = client[c].undisturbed
      /\ s.ncn_epoch = client[c].ncn_epoch
  BY Facts DEF ClientState, ClientPCs
<1>2. Read(c, s) /\ client[c].pc = "slot again"
  BY DEF ReadSlotAgain
<1> HIDE DEF s
<1>3. GoodNow(s)
  BY <1>1, <1>2, Facts DEF GoodNow, Good, CallTyped, OnTrack, is_update_needed
<1>4. QED
  BY <1>2, <1>3, ReadKeeps

LEMMA LookForTrackerKeeps ==
    ASSUME IInv, NEW c \in Clients, LookForTracker(c) PROVE StepOf(c)
<1> DEFINE to == IF tracker[client[c].ncn_epoch] = NONE THEN "initialize" ELSE "operators"
           s == [client[c] EXCEPT !.pc = to]
<1>1. /\ s \in ClientState /\ s.pc = to
      /\ s.began = client[c].began /\ s.undisturbed = client[c].undisturbed
      /\ s.ncn_epoch = client[c].ncn_epoch
  BY Facts DEF ClientState, ClientPCs
<1>2. Read(c, s) /\ client[c].pc = "tracker"
  BY DEF LookForTracker
<1> HIDE DEF s
<1>3. GoodNow(s)
  BY <1>1, <1>2, Facts DEF GoodNow, Good, CallTyped, OnTrack
<1>4. QED
  BY <1>2, <1>3, ReadKeeps

LEMMA LookForTrackerAgainKeeps ==
    ASSUME IInv, NEW c \in Clients, LookForTrackerAgain(c) PROVE StepOf(c)
<1> DEFINE to == IF tracker[client[c].ncn_epoch] = NONE THEN "ok" ELSE "close"
           s == [client[c] EXCEPT !.pc = to]
<1>1. /\ s \in ClientState /\ s.pc = to
      /\ s.began = client[c].began /\ s.undisturbed = client[c].undisturbed
      /\ s.ncn_epoch = client[c].ncn_epoch
  BY Facts DEF ClientState, ClientPCs
<1>2. Read(c, s) /\ client[c].pc = "closing"
  BY DEF LookForTrackerAgain
<1> HIDE DEF s
<1>3. GoodNow(s)
  BY <1>1, <1>2, Facts DEF GoodNow, Good, CallTyped, OnTrack
<1>4. QED
  BY <1>2, <1>3, ReadKeeps

LEMMA SendInitializeKeeps ==
    ASSUME IInv, NEW c \in Clients, SendInitialize(c) PROVE StepOf(c)
<1> DEFINE s == [client[c] EXCEPT !.pc = "operators"]
           e == client[c].ncn_epoch
<1>1. /\ s \in ClientState /\ s.pc = "operators" /\ e \in Epochs
      /\ s.began = client[c].began /\ s.undisturbed = client[c].undisturbed
      /\ s.ncn_epoch = e
  BY Facts DEF ClientState, ClientPCs
<1>2. /\ Send(c, s, CanInitialize(e), InitializeTracker(e))
      /\ client[c].pc = "initialize"
  BY DEF SendInitialize
<1> HIDE DEF s
<1>3. CallTyped(s, clock_epoch, delegation_epoch)
  BY <1>1, Facts DEF CallTyped
<1>4. CASE ClientBecomes(c, s) /\ CanInitialize(e) /\ InitializeTracker(e)
  <2>1. VaultThen /\ Progress
    BY <1>1, <1>4, InitializeKeeps DEF IInv
  <2>2. tracker'[clock_epoch] # NONE /\ vault_epoch' = vault_epoch
        /\ delegation_epoch' = delegation_epoch
    BY <1>4, Facts DEF CanInitialize, InitializeTracker, VaultTyped, NONE, MAX
  <2>3. GoodThen(s)
    BY <1>1, <1>2, <1>3, <2>2, Facts DEF GoodThen, Good, OnTrack
  <2>4. QED
    BY <1>4, <2>1, <2>3, BecomesKeeps DEF IInv
<1>5. CASE ClientBecomes(c, s) /\ ~CanInitialize(e) /\ UNCHANGED vault
  <2>1. GoodNow(s)
    BY <1>1, <1>2, <1>3, <1>5, Facts DEF GoodNow, Good, OnTrack, CanInitialize, is_update_needed
  <2>2. QED
    BY <1>5, <2>1, VaultRests, BecomesKeeps DEF IInv
<1>6. CASE ClientBecomes(c, [s EXCEPT !.undisturbed = FALSE]) /\ UNCHANGED vault
  BY <1>3, <1>6, NotSent
<1>7. QED
  BY <1>2, <1>4, <1>5, <1>6 DEF Send

LEMMA SendCloseKeeps ==
    ASSUME IInv, NEW c \in Clients, SendClose(c) PROVE StepOf(c)
<1> DEFINE s == [client[c] EXCEPT !.pc = "ok"]
           e == client[c].ncn_epoch
<1>1. /\ s \in ClientState /\ s.pc = "ok" /\ e \in Epochs
      /\ s.began = client[c].began /\ s.undisturbed = client[c].undisturbed
  BY Facts DEF ClientState, ClientPCs
<1>2. /\ Send(c, s, CanClose(e), CloseTracker(e))
      /\ client[c].pc = "close"
  BY DEF SendClose
<1> HIDE DEF s
<1>3. CallTyped(s, clock_epoch, delegation_epoch)
  BY <1>1, Facts DEF CallTyped
<1>4. CASE ClientBecomes(c, s) /\ CanClose(e) /\ CloseTracker(e)
  <2>1. VaultThen /\ Progress
    BY <1>1, <1>4, CloseKeeps DEF IInv
  <2>2. /\ delegation_epoch' = delegation_epoch
        /\ vault_epoch' = IF e = clock_epoch THEN clock_epoch ELSE vault_epoch
    BY <1>4 DEF CloseTracker
  <2>3. ASSUME s.undisturbed, s.began = clock_epoch, vault_epoch' < clock_epoch
        PROVE  FALSE
    <3>1. vault_epoch < clock_epoch
      BY <2>2, <2>3, Facts
    <3>2. e = clock_epoch
      BY <1>1, <1>2, <2>3, <3>1, Facts DEF OnTrack
    <3>3. QED
      BY <2>2, <2>3, <3>2, Facts
  <2>4. GoodThen(s)
    BY <1>3, <2>2, <2>3 DEF GoodThen, Good, OnTrack
  <2>5. QED
    BY <1>4, <2>1, <2>4, BecomesKeeps DEF IInv
<1>5. CASE ClientBecomes(c, s) /\ ~CanClose(e) /\ UNCHANGED vault
  <2>1. ASSUME s.undisturbed, s.began = clock_epoch, vault_epoch < clock_epoch
        PROVE  FALSE
    <3>1. /\ e = clock_epoch /\ tracker[clock_epoch] # NONE
          /\ \A i \in 1 .. Len(delegation_epoch) : delegation_epoch[i] = clock_epoch
      BY <1>1, <1>2, <2>1, Facts DEF OnTrack
    <3>2. QED
      BY <1>5, <3>1 DEF CanClose, operator_count
  <2>2. GoodNow(s)
    BY <1>3, <2>1 DEF GoodNow, Good, OnTrack
  <2>3. QED
    BY <1>5, <2>2, VaultRests, BecomesKeeps DEF IInv
<1>6. CASE ClientBecomes(c, [s EXCEPT !.undisturbed = FALSE]) /\ UNCHANGED vault
  BY <1>3, <1>6, NotSent
<1>7. QED
  BY <1>2, <1>4, <1>5, <1>6 DEF Send

LEMMA ReadOperatorsKeeps ==
    ASSUME IInv, NEW c \in Clients, ReadOperators(c) PROVE StepOf(c)
<1> DEFINE n == Len(delegation_epoch)
           operators == get_all_sorted_operators_for_vault(n)
           to == IF operators = <<>> THEN "closing" ELSE "index"
           s == [client[c] EXCEPT !.operators = operators, !.sent = 0, !.pc = to]
<1>1. n \in 0 .. MAX_DELEGATIONS /\ n \in Nat /\ 0 \in 0 .. MAX_DELEGATIONS
  BY Facts, VaultUpdateAssumption
<1>2. /\ operators \in Seq(Nat) /\ Len(operators) = n
      /\ operators = <<>> <=> n = 0
  BY <1>1 DEF get_all_sorted_operators_for_vault
<1> HIDE DEF operators
<1>3. to \in ClientPCs /\ ((to = "closing" /\ n = 0) \/ (to = "index" /\ n \in 1 .. n))
  BY <1>1, <1>2 DEF ClientPCs
<1> HIDE DEF to
<1>4. /\ s \in ClientState /\ s.pc = to /\ s.operators = operators /\ s.sent = 0
      /\ s.began = client[c].began /\ s.undisturbed = client[c].undisturbed
      /\ s.ncn_epoch = client[c].ncn_epoch
  BY <1>1, <1>2, <1>3, Facts DEF ClientState
<1>5. Read(c, s) /\ client[c].pc = "operators"
  BY DEF ReadOperators, operators, to, operator_count
<1> HIDE DEF s
<1>6. CallTyped(s, clock_epoch, delegation_epoch)
  BY <1>1, <1>2, <1>3, <1>4, Facts DEF CallTyped, Listed, operators
<1>7. ASSUME s.undisturbed, s.began = clock_epoch, vault_epoch < clock_epoch
      PROVE  OnTrack(s, clock_epoch, vault_epoch, delegation_epoch, tracker)
  <2>1. s.ncn_epoch = clock_epoch /\ tracker[clock_epoch] # NONE
    BY <1>4, <1>5, <1>7, Facts DEF OnTrack
  <2>2. CASE to = "closing" /\ n = 0
    BY <1>4, <2>1, <2>2 DEF OnTrack
  <2>3. CASE to = "index"
    BY <1>2, <1>4, <2>1, <2>3 DEF OnTrack
  <2>4. QED
    BY <1>3, <2>2, <2>3
<1>8. GoodNow(s)
  BY <1>6, <1>7 DEF GoodNow, Good, OnTrack
<1>9. QED
  BY <1>5, <1>8, ReadKeeps

LEMMA ReadIndexKeeps ==
    ASSUME IInv, NEW c \in Clients, ReadIndex(c) PROVE StepOf(c)
<1> DEFINE e == client[c].ncn_epoch
           n == Len(client[c].operators)
           failed == [client[c] EXCEPT !.pc = "error"]
           next == NextIndex(e, n)
           s == [client[c] EXCEPT !.pc = "crank", !.index = next]
<1>1. /\ client[c].pc = "index" /\ client[c] \in ClientState /\ e \in Epochs
      /\ Listed(client[c], delegation_epoch) /\ n \in Nat \ {0}
  <2>1. client[c].pc = "index"
    BY DEF ReadIndex
  <2>2. client[c] \in ClientState /\ delegation_epoch \in Seq(Nat)
    BY Facts
  <2>3. Listed(client[c], delegation_epoch)
    BY <2>1 DEF IInv, GoodNow, Good, CallTyped
  <2>4. n \in 1 .. Len(delegation_epoch) /\ Len(delegation_epoch) \in Nat
    BY <2>2, <2>3, LenProperties DEF Listed
  <2>5. e \in Epochs
    BY <2>2 DEF ClientState
  <2>6. QED
    BY <2>1, <2>2, <2>3, <2>4, <2>5
<1>2. CASE tracker[e] = NONE
  <2>1. Read(c, failed)
    BY <1>2 DEF ReadIndex
  <2>2. /\ failed \in ClientState /\ failed.pc = "error" /\ failed.began = client[c].began
        /\ failed.undisturbed = client[c].undisturbed
    BY <1>1 DEF ClientState, ClientPCs
  <2> HIDE DEF failed
  <2>3. GoodNow(failed)
    BY <1>1, <1>2, <2>2, Facts DEF GoodNow, Good, CallTyped, OnTrack
  <2>4. QED
    BY <2>1, <2>3, ReadKeeps
<1>3. CASE tracker[e] # NONE
  <2>1. Read(c, s)
    BY <1>3 DEF ReadIndex
  <2>2. next \in Nat
    <3>1. tracker[e] = MAX \/ tracker[e] \in Nat
      BY <1>1, <1>3, Facts DEF VaultTyped
    <3> DEFINE from == IF tracker[e] = MAX THEN e ELSE tracker[e] + 1
    <3>2. from \in Nat
      BY <1>1, <3>1, VaultUpdateAssumption DEF Epochs
    <3>3. next = from % n
      BY DEF NextIndex
    <3> HIDE DEF from, next
    <3> HIDE DEF n
    <3>4. n \in Nat \ {0}
      BY <1>1 DEF n
    <3>5. from % n \in 0 .. n - 1
      BY <3>2, <3>4, DivMod
    <3>6. QED
      BY <3>3, <3>4, <3>5
  <2> HIDE DEF next
  <2>3. /\ s \in ClientState /\ s.pc = "crank" /\ s.index = next
        /\ s.began = client[c].began /\ s.undisturbed = client[c].undisturbed
        /\ s.ncn_epoch = e /\ s.operators = client[c].operators /\ s.sent = client[c].sent
    BY <1>1, <2>2 DEF ClientState, ClientPCs
  <2> HIDE DEF s
  <2>4. s.sent = 0
    BY <1>1, <2>3 DEF IInv, GoodNow, Good, CallTyped
  <2>5. CallTyped(s, clock_epoch, delegation_epoch)
    BY <1>1, <2>3, <2>4, Facts DEF CallTyped, Listed
  <2>6. ASSUME s.undisturbed, s.began = clock_epoch, vault_epoch < clock_epoch
        PROVE  OnTrack(s, clock_epoch, vault_epoch, delegation_epoch, tracker)
    <3>1. /\ e = clock_epoch /\ tracker[clock_epoch] # NONE /\ n = Len(delegation_epoch)
      BY <1>1, <2>3, <2>6, Facts DEF OnTrack
    <3>2. PICK k \in 0 .. Len(delegation_epoch) :
            CrankedUpTo(clock_epoch, delegation_epoch, tracker, k)
      BY <2>6, <3>1 DEF IInv, VaultNow, VaultInv
    <3>3. next = (clock_epoch + k) % Len(delegation_epoch)
      BY <1>1, <3>1, <3>2, Facts, NextIsNext DEF next
    <3>4. SentFrom(s, clock_epoch, delegation_epoch, k)
      BY <2>3, <2>4, <3>2, <3>3 DEF SentFrom, CrankedUpTo
    <3>5. QED
      BY <2>3, <3>1, <3>4 DEF OnTrack
  <2>7. GoodNow(s)
    BY <2>5, <2>6 DEF GoodNow, Good, OnTrack
  <2>8. QED
    BY <2>1, <2>7, ReadKeeps
<1>4. QED
  BY <1>2, <1>3

\* On track, a crank that does not land finds the delegation done: it is next,
\* or it was next before.
LEMMA NextOrDone ==
    ASSUME IInv, vault_epoch < clock_epoch, tracker[clock_epoch] # NONE,
           NEW s, s.sent \in Nat, NEW i, delegation_epoch # <<>>,
           NEW k \in 0 .. Len(delegation_epoch),
           SentFrom(s, clock_epoch, delegation_epoch, k),
           i = (clock_epoch + (k + s.sent)) % Len(delegation_epoch),
           ~CanCrank(clock_epoch, i)
    PROVE  delegation_epoch[i + 1] = clock_epoch
<1> DEFINE e == clock_epoch
           d == delegation_epoch
           n == Len(d)
           p == k + s.sent
<1>1. VaultTyped(e, vault_epoch, d, tracker)
  BY DEF IInv, VaultNow, VaultInv
<1>2. n \in Nat \ {0} /\ e \in Nat /\ e \in Epochs /\ vault_epoch \in Nat /\ d \in Seq(Nat)
  BY <1>1, VaultUpdateAssumption DEF VaultTyped, Epochs
<1>3. p \in Nat /\ i = (e + p) % n /\ \A j \in 0 .. n - 1 : j < p => d[((e + j) % n) + 1] = e
  <2>1. k \in Nat
    BY <1>2
  <2>2. k + s.sent \in Nat
    BY <2>1
  <2>3. QED
    BY <2>2 DEF SentFrom
<1> HIDE DEF p
<1>4. i \in 0 .. n - 1
  <2>1. e + p \in Nat
    BY <1>2, <1>3
  <2>2. QED
    BY <1>2, <1>3, <2>1, DivMod
<1>5. d[i + 1] \in vault_epoch .. e
  BY <1>1, <1>2, <1>4 DEF VaultTyped
<1>6. SUFFICES ASSUME d[i + 1] # e PROVE FALSE
  OBVIOUS
<1>7. i # NextIndex(e, n)
  BY <1>2, <1>5, <1>6 DEF CanCrank, operator_count
<1>8. PICK m \in 0 .. n : CrankedUpTo(e, d, tracker, m)
  BY DEF IInv, VaultNow, VaultInv
<1>9. NextIndex(e, n) = (e + m) % n
  BY <1>2, <1>8, NextIsNext
<1>10. m \in Nat /\ m <= n /\ \A j \in 0 .. n - 1 : d[((e + j) % n) + 1] = e <=> j < m
  BY <1>2, <1>8 DEF CrankedUpTo
<1>11. CASE p < n
  <2>1. p \in 0 .. n - 1
    BY <1>2, <1>3, <1>11
  <2>2. ~(p < m)
    BY <1>3, <1>6, <1>10, <2>1
  <2>3. p = 0 \/ p - 1 < m
    <3>1. SUFFICES ASSUME p # 0 PROVE p - 1 < m
      OBVIOUS
    <3>2. p - 1 \in 0 .. n - 1 /\ p - 1 < p
      BY <1>2, <1>3, <2>1, <3>1
    <3>3. QED
      BY <1>3, <1>10, <3>2
  <2>4. m = p
    BY <1>3, <1>10, <2>2, <2>3
  <2>5. QED
    BY <1>3, <1>7, <1>9, <2>4
<1>12. CASE p >= n
  <2>1. PICK j \in 0 .. n - 1 : (e + j) % n = i
    BY <1>2, <1>4, ModReaches
  <2>2. j < p
    BY <1>2, <1>3, <1>12
  <2>3. d[((e + j) % n) + 1] = e
    BY <1>3, <2>2
  <2>4. QED
    BY <1>6, <2>1, <2>3
<1>13. QED
  BY <1>2, <1>3, <1>11, <1>12

LEMMA SendCranksKeeps ==
    ASSUME IInv, NEW c \in Clients, SendCranks(c) PROVE StepOf(c)
<1> DEFINE was == client[c]
           n == Len(was.operators)
           i == was.operators[((was.index + was.sent) % n) + 1]
           e == was.ncn_epoch
           to == IF was.sent + 1 = n THEN "closing" ELSE "crank"
           s == [was EXCEPT !.sent = @ + 1, !.pc = to]
<1>1. /\ was.pc = "crank" /\ was \in ClientState /\ e \in Epochs
      /\ Listed(was, delegation_epoch) /\ n \in Nat \ {0}
      /\ was.index \in Nat /\ was.sent \in Nat /\ was.sent < n
      /\ was.operators = get_all_sorted_operators_for_vault(n)
      /\ Len(delegation_epoch) \in Nat /\ n <= Len(delegation_epoch)
      /\ Len(delegation_epoch) <= MAX_DELEGATIONS /\ MAX_DELEGATIONS \in Nat
  <2>1. was.pc = "crank"
    BY DEF SendCranks
  <2>2. was \in ClientState /\ delegation_epoch \in Seq(Nat) /\ Len(delegation_epoch) \in 0 .. MAX_DELEGATIONS
    BY Facts
  <2>3. Listed(was, delegation_epoch) /\ was.sent < n
    BY <2>1 DEF IInv, GoodNow, Good, CallTyped
  <2>4. e \in Epochs /\ was.index \in Nat /\ was.sent \in 0 .. MAX_DELEGATIONS
    BY <2>2 DEF ClientState
  <2>5. was.operators = get_all_sorted_operators_for_vault(n) /\ n \in 1 .. Len(delegation_epoch)
    BY <2>3 DEF Listed
  <2>6. QED
    BY <2>1, <2>2, <2>3, <2>4, <2>5, VaultUpdateAssumption
<1>2. i = (was.index + was.sent) % n /\ i \in 0 .. n - 1
  <2> DEFINE r == (was.index + was.sent) % n
  <2>1. was.index + was.sent \in Nat
    BY <1>1
  <2>2. r \in 0 .. n - 1
    BY <1>1, <2>1, DivMod
  <2> HIDE DEF r
  <2>3. was.operators[r + 1] = r
    BY <1>1, <2>2 DEF get_all_sorted_operators_for_vault
  <2>4. QED
    BY <2>2, <2>3 DEF r
<1>3. Send(c, s, CanCrank(e, i), CrankDelegation(e, i))
  BY DEF SendCranks
<1> HIDE DEF i
<1>4. to \in ClientPCs /\ was.sent + 1 \in 0 .. MAX_DELEGATIONS
  BY <1>1 DEF ClientPCs
<1> HIDE DEF to
<1>5. /\ s \in ClientState /\ s.pc = to /\ s.sent = was.sent + 1
      /\ s.began = was.began /\ s.undisturbed = was.undisturbed
      /\ s.ncn_epoch = e /\ s.operators = was.operators /\ s.index = was.index
  BY <1>1, <1>4 DEF ClientState
<1> HIDE DEF s
<1>6. \/ to = "closing" /\ was.sent + 1 = n
      \/ to = "crank" /\ was.sent + 1 < n
  BY <1>1 DEF to
<1>7. CallTyped(s, clock_epoch, delegation_epoch)
  BY <1>1, <1>5, <1>6, Facts DEF CallTyped, Listed
\* A call whose delegation is done, now or by this transaction, stays on track.
<1>8. ASSUME NEW v, NEW d, NEW t, Len(d) = n, NEW k \in 0 .. n, t[clock_epoch] # NONE,
             e = clock_epoch, SentFrom(was, clock_epoch, d, k), d[i + 1] = clock_epoch
      PROVE  OnTrack(s, clock_epoch, v, d, t)
  <2>1. clock_epoch \in Nat
    BY Facts
  <2>2. i = (clock_epoch + (k + was.sent)) % n
    <3>1. was.index = (clock_epoch + k) % n
      BY <1>8 DEF SentFrom
    <3>2. clock_epoch + k \in Nat
      BY <1>8, <2>1
    <3>3. (((clock_epoch + k) % n) + was.sent) % n = ((clock_epoch + k) + was.sent) % n
      BY <1>1, <3>2, ModAdd
    <3>4. (clock_epoch + k) + was.sent = clock_epoch + (k + was.sent)
      BY <1>1, <1>8, <2>1
    <3>5. QED
      BY <1>2, <3>1, <3>3, <3>4
  <2>3. ASSUME NEW j \in 0 .. n - 1, j < k + s.sent
        PROVE  d[((clock_epoch + j) % n) + 1] = clock_epoch
    <3>1. CASE j < k + was.sent
      BY <1>8, <2>3, <3>1 DEF SentFrom
    <3>2. CASE j = k + was.sent
      BY <1>8, <2>2, <3>2
    <3>3. was.sent \in Nat /\ k \in Nat /\ j \in Nat /\ j < k + (was.sent + 1)
      BY <1>1, <1>5, <2>3
    <3>4. j < k + was.sent \/ j = k + was.sent
      <4> DEFINE z == was.sent
      <4>1. z \in Nat /\ k \in Nat /\ j \in Nat /\ j < k + (z + 1)
        BY <3>3
      <4> HIDE DEF z
      <4>2. j < k + z \/ j = k + z
        BY <4>1
      <4>3. QED
        BY <4>2 DEF z
    <3>5. QED
      BY <3>1, <3>2, <3>4
  <2>4. SentFrom(s, clock_epoch, d, k)
    BY <1>5, <1>8, <2>3 DEF SentFrom
  <2>5. CASE to = "closing" /\ was.sent + 1 = n
    <3>1. ASSUME NEW x \in 1 .. n PROVE d[x] = clock_epoch
      <4>1. x - 1 \in 0 .. n - 1
        BY <1>1, <3>1
      <4>2. PICK j \in 0 .. n - 1 : (clock_epoch + j) % n = x - 1
        BY <1>1, <2>1, <4>1, ModReaches
      <4>3. d[((clock_epoch + j) % n) + 1] = clock_epoch
        BY <1>1, <1>5, <1>8, <2>3, <2>5
      <4>4. (x - 1) + 1 = x
        BY <3>1
      <4>5. QED
        BY <4>2, <4>3, <4>4
    <3>2. QED
      BY <1>5, <1>8, <2>5, <3>1 DEF OnTrack
  <2>6. CASE to = "crank"
    BY <1>5, <1>8, <2>4, <2>6 DEF OnTrack
  <2>7. QED
    BY <1>6, <2>5, <2>6
<1>9. CASE ClientBecomes(c, s) /\ CanCrank(e, i) /\ CrankDelegation(e, i)
  <2>1. VaultThen /\ Progress
    BY <1>1, <1>2, <1>9, CrankKeeps DEF IInv, operator_count
  <2>2. GoodThen(was)
    BY <2>1, OthersKeep DEF IInv
  <2>3. Len(delegation_epoch') = Len(delegation_epoch)
    BY <2>1 DEF Progress
  <2>4. CallTyped(s, clock_epoch, delegation_epoch')
    BY <1>7, <2>3 DEF CallTyped, Listed
  <2>5. ASSUME s.undisturbed, s.began = clock_epoch, vault_epoch' < clock_epoch
        PROVE  OnTrack(s, clock_epoch, vault_epoch', delegation_epoch', tracker')
    <3>1. /\ e = clock_epoch /\ tracker'[clock_epoch] # NONE
          /\ Len(delegation_epoch') = n
          /\ \E k \in 0 .. n : SentFrom(was, clock_epoch, delegation_epoch', k)
      BY <1>1, <1>5, <2>2, <2>5 DEF GoodThen, Good, OnTrack
    <3>2. delegation_epoch'[i + 1] = clock_epoch
      BY <1>1, <1>2, <1>9, Facts DEF CrankDelegation
    <3>3. QED
      BY <1>8, <3>1, <3>2
  <2>6. GoodThen(s)
    BY <2>4, <2>5 DEF GoodThen, Good, OnTrack
  <2>7. QED
    BY <1>9, <2>1, <2>6, BecomesKeeps DEF IInv
<1>10. CASE ClientBecomes(c, s) /\ ~CanCrank(e, i) /\ UNCHANGED vault
  <2>1. ASSUME s.undisturbed, s.began = clock_epoch, vault_epoch < clock_epoch
        PROVE  OnTrack(s, clock_epoch, vault_epoch, delegation_epoch, tracker)
    <3>1. /\ e = clock_epoch /\ tracker[clock_epoch] # NONE
          /\ Len(delegation_epoch) = n
          /\ \E k \in 0 .. n : SentFrom(was, clock_epoch, delegation_epoch, k)
      BY <1>1, <1>5, <2>1, Facts DEF OnTrack
    <3>2. PICK k \in 0 .. n : SentFrom(was, clock_epoch, delegation_epoch, k)
      BY <3>1
    <3>3. i = (clock_epoch + (k + was.sent)) % n
      <4>1. was.index = (clock_epoch + k) % n
        BY <3>1, <3>2 DEF SentFrom
      <4>2. clock_epoch \in Nat /\ clock_epoch + k \in Nat
        BY Facts
      <4>3. (((clock_epoch + k) % n) + was.sent) % n = ((clock_epoch + k) + was.sent) % n
        BY <1>1, <4>2, ModAdd
      <4>4. (clock_epoch + k) + was.sent = clock_epoch + (k + was.sent)
        BY <1>1, <4>2
      <4>5. QED
        BY <1>2, <4>1, <4>3, <4>4
    <3>4. delegation_epoch[i + 1] = clock_epoch
      <4>1. delegation_epoch # <<>>
        BY <1>1, <3>1
      <4>2. QED
        BY <1>1, <1>10, <2>1, <3>1, <3>2, <3>3, <4>1, NextOrDone
    <3>5. QED
      BY <1>8, <3>1, <3>2, <3>4
  <2>2. GoodNow(s)
    BY <1>7, <2>1 DEF GoodNow, Good, OnTrack
  <2>3. QED
    BY <1>10, <2>2, VaultRests, BecomesKeeps DEF IInv
<1>11. CASE ClientBecomes(c, [s EXCEPT !.undisturbed = FALSE]) /\ UNCHANGED vault
  BY <1>7, <1>11, NotSent
<1>12. QED
  BY <1>3, <1>9, <1>10, <1>11 DEF Send

-------------------------------------------------------------------------------
(***************************************************************************)
(* The invariant                                                           *)
(***************************************************************************)

LEMMA InitIInv == VaultUpdateInit => IInv
<1> SUFFICES ASSUME VaultUpdateInit PROVE IInv
  OBVIOUS
<1>1. 0 \in Epochs /\ 0 \in 0 .. MAX_DELEGATIONS /\ <<>> \in Seq(Nat) /\ Len(<<>>) = 0
  BY VaultUpdateAssumption DEF Epochs
<1>2. VaultNow
  BY <1>1, VaultUpdateAssumption
  DEF VaultUpdateInit, VaultNow, VaultInv, VaultTyped, Epochs, NONE
<1>3. ASSUME NEW c \in Clients PROVE client[c] \in ClientState /\ GoodNow(client[c])
  BY <1>1 DEF VaultUpdateInit, ClientState, ClientPCs, GoodNow, Good, CallTyped, OnTrack
<1>4. client \in [Clients -> ClientState]
  BY <1>3 DEF VaultUpdateInit
<1>5. QED
  BY <1>2, <1>3, <1>4 DEF IInv, VaultUpdateInit

\* With the clock every call under way belongs to an earlier epoch.
LEMMA TickKeeps ==
    ASSUME IInv, Tick PROVE IInv'
<1>1. /\ clock_epoch' = clock_epoch + 1 /\ UNCHANGED <<vault, rpc_responds, client>>
      /\ clock_epoch \in Nat /\ clock_epoch + 1 \in Epochs
      /\ VaultTyped(clock_epoch, vault_epoch, delegation_epoch, tracker)
  BY VaultUpdateAssumption DEF Tick, IInv, VaultNow, VaultInv, VaultTyped, Epochs
<1>2. VaultTyped(clock_epoch + 1, vault_epoch, delegation_epoch, tracker)
      /\ tracker[clock_epoch + 1] = NONE
      /\ \A i \in 1 .. Len(delegation_epoch) : delegation_epoch[i] < clock_epoch + 1
  BY <1>1, VaultUpdateAssumption DEF VaultTyped, Epochs
<1>3. VaultNow'
  BY <1>1, <1>2 DEF VaultNow, VaultInv, vault
<1>4. ASSUME NEW c \in Clients PROVE GoodNow(client[c])'
  <2>1. client[c] \in ClientState /\ CallTyped(client[c], clock_epoch, delegation_epoch)
    BY DEF IInv, GoodNow, Good
  <2>2. client[c].began \in Nat
    BY <2>1, VaultUpdateAssumption DEF ClientState, Epochs
  <2>3. client[c].began # clock_epoch + 1 /\ client[c].began <= clock_epoch + 1
    BY <1>1, <2>1, <2>2 DEF CallTyped
  <2>4. Good(client[c], clock_epoch + 1, vault_epoch, delegation_epoch, tracker)
    BY <2>1, <2>3 DEF Good, CallTyped, OnTrack
  <2>5. QED
    BY <1>1, <2>4 DEF GoodNow, vault
<1>5. QED
  BY <1>1, <1>3, <1>4 DEF IInv

\* The vault is up to date when a delegation is added.
LEMMA AddDelegationKeeps ==
    ASSUME IInv, AddDelegation PROVE IInv'
<1> DEFINE d == delegation_epoch
<1>1. /\ VaultTyped(clock_epoch, vault_epoch, d, tracker)
      /\ d' = Append(d, clock_epoch) /\ Len(d) < MAX_DELEGATIONS
      /\ UNCHANGED <<clock_epoch, vault_epoch, tracker, rpc_responds, client>>
  BY DEF IInv, VaultNow, VaultInv, AddDelegation, operator_count
<1>2. clock_epoch \in Nat /\ vault_epoch \in Nat /\ Len(d) \in Nat /\ vault_epoch = clock_epoch
  BY <1>1, VaultUpdateAssumption DEF VaultTyped, Epochs, AddDelegation, is_update_needed
<1>3. /\ d' \in Seq(Nat) /\ Len(d') = Len(d) + 1
      /\ \A i \in 1 .. Len(d') : d'[i] = IF i <= Len(d) THEN d[i] ELSE clock_epoch
  BY <1>1, <1>2 DEF VaultTyped
<1>4. \A i \in 1 .. Len(d') : d'[i] \in vault_epoch .. clock_epoch
  BY <1>1, <1>2, <1>3 DEF VaultTyped
<1>5. tracker \in [Epochs -> {NONE, MAX} \cup 0 .. (Len(d') - 1)]
  BY <1>1, <1>2, <1>3 DEF VaultTyped
<1>6. VaultTyped(clock_epoch, vault_epoch, d', tracker)
  BY <1>1, <1>2, <1>3, <1>4, <1>5, VaultUpdateAssumption DEF VaultTyped
<1>7. VaultNow'
  BY <1>1, <1>2, <1>6 DEF VaultNow, VaultInv
<1>8. ASSUME NEW c \in Clients PROVE GoodNow(client[c])'
  <2>1. CallTyped(client[c], clock_epoch, d)
    BY DEF IInv, GoodNow, Good
  <2>2. CallTyped(client[c], clock_epoch, d')
    BY <1>2, <1>3, <2>1 DEF CallTyped, Listed
  <2>3. ~(vault_epoch < clock_epoch)
    BY <1>2
  <2>4. Good(client[c], clock_epoch, vault_epoch, d', tracker)
    BY <2>2, <2>3 DEF Good, OnTrack
  <2>5. QED
    BY <1>1, <2>4 DEF GoodNow
<1>9. QED
  BY <1>1, <1>7, <1>8 DEF IInv

LEMMA ClientStepKeeps ==
    ASSUME IInv, NEW c \in Clients, ClientStep(c) PROVE IInv'
<1>1. StepOf(c)
  BY CallKeeps, ReadSlotKeeps, ReadVaultKeeps, ReadSlotAgainKeeps, LookForTrackerKeeps,
     SendInitializeKeeps, ReadOperatorsKeeps, ReadIndexKeeps, SendCranksKeeps,
     LookForTrackerAgainKeeps, SendCloseKeeps
  DEF ClientStep
<1>2. UNCHANGED <<clock_epoch, rpc_responds>>
  BY DEF ClientStep
<1>3. VaultNow'
  BY <1>1, <1>2 DEF StepOf, VaultThen, VaultNow
<1>4. ASSUME NEW other \in Clients PROVE GoodThen(client'[other])
  <2>1. CASE other = c
    BY <1>1, <2>1 DEF StepOf
  <2>2. CASE other # c
    <3>1. client'[other] = client[other]
      BY <1>1, <2>2 DEF StepOf
    <3>2. GoodNow(client[other]) /\ VaultNow
      BY DEF IInv
    <3>3. QED
      BY <1>1, <3>1, <3>2, OthersKeep DEF StepOf
  <2>3. QED
    BY <2>1, <2>2
<1>5. \A other \in Clients : GoodNow(client[other])'
  BY <1>2, <1>4 DEF GoodNow, GoodThen
<1>6. QED
  BY <1>1, <1>2, <1>3, <1>5 DEF IInv, StepOf

LEMMA NextIInv == IInv /\ [VaultUpdateNext]_vaultUpdateVars => IInv'
<1> SUFFICES ASSUME IInv, [VaultUpdateNext]_vaultUpdateVars PROVE IInv'
  OBVIOUS
<1>1. CASE Tick
  BY <1>1, TickKeeps
<1>2. CASE RpcRecovers
  BY <1>2 DEF RpcRecovers, vault, IInv, VaultNow, GoodNow
<1>3. CASE AddDelegation
  BY <1>3, AddDelegationKeeps
<1>4. ASSUME NEW c \in Clients, ClientStep(c) PROVE IInv'
  BY <1>4, ClientStepKeeps
<1>5. CASE UNCHANGED vaultUpdateVars
  BY <1>5 DEF vaultUpdateVars, vault, IInv, VaultNow, GoodNow
<1>6. QED
  BY <1>1, <1>2, <1>3, <1>4, <1>5 DEF VaultUpdateNext

LEMMA InvariantHolds == VaultUpdateSpec => []IInv
<1>1. VaultUpdateInit => IInv
  BY InitIInv
<1>2. IInv /\ [VaultUpdateNext]_vaultUpdateVars => IInv'
  BY NextIInv
<1>3. QED
  BY <1>1, <1>2, PTL DEF VaultUpdateSpec

\* The vault, its trackers and what clients have read keep their types: trackers
\* point at delegations, and none of the clock's epoch is left open in a vault
\* that is up to date.
THEOREM VaultUpdateIsTyped == VaultUpdateSpec => []VaultUpdateTypeOK
<1>1. IInv => VaultUpdateTypeOK
  <2> SUFFICES ASSUME IInv PROVE VaultUpdateTypeOK
    OBVIOUS
  <2>1. VaultTyped(clock_epoch, vault_epoch, delegation_epoch, tracker)
    BY DEF IInv, VaultNow, VaultInv
  <2>2. \A e \in Epochs : tracker[e] # NONE => vault_epoch < e \/ e < clock_epoch
    BY <2>1 DEF VaultTyped
  <2>3. QED
    BY <2>1, <2>2 DEF VaultUpdateTypeOK, VaultTyped, IInv, operator_count
<1>2. QED
  BY <1>1, InvariantHolds, PTL

\* One undisturbed call of full_vault_update within an epoch is enough, for any
\* number of clients that crank the same tracker.
THEOREM OneCallSuffices == VaultUpdateSpec => []OneCallIsEnough
<1>1. IInv => OneCallIsEnough
  <2> SUFFICES ASSUME IInv, NEW c \in Clients, client[c].pc \in {"ok", "error"},
                      client[c].undisturbed, client[c].began = clock_epoch
               PROVE  vault_epoch = clock_epoch
    BY DEF OneCallIsEnough
  <2>1. ~(vault_epoch < clock_epoch)
    BY Facts DEF OnTrack
  <2>2. QED
    BY <2>1, Facts
<1>2. QED
  BY <1>1, InvariantHolds, PTL
===============================================================================
