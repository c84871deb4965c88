------------------------------ MODULE Settlement -------------------------------
(***************************************************************************)
(* The gaskiller-settlement program: applications that advance one         *)
(* certified transition at a time, and the buffers in which anyone stages  *)
(* the stories the transitions refer to.                                   *)
(*                                                                         *)
(* An instruction is one action and each early return a conjunct.  The     *)
(* certificate is checked by the NCN program's verify_certificate, modelled*)
(* in Certificate; here Payloads are those whose digest operators sign at  *)
(* some time, and Settle is never forced, because a certificate may be     *)
(* refused at any time.  process_settle verifies against the NCN account   *)
(* it is passed and does not compare it with GkState::ncn, hence no NCN    *)
(* appears.  A hash is modelled as what was hashed.                        *)
(*                                                                         *)
(* A buffer account is its data: one cell per content byte, then a trailer *)
(* of two cells, the payer and the capacity (36 bytes in the program).     *)
(***************************************************************************)
EXTENDS Integers, Sequences

CONSTANTS
    Apps,                          \* settlement state PDAs
    Payers,                        \* accounts that pay for buffers
    Bytes,                         \* what a writer writes
    ZERO,                          \* the zero byte
    Roots,                         \* commitment roots
    Payloads,                      \* the payloads that get certified
    Capacities,                    \* bound: the max_size arguments
    Chunks,                        \* bound: the byte strings one call writes
    MAX_TRANSITIONS,               \* where checked_add on the count fails (u64::MAX)
    MAX_PERMITTED_DATA_INCREASE,   \* what one instruction may allocate (10,240)
    MAX_BUFFER_CONTENT_LEN,
    MAX_EVENT_CPI_DATA_LEN,
    None

BUFFER_TRAILER_LEN == 2
DISCRIMINATOR_LEN == 8
SETTLE_DISCRIMINATOR == "settle"

Transitions == 0 .. MAX_TRANSITIONS
BufferKey == Apps \X Transitions

\* What a cell of a buffer account holds.
Cells == Bytes \cup {ZERO} \cup Payers \cup Nat

GkState == [commitment_root: Roots \cup {ZERO}, transition_count: Transitions]

\* meta is the StoryMeta of a story_meta event, None for any other event.
StoryMeta == [story_sha256: Seq(Bytes \cup {ZERO}), buffer: BufferKey, len: Nat]
StoreUpdate == [kind: {"Store"}, data: Roots]
EventUpdate == [kind: {"Event"}, payload_len: Nat, meta: StoryMeta \cup {None}]

SettlementPayload ==
    [transition_index: Nat, state_pda: Apps, ix_discriminator: STRING,
     updates: Seq(StoreUpdate \cup EventUpdate)]

ASSUME SettlementAssumption ==
    /\ MAX_TRANSITIONS \in Nat
    /\ MAX_PERMITTED_DATA_INCREASE \in Nat /\ MAX_PERMITTED_DATA_INCREASE >= BUFFER_TRAILER_LEN
    /\ MAX_BUFFER_CONTENT_LEN \in Nat
    /\ MAX_EVENT_CPI_DATA_LEN \in Nat
    /\ Capacities \subseteq Nat
    /\ Chunks \subseteq Seq(Bytes)
    /\ \A p \in Payloads : p \in SettlementPayload
    /\ None \notin Apps \cup Payers \cup Roots \cup Nat \cup GkState

\* An absent account is no data and an absent buffer no buffer.
ASSUME AbsentAssumption ==
    /\ \A n \in 0 .. MAX_BUFFER_CONTENT_LEN + BUFFER_TRAILER_LEN : None \notin [1 .. n -> Cells]
    /\ \A n \in 0 .. MAX_BUFFER_CONTENT_LEN :
         None \notin [payer: Payers, capacity: Nat, content: [0 .. n - 1 -> Bytes \cup {ZERO}]]

VARIABLES
    gk_state,    \* the GkState account of each application, or None
    buffers,     \* the data of each buffer account, or None
    settled      \* the settle transactions that succeeded, by their payload

settlementVars == <<gk_state, buffers, settled>>

-------------------------------------------------------------------------------
(***************************************************************************)
(* Buffer data                                                             *)
(***************************************************************************)

Zeros(n) == [i \in 1 .. n |-> ZERO]
buffer_content_len(data) == Len(data) - BUFFER_TRAILER_LEN
Content(data) == SubSeq(data, 1, buffer_content_len(data))
RecordedPayer(data) == data[Len(data) - 1]
RecordedCapacity(data) == data[Len(data)]

write_buffer_trailer(data, payer, capacity) == Content(data) \o <<payer, capacity>>

Smaller(a, b) == IF a <= b THEN a ELSE b

\* The data of a new account: as much of the target as one call may allocate.
CreatedBuffer(payer, max_size) ==
    LET initial_total == Smaller(max_size + BUFFER_TRAILER_LEN, MAX_PERMITTED_DATA_INCREASE)
    IN  write_buffer_trailer(Zeros(initial_total), payer, max_size)

\* Mutant: the trailer's old bytes become content as they are.
GrownKeepingTrailer(data, total) ==
    write_buffer_trailer(data \o Zeros(total - Len(data)),
                         RecordedPayer(data), RecordedCapacity(data))

\* The old trailer is zeroed before the trailer is written at the new end.
GrownBuffer(data, total) ==
    write_buffer_trailer(Content(data) \o Zeros(total - buffer_content_len(data)),
                         RecordedPayer(data), RecordedCapacity(data))

\* One call grows by a bounded step, and never past the capacity.
GrownTotal(data) ==
    Smaller(Len(data) + MAX_PERMITTED_DATA_INCREASE,
            RecordedCapacity(data) + BUFFER_TRAILER_LEN)

Overwrite(data, offset, bytes) ==
    [i \in 1 .. Len(data) |->
        IF i - offset \in 1 .. Len(bytes) THEN bytes[i - offset] ELSE data[i]]

-------------------------------------------------------------------------------
SettlementTypeOK ==
    /\ \A app \in Apps :
         gk_state[app] # None => gk_state[app] \in GkState
    /\ settled \subseteq Payloads
    /\ \A k \in BufferKey :
         LET data == buffers[k]
         IN  data # None =>
               /\ Len(data) >= BUFFER_TRAILER_LEN
               /\ RecordedPayer(data) \in Payers
               /\ RecordedCapacity(data) \in 0 .. MAX_BUFFER_CONTENT_LEN
               /\ buffer_content_len(data) <= RecordedCapacity(data)
               /\ \A i \in 1 .. buffer_content_len(data) : data[i] \in Bytes \cup {ZERO}

SettlementInit ==
    /\ gk_state = [app \in Apps |-> None]
    /\ buffers = [k \in BufferKey |-> None]
    /\ settled = {}

InitializeState(app) ==
    /\ gk_state[app] = None
    /\ gk_state' = [gk_state EXCEPT ![app] = [commitment_root |-> ZERO, transition_count |-> 0]]
    /\ UNCHANGED <<buffers, settled>>

\* The buffer a write finds: the one there is, or a new one of the caller.
FoundOrCreated(k, payer, max_size) ==
    IF buffers[k] # None
    THEN {buffers[k]}
    ELSE {CreatedBuffer(payer, c) : c \in {max_size} \cap 0 .. MAX_BUFFER_CONTENT_LEN}

\* Grown when the write needs more room and one step is enough.  The runtime
\* bounds realloc by the length at the start of the instruction, so that a
\* buffer created short by this very call cannot grow in it.
WithRoom(k, data, write_end) ==
    LET original_len == IF buffers[k] = None THEN 0 ELSE Len(buffers[k])
        grown_total == GrownTotal(data)
    IN  IF write_end + BUFFER_TRAILER_LEN <= Len(data)
        THEN {data}
        ELSE {GrownBuffer(data, total) : total \in
                {t \in {grown_total} : /\ write_end + BUFFER_TRAILER_LEN <= t
                                      /\ t - original_len <= MAX_PERMITTED_DATA_INCREASE}}

\* Mutant: the transition that settled last may still be staged.
WriteBufferLate(payer, app, index, offset, bytes, max_size) ==
    /\ gk_state[app] # None
    /\ index + 1 >= gk_state[app].transition_count
    /\ \E data \in FoundOrCreated(<<app, index>>, payer, max_size) :
         /\ offset + Len(bytes) <= RecordedCapacity(data)
         /\ \E room \in WithRoom(<<app, index>>, data, offset + Len(bytes)) :
              buffers' = [buffers EXCEPT ![<<app, index>>] = Overwrite(room, offset, bytes)]
    /\ UNCHANGED <<gk_state, settled>>

\* Anyone may create a buffer, and write to one that exists.
WriteBuffer(payer, app, index, offset, bytes, max_size) ==
    /\ gk_state[app] # None
    /\ index >= gk_state[app].transition_count
    /\ \E data \in FoundOrCreated(<<app, index>>, payer, max_size) :
         /\ offset + Len(bytes) <= RecordedCapacity(data)
         /\ \E room \in WithRoom(<<app, index>>, data, offset + Len(bytes)) :
              buffers' = [buffers EXCEPT ![<<app, index>>] = Overwrite(room, offset, bytes)]
    /\ UNCHANGED <<gk_state, settled>>

Stores(p) == {j \in DOMAIN p.updates : p.updates[j].kind = "Store"}
Events(p) == {p.updates[j] : j \in {i \in DOMAIN p.updates : p.updates[i].kind = "Event"}}

\* Mutant: the whole content is hashed, not the story's length of it.
VerifiesWholeContent(p, meta) ==
    LET k == <<p.state_pda, p.transition_index>>
    IN  /\ buffers[k] # None
        /\ meta.buffer = k
        /\ meta.len <= buffer_content_len(buffers[k])
        /\ Content(buffers[k]) = meta.story_sha256

verify_story_meta(p, meta) ==
    LET k == <<p.state_pda, p.transition_index>>
    IN  /\ buffers[k] # None
        /\ meta.buffer = k
        /\ meta.len <= buffer_content_len(buffers[k])
        /\ SubSeq(buffers[k], 1, meta.len) = meta.story_sha256

EventsAreValid(p) ==
    \A e \in Events(p) :
        /\ e.payload_len + DISCRIMINATOR_LEN <= MAX_EVENT_CPI_DATA_LEN
        /\ e.meta # None => verify_story_meta(p, e.meta)

\* What is checked before anything is written.
CanSettle(p) ==
    LET s == gk_state[p.state_pda]
    IN  /\ s # None
        /\ p.ix_discriminator = SETTLE_DISCRIMINATOR
        /\ p.transition_index = s.transition_count
        /\ EventsAreValid(p)
        /\ s.transition_count < MAX_TRANSITIONS
        /\ \E j \in Stores(p) : Stores(p) = {j}

\* Mutant: the index only has to be one that was reached.
SettleAnyReached(p) ==
    LET s == gk_state[p.state_pda]
    IN  /\ s # None
        /\ p.ix_discriminator = SETTLE_DISCRIMINATOR
        /\ p.transition_index <= s.transition_count
        /\ EventsAreValid(p)
        /\ s.transition_count < MAX_TRANSITIONS
        /\ \E j \in Stores(p) :
             /\ Stores(p) = {j}
             /\ gk_state' = [gk_state EXCEPT ![p.state_pda] =
                               [commitment_root |-> p.updates[j].data,
                                transition_count |-> s.transition_count + 1]]
        /\ settled' = settled \cup {p}
        /\ UNCHANGED buffers

\* The root is written and the count moves in one transaction with the events.
Settle(p) ==
    /\ CanSettle(p)
    /\ \E j \in Stores(p) :
         gk_state' = [gk_state EXCEPT ![p.state_pda] =
                        [commitment_root |-> p.updates[j].data,
                         transition_count |-> gk_state[p.state_pda].transition_count + 1]]
    /\ settled' = settled \cup {p}
    /\ UNCHANGED buffers

CloseBuffer(payer, app, index) ==
    LET k == <<app, index>>
    IN  /\ gk_state[app] # None
        /\ buffers[k] # None
        /\ index < gk_state[app].transition_count
        /\ RecordedPayer(buffers[k]) = payer
        /\ buffers' = [buffers EXCEPT ![k] = None]
        /\ UNCHANGED <<gk_state, settled>>

SettlementNext ==
    \/ \E app \in Apps : InitializeState(app)
    \/ \E p \in Payloads : Settle(p)
    \/ \E payer \in Payers, app \in Apps, index \in Transitions :
         \/ CloseBuffer(payer, app, index)
         \/ \E offset \in 0 .. MAX_BUFFER_CONTENT_LEN, bytes \in Chunks, max_size \in Capacities :
              WriteBuffer(payer, app, index, offset, bytes, max_size)

SettlementSpec == SettlementInit /\ [][SettlementNext]_settlementVars

-------------------------------------------------------------------------------
(***************************************************************************)
(* Properties                                                              *)
(***************************************************************************)

SettledOf(app) == {p \in settled : p.state_pda = app}

\* Replay protection: whatever is certified, resubmitted or reordered, an
\* application settled exactly one payload for every index below its count and
\* none at or above it, and its root is the one the last of them stores.
SettledOnceInOrder ==
    \A app \in Apps :
        IF gk_state[app] = None
        THEN SettledOf(app) = {}
        ELSE LET count == gk_state[app].transition_count
             IN  /\ \A p \in SettledOf(app) : p.transition_index < count
                 /\ \A i \in 0 .. count - 1 : \E p \in SettledOf(app) : p.transition_index = i
                 /\ \A p, q \in SettledOf(app) : p.transition_index = q.transition_index => p = q
                 /\ \A p \in SettledOf(app) : p.transition_index = count - 1 =>
                      \E j \in Stores(p) : gk_state[app].commitment_root = p.updates[j].data

\* What operators certified and settled stays readable under its hash: from the
\* settlement on, the buffer holds the story until its payer closes it, and
\* nobody, the payer included, can stage anything else in its place.
SettledStoryIsFrozen ==
    \A p \in settled : \A e \in Events(p) :
        e.meta # None =>
            LET data == buffers[e.meta.buffer]
            IN  data # None => SubSeq(data, 1, e.meta.len) = e.meta.story_sha256

\* What the buffers promise, read off the account data.
Staged(data) ==
    IF data = None THEN None
    ELSE [payer |-> RecordedPayer(data),
          capacity |-> RecordedCapacity(data),
          content |-> [i \in 0 .. RecordedCapacity(data) - 1 |->
                         IF i < buffer_content_len(data) THEN data[i + 1] ELSE ZERO]]

Floor(s) == IF s = None THEN None ELSE s.transition_count

Buffers == INSTANCE Staging WITH
    Capacities <- 0 .. MAX_BUFFER_CONTENT_LEN,
    staged <- [k \in BufferKey |-> Staged(buffers[k])],
    floor <- [app \in Apps |-> Floor(gk_state[app])]

\* Growth in bounded steps with a moving trailer implements a plain array of
\* bytes with a fixed payer and capacity.
ImplementsStaging == Buffers!Spec
===============================================================================
