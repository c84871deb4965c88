---------------------------- MODULE PayloadProducer ----------------------------
(***************************************************************************)
(* The LLM payload producer: it turns the output of a simulation into the  *)
(* payload that operators certify and Settlement settles, and publishes it *)
(* in a fixture, a file that anybody verifies without the chain.  It keeps *)
(* no state; each run maps its arguments to a fixture or to none.          *)
(*                                                                         *)
(* As in Settlement a hash is what was hashed and the encoding of a value  *)
(* is the value: base64, hex and borsh are decoded to what was encoded, so *)
(* that a decoding and its re-encoding agree.  Stories are valid UTF-8,    *)
(* which make_fixture insists on.                                          *)
(***************************************************************************)
EXTENDS Settlement

CONSTANTS
    StoryInputs,         \* bound: the arguments of runs in story mode
    AnswerInputs,        \* bound: the arguments of runs in qwen mode
    Fixtures,            \* bound: story fixtures somebody may be handed
    MAX_ANSWER_IDS       \* 24

STORY_META_LEN == 68            \* two hashes or keys and a u32

StoryInput ==
    [story: Seq(Bytes \cup {ZERO}), new_root: Roots, transition_index: Nat, state_pda: Apps,
     ix_discriminator: STRING, buffer: BufferKey]
AnswerInput ==
    [model: Nat, prompt_ids: Seq(Nat), answer_ids: Seq(Nat), manifest: STRING,
     new_root: Roots, transition_index: Nat, state_pda: Apps, ix_discriminator: STRING]

ASSUME ProducerAssumption ==
    /\ StoryInputs \subseteq StoryInput
    /\ AnswerInputs \subseteq AnswerInput
    /\ None \notin StoryMeta
    /\ MAX_EVENT_CPI_DATA_LEN >= STORY_META_LEN + DISCRIMINATOR_LEN

QwenAnswerLen(answer) == 41 + 4 * (Len(answer.prompt_ids) + Len(answer.answer_ids))

PayloadOf(inputs, event) ==
    [transition_index |-> inputs.transition_index, state_pda |-> inputs.state_pda,
     ix_discriminator |-> inputs.ix_discriminator,
     updates |-> <<[kind |-> "Store", data |-> inputs.new_root], event>>]

-------------------------------------------------------------------------------
(***************************************************************************)
(* Story mode: the story is staged in a buffer, the event refers to it.    *)
(***************************************************************************)

build_payload(inputs) ==
    PayloadOf(inputs, [kind |-> "Event", payload_len |-> STORY_META_LEN,
                       meta |-> [story_sha256 |-> inputs.story, buffer |-> inputs.buffer,
                                 len |-> Len(inputs.story)]])

make_fixture(inputs) ==
    LET payload == build_payload(inputs)
    IN  [story_utf8 |-> inputs.story, story_sha256 |-> inputs.story,
         payload |-> payload, digest |-> payload]

\* Mutant: the event is taken as it is.
VerifiesWithoutEvent(f) ==
    /\ f.digest = f.payload
    /\ f.story_utf8 = f.story_sha256
    /\ \E j \in Stores(f.payload) : Stores(f.payload) = {j}
    /\ Events(f.payload) # {}

\* Neither the index, the application nor the buffer is checked: the file does
\* not say what they should be.
verify_fixture(f) ==
    /\ f.digest = f.payload
    /\ f.story_utf8 = f.story_sha256
    /\ \E j \in Stores(f.payload) : Stores(f.payload) = {j}
    /\ Events(f.payload) # {}
    /\ \A e \in Events(f.payload) :
         /\ e.meta # None
         /\ e.meta.story_sha256 = f.story_utf8
         /\ e.meta.len = Len(f.story_utf8)

\* The fixture is verified before it is written.
run_story(inputs) == {f \in {make_fixture(inputs)} : verify_fixture(f)}

-------------------------------------------------------------------------------
(***************************************************************************)
(* Qwen mode: the event carries the token ids of prompt and answer.        *)
(***************************************************************************)

build_qwen_payload(inputs) ==
    LET answer == [model |-> inputs.model, prompt_ids |-> inputs.prompt_ids,
                   answer_ids |-> inputs.answer_ids, manifest |-> inputs.manifest]
    IN  PayloadOf(inputs, [kind |-> "Event", payload_len |-> QwenAnswerLen(answer),
                           meta |-> None, answer |-> answer])

make_qwen_fixture(inputs) ==
    LET payload == build_qwen_payload(inputs)
    IN  [prompt_ids |-> inputs.prompt_ids, answer_ids |-> inputs.answer_ids,
         commitment_root |-> inputs.new_root, manifest |-> inputs.manifest,
         payload |-> payload, digest |-> payload]

verify_qwen_fixture(f) ==
    /\ f.digest = f.payload
    /\ \E j \in Stores(f.payload) :
         /\ Stores(f.payload) = {j}
         /\ f.payload.updates[j].data = f.commitment_root
    /\ Events(f.payload) # {}
    /\ \A e \in Events(f.payload) :
         /\ "answer" \in DOMAIN e
         /\ e.answer.prompt_ids = f.prompt_ids
         /\ e.answer.answer_ids = f.answer_ids
         /\ e.answer.manifest = f.manifest

\* The length of the answer is bounded, that of the prompt is not.
run_qwen(inputs) ==
    {f \in {make_qwen_fixture(inputs)} :
        Len(inputs.answer_ids) \in 1 .. MAX_ANSWER_IDS /\ verify_qwen_fixture(f)}

-------------------------------------------------------------------------------
(***************************************************************************)
(* Properties                                                              *)
(***************************************************************************)

IsNext(p) ==
    /\ p.ix_discriminator = SETTLE_DISCRIMINATOR
    /\ gk_state[p.state_pda] # None
    /\ p.transition_index = gk_state[p.state_pda].transition_count
    /\ p.transition_index < MAX_TRANSITIONS

\* The buffer reads as the story, whoever wrote which piece of it and in which
\* order, and whatever follows.  Zeros that end a story must have been written
\* or allocated: settle.rs:213 looks at the account, which may still be
\* shorter than its capacity.
StagedAs(k, story) ==
    LET s == Staged(buffers[k])
    IN  /\ s # None
        /\ Len(story) <= s.capacity
        /\ \A i \in 1 .. Len(story) : s.content[i - 1] = story[i]
        /\ \A i \in {Len(story)} \cap DOMAIN story :
             story[i] = ZERO => i <= buffer_content_len(buffers[k])

\* settle.rs:183, lib.rs:98: what the producer makes settles when its turn comes,
\* exactly when it names its own buffer and that reads as the story, be the
\* buffer longer than the story, grown in between, or overwritten and restored;
\* an answer settles exactly when it fits into an event.  The producer and the
\* program each compute hash, length and buffer, and neither refuses what the
\* other made.
StagedStorySettles ==
    /\ \A inputs \in StoryInputs : \A f \in run_story(inputs) : IsNext(f.payload) =>
         ((/\ inputs.buffer = <<inputs.state_pda, inputs.transition_index>>
           /\ StagedAs(inputs.buffer, inputs.story)) <=> CanSettle(f.payload))
    /\ \A inputs \in AnswerInputs : \A f \in run_qwen(inputs) : IsNext(f.payload) =>
         ((\A e \in Events(f.payload) :
             e.payload_len + DISCRIMINATOR_LEN <= MAX_EVENT_CPI_DATA_LEN)
          <=> CanSettle(f.payload))

\* lib.rs:180: who verifies a fixture of a payload that settled reads the story
\* the committee settled: the text in the file is the text in the buffer, for as
\* long as there is one, although verifying takes no look at the chain.
VerifiedTextIsStaged ==
    \A f \in Fixtures :
        f.payload \in settled /\ verify_fixture(f) =>
            LET data == buffers[<<f.payload.state_pda, f.payload.transition_index>>]
            IN  data # None => SubSeq(data, 1, Len(f.story_utf8)) = f.story_utf8
===============================================================================
