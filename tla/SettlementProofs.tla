--------------------------- MODULE SettlementProofs ----------------------------
(***************************************************************************)
(* Proofs about Settlement, for any applications, payers, payloads, chunks *)
(* and bounds: that what settles settles once and stays, that fixtures     *)
(* which verify show it, and that the account data of buffers implement    *)
(* Staging.                                                                *)
(***************************************************************************)
EXTENDS PayloadProducer, TLAPS

\* The accounts there are.  A step's EXCEPT says nothing without the domains.
AccountsOK ==
    /\ DOMAIN gk_state = Apps
    /\ DOMAIN buffers = BufferKey
    /\ \A app \in Apps : gk_state[app] # None => gk_state[app] \in GkState
    /\ settled \subseteq Payloads

\* A payload that settled is behind the count, and its stories are in the buffer
\* of its own application and index: there no write is accepted any more.
SettledIsBehind ==
    \A p \in settled :
        /\ gk_state[p.state_pda] # None
        /\ p.transition_index < gk_state[p.state_pda].transition_count
        /\ \A e \in Events(p) :
             e.meta # None => e.meta.buffer = <<p.state_pda, p.transition_index>>

SettlementInv == AccountsOK /\ SettledOnceInOrder /\ SettledIsBehind /\ SettledStoryIsFrozen

-------------------------------------------------------------------------------
LEMMA PayloadTyped ==
    ASSUME NEW p \in Payloads
    PROVE  /\ p.state_pda \in Apps
           /\ p.transition_index \in Nat
           /\ DOMAIN p.updates \subseteq Nat
           /\ \A j \in Stores(p) : p.updates[j].data \in Roots
<1>1. p \in SettlementPayload
  BY SettlementAssumption
<1>2. p.updates \in Seq(StoreUpdate \cup EventUpdate)
  BY <1>1 DEF SettlementPayload
<1>3. \A j \in DOMAIN p.updates : p.updates[j] \in StoreUpdate \cup EventUpdate
  BY <1>2
<1>4. QED
  BY <1>1, <1>2, <1>3 DEF SettlementPayload, Stores, StoreUpdate, EventUpdate

\* A settled payload's application, before and after.
LEMMA SettleEffect ==
    ASSUME AccountsOK, NEW p \in Payloads, Settle(p)
    PROVE  LET a == p.state_pda
               count == gk_state[a].transition_count
           IN  /\ a \in Apps
               /\ gk_state[a] # None
               /\ count \in Nat
               /\ p.transition_index = count
               /\ gk_state'[a] \in GkState
               /\ gk_state'[a].transition_count = count + 1
               /\ \E j \in Stores(p) : gk_state'[a].commitment_root = p.updates[j].data
               /\ \A app \in Apps \ {a} : gk_state'[app] = gk_state[app]
               /\ DOMAIN gk_state' = Apps
<1> DEFINE a == p.state_pda
           s == gk_state[a]
<1>1. a \in Apps /\ s # None /\ s \in GkState
  BY PayloadTyped DEF Settle, CanSettle, AccountsOK
<1>2. /\ s.transition_count \in Nat
      /\ s.transition_count < MAX_TRANSITIONS
      /\ s.transition_count + 1 \in Transitions
  BY <1>1, SettlementAssumption DEF Settle, CanSettle, GkState, Transitions
<1>3. PICK j \in Stores(p) :
        gk_state' = [gk_state EXCEPT ![a] = [commitment_root |-> p.updates[j].data,
                                             transition_count |-> s.transition_count + 1]]
  BY DEF Settle, CanSettle
<1>4. gk_state'[a] = [commitment_root |-> p.updates[j].data,
                      transition_count |-> s.transition_count + 1]
  BY <1>1, <1>3 DEF AccountsOK
<1>5. p.updates[j].data \in Roots
  BY PayloadTyped
<1>6. gk_state'[a] \in GkState
  BY <1>2, <1>4, <1>5 DEF GkState
<1>7. /\ \A app \in Apps \ {a} : gk_state'[app] = gk_state[app]
      /\ DOMAIN gk_state' = Apps
  BY <1>3 DEF AccountsOK
<1>8. p.transition_index = s.transition_count
  BY DEF Settle, CanSettle
<1>9. QED
  BY <1>1, <1>2, <1>4, <1>6, <1>7, <1>8

\* A write goes to the buffer of an index that has not settled.
LEMMA WriteEffect ==
    ASSUME AccountsOK,
           NEW payer, NEW app \in Apps, NEW index \in Transitions, NEW offset, NEW bytes, NEW max_size,
           WriteBuffer(payer, app, index, offset, bytes, max_size)
    PROVE  /\ gk_state[app] # None
           /\ index >= gk_state[app].transition_count
           /\ UNCHANGED <<gk_state, settled>>
           /\ DOMAIN buffers' = BufferKey
           /\ \A k \in BufferKey : k # <<app, index>> => buffers'[k] = buffers[k]
<1>1. PICK data : buffers' = [buffers EXCEPT ![<<app, index>>] = data]
  BY DEF WriteBuffer
<1>2. QED
  BY <1>1 DEF WriteBuffer, AccountsOK

-------------------------------------------------------------------------------
(***************************************************************************)
(* The four parts of the invariant                                         *)
(***************************************************************************)

\* The instructions that settle nothing and change no count.
Keeps == UNCHANGED <<gk_state, settled>>

LEMMA StartEffect ==
    ASSUME AccountsOK, NEW app \in Apps, InitializeState(app)
    PROVE  /\ gk_state'[app] \in GkState
           /\ gk_state'[app].transition_count = 0
           /\ \A other \in Apps \ {app} : gk_state'[other] = gk_state[other]
           /\ DOMAIN gk_state' = Apps
BY SettlementAssumption DEF InitializeState, AccountsOK, GkState, Transitions

LEMMA CloseEffect ==
    ASSUME AccountsOK, NEW payer, NEW app \in Apps, NEW index \in Transitions,
           CloseBuffer(payer, app, index)
    PROVE  /\ Keeps
           /\ DOMAIN buffers' = BufferKey
           /\ \A k \in BufferKey : buffers'[k] = None \/ buffers'[k] = buffers[k]
BY DEF CloseBuffer, Keeps, AccountsOK, BufferKey

\* A step settles, starts an application, writes a buffer, closes one, or does
\* nothing.
LEMMA SettlementSteps ==
    ASSUME [SettlementNext]_settlementVars
    PROVE  \/ \E p \in Payloads : Settle(p)
           \/ \E app \in Apps : InitializeState(app)
           \/ \E payer \in Payers, app \in Apps, index \in Transitions,
                 offset \in 0 .. MAX_BUFFER_CONTENT_LEN, bytes \in Chunks, max_size \in Capacities :
                   WriteBuffer(payer, app, index, offset, bytes, max_size)
           \/ \E payer \in Payers, app \in Apps, index \in Transitions :
                   CloseBuffer(payer, app, index)
           \/ UNCHANGED settlementVars
BY DEF SettlementNext

LEMMA AccountsStep ==
    ASSUME AccountsOK, [SettlementNext]_settlementVars
    PROVE  AccountsOK'
<1>1. ASSUME NEW p \in Payloads, Settle(p)
      PROVE  AccountsOK'
  BY <1>1, SettleEffect DEF AccountsOK, Settle, CanSettle
<1>2. ASSUME NEW app \in Apps, InitializeState(app)
      PROVE  AccountsOK'
  BY <1>2, StartEffect DEF AccountsOK, InitializeState
<1>3. ASSUME NEW payer \in Payers, NEW app \in Apps, NEW index \in Transitions,
             NEW offset \in 0 .. MAX_BUFFER_CONTENT_LEN, NEW bytes \in Chunks, NEW max_size \in Capacities,
             WriteBuffer(payer, app, index, offset, bytes, max_size)
      PROVE  AccountsOK'
  BY <1>3, WriteEffect DEF AccountsOK
<1>4. ASSUME NEW payer \in Payers, NEW app \in Apps, NEW index \in Transitions,
             CloseBuffer(payer, app, index)
      PROVE  AccountsOK'
  BY <1>4, CloseEffect DEF AccountsOK, Keeps
<1>5. CASE UNCHANGED settlementVars
  BY <1>5 DEF settlementVars, AccountsOK
<1>6. QED
  BY <1>1, <1>2, <1>3, <1>4, <1>5, SettlementSteps

-------------------------------------------------------------------------------
(***************************************************************************)
(* Every index settles once, in order                                      *)
(***************************************************************************)

\* SettledOnceInOrder for one application.
InOrder(app) ==
    IF gk_state[app] = None
    THEN SettledOf(app) = {}
    ELSE LET count == gk_state[app].transition_count
         IN  /\ \A p \in SettledOf(app) : p.transition_index < count
             /\ \A i \in 0 .. count - 1 : \E p \in SettledOf(app) : p.transition_index = i
             /\ \A p, q \in SettledOf(app) : p.transition_index = q.transition_index => p = q
             /\ \A p \in SettledOf(app) : p.transition_index = count - 1 =>
                  \E j \in Stores(p) : gk_state[app].commitment_root = p.updates[j].data

LEMMA InOrderParts == SettledOnceInOrder <=> \A app \in Apps : InOrder(app)
BY DEF SettledOnceInOrder, InOrder

\* The index is the count: the only one that has not settled and the next one.
LEMMA SettleKeepsOrder ==
    ASSUME AccountsOK, SettledOnceInOrder, NEW p \in Payloads, Settle(p)
    PROVE  SettledOnceInOrder'
<1> DEFINE a == p.state_pda
           count == gk_state[a].transition_count
<1>1. /\ a \in Apps /\ gk_state[a] # None /\ count \in Nat
      /\ p.transition_index = count
      /\ gk_state'[a] # None
      /\ gk_state'[a].transition_count = count + 1
      /\ \E j \in Stores(p) : gk_state'[a].commitment_root = p.updates[j].data
      /\ \A app \in Apps \ {a} : gk_state'[app] = gk_state[app]
  <2>1. gk_state'[a] \in GkState /\ gk_state'[a].transition_count = count + 1
    BY SettleEffect
  <2>2. gk_state'[a] # None
    BY <2>1, SettlementAssumption
  <2>3. QED
    BY <2>1, <2>2, SettleEffect
<1>2. /\ SettledOf(a)' = SettledOf(a) \cup {p}
      /\ \A app \in Apps \ {a} : SettledOf(app)' = SettledOf(app)
  BY DEF Settle, CanSettle, SettledOf
<1>3. InOrder(a)
  BY <1>1, InOrderParts
<1>4. \A q \in SettledOf(a) : q.transition_index \in Nat
  BY PayloadTyped DEF AccountsOK, SettledOf
<1>5. InOrder(a)'
  <2>1. \A q \in SettledOf(a)' : q.transition_index < count + 1
    BY <1>1, <1>2, <1>3, <1>4 DEF InOrder
  <2>2. \A i \in 0 .. count : \E q \in SettledOf(a)' : q.transition_index = i
    <3>1. TAKE i \in 0 .. count
    <3>2. CASE i = count
      BY <1>1, <1>2, <3>2
    <3>3. CASE i # count
      <4>1. i \in 0 .. count - 1
        BY <1>1, <3>3
      <4>2. QED
        BY <1>1, <1>2, <1>3, <4>1 DEF InOrder
    <3>4. QED
      BY <3>2, <3>3
  <2>3. \A q, r \in SettledOf(a)' : q.transition_index = r.transition_index => q = r
    BY <1>1, <1>2, <1>3, <1>4 DEF InOrder
  <2>4. \A q \in SettledOf(a)' : q.transition_index = count => q = p
    BY <1>1, <1>2, <1>3, <1>4 DEF InOrder
  <2>5. QED
    BY <1>1, <2>1, <2>2, <2>3, <2>4 DEF InOrder, Stores
<1>6. \A app \in Apps \ {a} : InOrder(app)'
  BY <1>1, <1>2, InOrderParts DEF InOrder, Stores
<1>7. (\A app \in Apps : InOrder(app))'
  BY <1>5, <1>6
<1>8. QED
  BY <1>7 DEF SettledOnceInOrder, InOrder

-------------------------------------------------------------------------------
(***************************************************************************)
(* The story that settled stays                                            *)
(***************************************************************************)

\* What settles is behind the count from then on, with its story where the
\* certificate says.
LEMMA SettleKeepsBehind ==
    ASSUME AccountsOK, SettledIsBehind, NEW p \in Payloads, Settle(p)
    PROVE  SettledIsBehind'
<1> DEFINE a == p.state_pda
           count == gk_state[a].transition_count
<1>1. /\ a \in Apps /\ count \in Nat /\ p.transition_index = count
      /\ gk_state'[a] \in GkState /\ gk_state'[a].transition_count = count + 1
      /\ \A app \in Apps \ {a} : gk_state'[app] = gk_state[app]
  BY SettleEffect
<1>2. gk_state'[a] # None
  BY <1>1, SettlementAssumption
<1>3. \A e \in Events(p) : e.meta # None => e.meta.buffer = <<a, p.transition_index>>
  BY DEF Settle, CanSettle, EventsAreValid, verify_story_meta
<1>4. ASSUME NEW q \in settled
      PROVE  /\ gk_state'[q.state_pda] # None
             /\ q.transition_index < gk_state'[q.state_pda].transition_count
             /\ \A e \in Events(q) :
                  e.meta # None => e.meta.buffer = <<q.state_pda, q.transition_index>>
  <2>1. /\ q.state_pda \in Apps /\ q.transition_index \in Nat
        /\ gk_state[q.state_pda] # None
        /\ q.transition_index < gk_state[q.state_pda].transition_count
    BY <1>4, PayloadTyped DEF AccountsOK, SettledIsBehind
  <2>2. CASE q.state_pda = a
    BY <1>1, <1>2, <2>1, <2>2 DEF SettledIsBehind
  <2>3. CASE q.state_pda # a
    BY <1>1, <2>1, <2>3 DEF SettledIsBehind
  <2>4. QED
    BY <2>2, <2>3
<1>5. settled' = settled \cup {p}
  BY DEF Settle, CanSettle
<1>6. p.transition_index < gk_state'[a].transition_count
  BY <1>1
<1>7. QED
  BY <1>2, <1>3, <1>4, <1>5, <1>6 DEF SettledIsBehind, Events

\* A settled payload's stories are in a buffer of its index.
LEMMA StoryBuffer ==
    ASSUME AccountsOK, SettledIsBehind,
           NEW p \in settled, NEW e \in Events(p), e.meta # None
    PROVE  /\ e.meta.buffer = <<p.state_pda, p.transition_index>>
           /\ e.meta.buffer \in BufferKey
           /\ p.transition_index < gk_state[p.state_pda].transition_count
           /\ gk_state[p.state_pda].transition_count \in Nat
<1>1. /\ p.state_pda \in Apps /\ p.transition_index \in Nat
      /\ gk_state[p.state_pda] \in GkState
      /\ p.transition_index < gk_state[p.state_pda].transition_count
      /\ e.meta.buffer = <<p.state_pda, p.transition_index>>
  BY PayloadTyped DEF AccountsOK, SettledIsBehind
<1>2. /\ gk_state[p.state_pda].transition_count \in Nat
      /\ p.transition_index \in Transitions
  BY <1>1, SettlementAssumption DEF GkState, Transitions
<1>3. QED
  BY <1>1, <1>2 DEF BufferKey

\* Settling reads the story it commits to, and touches no buffer.
LEMMA SettleKeepsStories ==
    ASSUME SettledStoryIsFrozen, NEW p \in Payloads, Settle(p)
    PROVE  SettledStoryIsFrozen'
<1>1. settled' = settled \cup {p} /\ buffers' = buffers
  BY DEF Settle, CanSettle
<1>2. \A e \in Events(p) : e.meta # None =>
        SubSeq(buffers[e.meta.buffer], 1, e.meta.len) = e.meta.story_sha256
  BY DEF Settle, CanSettle, EventsAreValid, verify_story_meta
<1>3. QED
  BY <1>1, <1>2 DEF SettledStoryIsFrozen, Events

\* A write is for an index that has not settled, so it is for another buffer.
LEMMA WriteKeepsStories ==
    ASSUME AccountsOK, SettledIsBehind, SettledStoryIsFrozen,
           NEW payer, NEW app \in Apps, NEW index \in Transitions, NEW offset, NEW bytes, NEW max_size,
           WriteBuffer(payer, app, index, offset, bytes, max_size)
    PROVE  SettledStoryIsFrozen'
<1>1. /\ index >= gk_state[app].transition_count
      /\ settled' = settled
      /\ \A k \in BufferKey : k # <<app, index>> => buffers'[k] = buffers[k]
  BY WriteEffect
<1>2. ASSUME NEW p \in settled, NEW e \in Events(p), e.meta # None
      PROVE  buffers'[e.meta.buffer] = buffers[e.meta.buffer]
  <2>1. /\ e.meta.buffer = <<p.state_pda, p.transition_index>>
        /\ e.meta.buffer \in BufferKey
        /\ p.transition_index < gk_state[p.state_pda].transition_count
        /\ gk_state[p.state_pda].transition_count \in Nat
        /\ p.transition_index \in Nat
    BY <1>2, StoryBuffer, PayloadTyped DEF AccountsOK
  <2>2. index \in Nat
    BY SettlementAssumption DEF Transitions
  <2>3. e.meta.buffer # <<app, index>>
    BY <1>1, <2>1, <2>2
  <2>4. QED
    BY <1>1, <2>1, <2>3
<1>3. QED
  BY <1>1, <1>2 DEF SettledStoryIsFrozen, Events

LEMMA CloseKeepsStories ==
    ASSUME AccountsOK, SettledIsBehind, SettledStoryIsFrozen,
           NEW payer, NEW app \in Apps, NEW index \in Transitions,
           CloseBuffer(payer, app, index)
    PROVE  SettledStoryIsFrozen'
<1>1. settled' = settled /\ \A k \in BufferKey : buffers'[k] = None \/ buffers'[k] = buffers[k]
  BY CloseEffect DEF Keeps
<1>2. \A p \in settled : \A e \in Events(p) : e.meta # None => e.meta.buffer \in BufferKey
  BY StoryBuffer
<1>3. QED
  BY <1>1, <1>2 DEF SettledStoryIsFrozen, Events

-------------------------------------------------------------------------------
(***************************************************************************)
(* The invariant                                                           *)
(***************************************************************************)

LEMMA KeepsOrderAndBehind ==
    ASSUME SettledOnceInOrder, SettledIsBehind, Keeps
    PROVE  SettledOnceInOrder' /\ SettledIsBehind'
BY DEF SettledOnceInOrder, SettledIsBehind, Keeps, SettledOf, Stores, Events

LEMMA StartKeepsInv ==
    ASSUME SettlementInv, NEW app \in Apps, InitializeState(app)
    PROVE  SettledOnceInOrder' /\ SettledIsBehind' /\ SettledStoryIsFrozen'
<1>1. /\ AccountsOK /\ SettledIsBehind /\ SettledStoryIsFrozen
      /\ \A other \in Apps : InOrder(other)
  BY InOrderParts DEF SettlementInv
<1>2. /\ gk_state'[app] \in GkState /\ gk_state'[app].transition_count = 0
      /\ \A other \in Apps \ {app} : gk_state'[other] = gk_state[other]
  BY <1>1, StartEffect
<1>3. settled' = settled /\ buffers' = buffers /\ gk_state[app] = None
  BY DEF InitializeState
<1>4. SettledOf(app) = {}
  BY <1>1, <1>3 DEF InOrder
<1>5. SettledOnceInOrder'
  <2>1. InOrder(app)'
    BY <1>2, <1>3, <1>4, SettlementAssumption DEF InOrder, SettledOf
  <2>2. \A other \in Apps \ {app} : InOrder(other)'
    BY <1>1, <1>2, <1>3 DEF InOrder, SettledOf, Stores
  <2>3. (\A other \in Apps : InOrder(other))'
    BY <2>1, <2>2
  <2>4. QED
    BY <2>3 DEF SettledOnceInOrder, InOrder
<1>6. SettledIsBehind'
  <2>1. \A p \in settled : p.state_pda \in Apps \ {app}
    BY <1>1, <1>3, PayloadTyped DEF AccountsOK, SettledIsBehind
  <2>2. QED
    BY <1>1, <1>2, <1>3, <2>1 DEF SettledIsBehind, Events
<1>7. QED
  BY <1>1, <1>3, <1>5, <1>6 DEF SettledStoryIsFrozen, Events

LEMMA SettlementInductive == SettlementSpec => []SettlementInv
<1>1. SettlementInit => SettlementInv
  BY DEF SettlementInit, SettlementInv, AccountsOK, SettledOnceInOrder, SettledIsBehind,
         SettledStoryIsFrozen, SettledOf
<1>2. SettlementInv /\ [SettlementNext]_settlementVars => SettlementInv'
  <2> SUFFICES ASSUME SettlementInv, [SettlementNext]_settlementVars
               PROVE  SettledOnceInOrder' /\ SettledIsBehind' /\ SettledStoryIsFrozen'
    BY AccountsStep DEF SettlementInv
  <2>1. AccountsOK /\ SettledOnceInOrder /\ SettledIsBehind /\ SettledStoryIsFrozen
    BY DEF SettlementInv
  <2>2. ASSUME NEW p \in Payloads, Settle(p)
        PROVE  SettledOnceInOrder' /\ SettledIsBehind' /\ SettledStoryIsFrozen'
    BY <2>1, <2>2, SettleKeepsOrder, SettleKeepsBehind, SettleKeepsStories
  <2>3. ASSUME NEW app \in Apps, InitializeState(app)
        PROVE  SettledOnceInOrder' /\ SettledIsBehind' /\ SettledStoryIsFrozen'
    BY <2>3, StartKeepsInv
  <2>4. ASSUME NEW payer \in Payers, NEW app \in Apps, NEW index \in Transitions,
               NEW offset \in 0 .. MAX_BUFFER_CONTENT_LEN, NEW bytes \in Chunks, NEW max_size \in Capacities,
               WriteBuffer(payer, app, index, offset, bytes, max_size)
        PROVE  SettledOnceInOrder' /\ SettledIsBehind' /\ SettledStoryIsFrozen'
    <3>1. Keeps
      BY <2>1, <2>4, WriteEffect DEF Keeps
    <3>2. QED
      BY <2>1, <2>4, <3>1, KeepsOrderAndBehind, WriteKeepsStories
  <2>5. ASSUME NEW payer \in Payers, NEW app \in Apps, NEW index \in Transitions,
               CloseBuffer(payer, app, index)
        PROVE  SettledOnceInOrder' /\ SettledIsBehind' /\ SettledStoryIsFrozen'
    <3>1. Keeps
      BY <2>1, <2>5, CloseEffect
    <3>2. QED
      BY <2>1, <2>5, <3>1, KeepsOrderAndBehind, CloseKeepsStories
  <2>6. CASE UNCHANGED settlementVars
    <3>1. Keeps
      BY <2>6 DEF settlementVars, Keeps
    <3>2. SettledStoryIsFrozen'
      BY <2>1, <2>6 DEF settlementVars, SettledStoryIsFrozen, Events
    <3>3. QED
      BY <2>1, <3>1, <3>2, KeepsOrderAndBehind
  <2>7. QED
    BY <2>2, <2>3, <2>4, <2>5, <2>6, SettlementSteps
<1>3. QED
  BY <1>1, <1>2, PTL DEF SettlementSpec

\* Replay protection for any number of applications, payloads and certificates:
\* process_settle settles every index once, in order, and the root is that of the
\* last one.
THEOREM SettledOnce == SettlementSpec => []SettledOnceInOrder
<1>1. SettlementInv => SettledOnceInOrder
  BY DEF SettlementInv
<1>2. QED
  BY <1>1, SettlementInductive, PTL

\* The floor of process_write_buffer and the index check of process_settle
\* together freeze what settled, however buffers are created, grown and written.
THEOREM StoryFrozen == SettlementSpec => []SettledStoryIsFrozen
<1>1. SettlementInv => SettledStoryIsFrozen
  BY DEF SettlementInv
<1>2. QED
  BY <1>1, SettlementInductive, PTL

\* A fixture that verifies shows the text that settled, whoever made it: the
\* event it repeats is the one whose story the floor keeps in the buffer.
THEOREM VerifiedTextHolds == SettlementSpec => []VerifiedTextIsStaged
<1>1. ASSUME SettlementInv
      PROVE  VerifiedTextIsStaged
  <2> SUFFICES ASSUME NEW f \in Fixtures, f.payload \in settled, verify_fixture(f),
                      buffers[<<f.payload.state_pda, f.payload.transition_index>>] # None
               PROVE  SubSeq(buffers[<<f.payload.state_pda, f.payload.transition_index>>],
                             1, Len(f.story_utf8)) = f.story_utf8
    BY DEF VerifiedTextIsStaged
  <2>1. PICK e \in Events(f.payload) : TRUE
    BY DEF verify_fixture
  <2>2. e.meta # None /\ e.meta.story_sha256 = f.story_utf8 /\ e.meta.len = Len(f.story_utf8)
    BY <2>1 DEF verify_fixture
  <2>3. e.meta.buffer = <<f.payload.state_pda, f.payload.transition_index>>
    BY <1>1, <2>1, <2>2 DEF SettlementInv, SettledIsBehind
  <2>4. SubSeq(buffers[e.meta.buffer], 1, e.meta.len) = e.meta.story_sha256
    BY <1>1, <2>1, <2>2, <2>3 DEF SettlementInv, SettledStoryIsFrozen
  <2>5. QED
    BY <2>2, <2>3, <2>4
<1>2. QED
  BY <1>1, SettlementInductive, PTL

-------------------------------------------------------------------------------
(***************************************************************************)
(* Buffer data                                                             *)
(***************************************************************************)

\* What a concatenation holds, stated away from the names of this module.
LEMMA Concatenated ==
    ASSUME NEW S, NEW c \in Seq(S), NEW z \in Seq(S)
    PROVE  /\ c \o z \in Seq(S) /\ Len(c \o z) = Len(c) + Len(z)
           /\ \A i \in 1 .. Len(c) + Len(z) :
                (c \o z)[i] = IF i <= Len(c) THEN c[i] ELSE z[i - Len(c)]
OBVIOUS

IsBuffer(data) ==
    /\ data \in Seq(Cells)
    /\ Len(data) >= BUFFER_TRAILER_LEN
    /\ RecordedPayer(data) \in Payers
    /\ RecordedCapacity(data) \in 0 .. MAX_BUFFER_CONTENT_LEN
    /\ buffer_content_len(data) <= RecordedCapacity(data)
    /\ \A i \in 1 .. buffer_content_len(data) : data[i] \in Bytes \cup {ZERO}

\* The trailer goes to the last two cells, and the content stays.
LEMMA TrailerWritten ==
    ASSUME NEW x \in Seq(Cells), Len(x) >= BUFFER_TRAILER_LEN, NEW payer \in Payers,
           NEW capacity \in 0 .. MAX_BUFFER_CONTENT_LEN, buffer_content_len(x) <= capacity,
           \A i \in 1 .. buffer_content_len(x) : x[i] \in Bytes \cup {ZERO},
           NEW y, y = write_buffer_trailer(x, payer, capacity)
    PROVE  /\ IsBuffer(y)
           /\ Len(y) = Len(x)
           /\ RecordedPayer(y) = payer
           /\ RecordedCapacity(y) = capacity
           /\ \A i \in 1 .. buffer_content_len(x) : y[i] = x[i]
<1> DEFINE n == buffer_content_len(x)
           trailer == <<payer, capacity>>
<1>1. n \in Nat /\ n + 2 = Len(x) /\ Len(x) \in Nat
  BY DEF buffer_content_len, BUFFER_TRAILER_LEN
<1>2. capacity \in Nat
  BY SettlementAssumption
<1>3. /\ Content(x) \in Seq(Cells) /\ Len(Content(x)) = n
      /\ \A i \in 1 .. n : Content(x)[i] = x[i]
  BY <1>1 DEF Content
<1>4. trailer \in Seq(Cells) /\ Len(trailer) = 2 /\ trailer[1] = payer /\ trailer[2] = capacity
  <2>1. payer \in Cells /\ capacity \in Cells
    BY <1>2 DEF Cells
  <2>2. QED
    BY <2>1
<1> HIDE DEF n, trailer
<1>5. /\ y \in Seq(Cells) /\ Len(y) = n + 2
      /\ \A i \in 1 .. n + 2 : y[i] = IF i <= n THEN Content(x)[i] ELSE trailer[i - n]
  BY <1>1, <1>3, <1>4 DEF write_buffer_trailer, trailer
<1>6. /\ y[n + 1] = payer /\ y[n + 2] = capacity
      /\ \A i \in 1 .. n : y[i] = x[i]
  BY <1>1, <1>3, <1>4, <1>5
<1>7. RecordedPayer(y) = payer /\ RecordedCapacity(y) = capacity /\ buffer_content_len(y) = n
  <2>1. Len(y) - 1 = n + 1
    BY <1>1, <1>5
  <2>2. QED
    BY <1>1, <1>5, <1>6, <2>1 DEF RecordedPayer, RecordedCapacity, buffer_content_len, BUFFER_TRAILER_LEN
<1>8. QED
  BY <1>1, <1>2, <1>5, <1>6, <1>7 DEF IsBuffer, n, BUFFER_TRAILER_LEN

LEMMA ZerosAreZero ==
    ASSUME NEW n \in Nat
    PROVE  Zeros(n) \in Seq(Cells) /\ Len(Zeros(n)) = n /\ \A i \in 1 .. n : Zeros(n)[i] = ZERO
BY DEF Zeros, Cells

\* A new buffer is what its creator asked for, however much of it is allocated.
LEMMA CreatedIsOpened ==
    ASSUME NEW payer \in Payers, NEW max_size \in 0 .. MAX_BUFFER_CONTENT_LEN,
           NEW y, y = CreatedBuffer(payer, max_size)
    PROVE  /\ IsBuffer(y)
           /\ RecordedPayer(y) = payer /\ RecordedCapacity(y) = max_size
           /\ \A i \in 1 .. buffer_content_len(y) : y[i] = ZERO
<1> DEFINE n == Smaller(max_size + BUFFER_TRAILER_LEN, MAX_PERMITTED_DATA_INCREASE)
           x == Zeros(n)
<1>1. n \in Nat /\ n >= 2 /\ n - 2 <= max_size
  BY SettlementAssumption DEF Smaller, BUFFER_TRAILER_LEN
<1> HIDE DEF n
<1>2. x \in Seq(Cells) /\ Len(x) = n /\ \A i \in 1 .. n : x[i] = ZERO
  BY <1>1, ZerosAreZero
<1> HIDE DEF x
<1>3. y = write_buffer_trailer(x, payer, max_size)
  BY DEF CreatedBuffer, n, x
<1>4. Len(x) >= BUFFER_TRAILER_LEN /\ buffer_content_len(x) = n - 2
      /\ \A i \in 1 .. buffer_content_len(x) : x[i] \in Bytes \cup {ZERO}
  BY <1>1, <1>2 DEF buffer_content_len, BUFFER_TRAILER_LEN
<1>5. /\ IsBuffer(y) /\ Len(y) = n
      /\ RecordedPayer(y) = payer /\ RecordedCapacity(y) = max_size
      /\ \A i \in 1 .. n - 2 : y[i] = x[i]
  BY <1>1, <1>2, <1>3, <1>4, TrailerWritten
<1>6. buffer_content_len(y) = n - 2
  BY <1>1, <1>5 DEF buffer_content_len, BUFFER_TRAILER_LEN
<1>7. QED
  BY <1>1, <1>2, <1>5, <1>6

\* Growth shows nothing: the new content is zeros, the old trailer included.
LEMMA GrownIsSame ==
    ASSUME NEW data, IsBuffer(data), NEW total \in Nat, Len(data) <= total,
           total <= RecordedCapacity(data) + BUFFER_TRAILER_LEN,
           NEW y, y = GrownBuffer(data, total)
    PROVE  /\ IsBuffer(y) /\ Len(y) = total
           /\ RecordedPayer(y) = RecordedPayer(data)
           /\ RecordedCapacity(y) = RecordedCapacity(data)
           /\ \A i \in 1 .. buffer_content_len(y) :
                y[i] = IF i <= buffer_content_len(data) THEN data[i] ELSE ZERO
<1> DEFINE n == buffer_content_len(data)
           zeros == Zeros(total - n)
           x == Content(data) \o zeros
<1>1. /\ n \in Nat /\ n + 2 = Len(data) /\ Len(data) \in Nat /\ total >= n + 2 /\ data \in Seq(Cells)
      /\ RecordedCapacity(data) \in 0 .. MAX_BUFFER_CONTENT_LEN /\ RecordedCapacity(data) \in Nat
      /\ RecordedPayer(data) \in Payers
  BY SettlementAssumption DEF IsBuffer, buffer_content_len, BUFFER_TRAILER_LEN
<1>2. /\ Content(data) \in Seq(Cells) /\ Len(Content(data)) = n
      /\ \A i \in 1 .. n : Content(data)[i] = data[i]
  BY <1>1 DEF Content
<1>3. total - n \in Nat
  BY <1>1
<1>4. zeros \in Seq(Cells) /\ Len(zeros) = total - n /\ \A i \in 1 .. total - n : zeros[i] = ZERO
  BY <1>3, ZerosAreZero
<1>5. \A i \in 1 .. n : data[i] \in Bytes \cup {ZERO}
  BY DEF IsBuffer
<1>6. y = write_buffer_trailer(x, RecordedPayer(data), RecordedCapacity(data))
  BY DEF GrownBuffer
<1> HIDE DEF n, zeros
<1>7. /\ x \in Seq(Cells) /\ Len(x) = total
      /\ \A i \in 1 .. total : x[i] = IF i <= n THEN data[i] ELSE ZERO
  <2> DEFINE c == Content(data)
             m == total - n
  <2>1. /\ c \in Seq(Cells) /\ zeros \in Seq(Cells) /\ Len(c) = n /\ Len(zeros) = m
        /\ m \in Nat /\ n \in Nat /\ n + m = total /\ x = c \o zeros
    BY <1>1, <1>2, <1>3, <1>4
  <2>2. /\ \A i \in 1 .. n : c[i] = data[i]
        /\ \A i \in 1 .. m : zeros[i] = ZERO
    BY <1>2, <1>4
  <2> HIDE DEF c, m, x
  <2>3. /\ x \in Seq(Cells) /\ Len(x) = n + m
        /\ \A i \in 1 .. n + m : x[i] = IF i <= n THEN c[i] ELSE zeros[i - n]
    BY <2>1, Concatenated
  <2>4. QED
    BY <2>1, <2>2, <2>3
<1> HIDE DEF x
<1>8. /\ Len(x) >= BUFFER_TRAILER_LEN /\ buffer_content_len(x) = total - 2
      /\ buffer_content_len(x) <= RecordedCapacity(data)
  BY <1>1, <1>7 DEF buffer_content_len, BUFFER_TRAILER_LEN
<1>9. \A i \in 1 .. buffer_content_len(x) : x[i] \in Bytes \cup {ZERO}
  BY <1>1, <1>5, <1>7, <1>8
<1>10. /\ IsBuffer(y) /\ Len(y) = total
       /\ RecordedPayer(y) = RecordedPayer(data) /\ RecordedCapacity(y) = RecordedCapacity(data)
       /\ \A i \in 1 .. total - 2 : y[i] = x[i]
  BY <1>1, <1>6, <1>7, <1>8, <1>9, TrailerWritten
<1>11. buffer_content_len(y) = total - 2
  BY <1>10 DEF buffer_content_len, BUFFER_TRAILER_LEN
<1>12. QED
  BY <1>1, <1>7, <1>10, <1>11 DEF n

\* A write within the content leaves the trailer alone.
LEMMA OverwriteInPlace ==
    ASSUME NEW room, IsBuffer(room), NEW offset \in Nat, NEW bytes \in Seq(Bytes),
           offset + Len(bytes) <= buffer_content_len(room),
           NEW y, y = Overwrite(room, offset, bytes)
    PROVE  /\ IsBuffer(y)
           /\ RecordedPayer(y) = RecordedPayer(room)
           /\ RecordedCapacity(y) = RecordedCapacity(room)
           /\ buffer_content_len(y) = buffer_content_len(room)
           /\ \A i \in 1 .. buffer_content_len(y) :
                y[i] = IF i - offset \in 1 .. Len(bytes) THEN bytes[i - offset] ELSE room[i]
<1> DEFINE n == buffer_content_len(room)
           l == Len(room)
<1>1. /\ l \in Nat /\ n \in Nat /\ l = n + 2 /\ room \in Seq(Cells) /\ Len(bytes) \in Nat
      /\ \A i \in 1 .. n : room[i] \in Bytes \cup {ZERO}
      /\ n <= RecordedCapacity(room)
  BY DEF IsBuffer, buffer_content_len, BUFFER_TRAILER_LEN
<1>2. \A i \in 1 .. Len(bytes) : bytes[i] \in Bytes /\ bytes[i] \in Cells
  BY DEF Cells
<1> HIDE DEF n, l
<1>3. /\ y = [i \in 1 .. l |-> IF i - offset \in 1 .. Len(bytes) THEN bytes[i - offset] ELSE room[i]]
      /\ \A i \in 1 .. l : room[i] \in Cells
  BY <1>1 DEF Overwrite, l
<1>4. y \in Seq(Cells) /\ Len(y) = l
  BY <1>1, <1>2, <1>3
<1>5. \A i \in 1 .. l : i > n => y[i] = room[i]
  BY <1>1, <1>3 DEF n
<1>6. /\ RecordedPayer(y) = RecordedPayer(room)
      /\ RecordedCapacity(y) = RecordedCapacity(room)
      /\ buffer_content_len(y) = n
  <2>1. /\ l - 1 \in 1 .. l /\ l - 1 > n /\ l \in 1 .. l /\ l > n /\ l - 2 = n
    BY <1>1
  <2>2. y[l - 1] = room[l - 1] /\ y[l] = room[l]
    BY <1>5, <2>1
  <2>3. QED
    BY <1>4, <2>1, <2>2
    DEF RecordedPayer, RecordedCapacity, buffer_content_len, BUFFER_TRAILER_LEN, l
<1>7. \A i \in 1 .. n : i \in 1 .. l
  BY <1>1
<1>8. \A i \in 1 .. n :
        y[i] = IF i - offset \in 1 .. Len(bytes) THEN bytes[i - offset] ELSE room[i]
  BY <1>3, <1>7
<1>9. \A i \in 1 .. n : y[i] \in Bytes \cup {ZERO}
  BY <1>1, <1>2, <1>8
<1>10. IsBuffer(y)
  BY <1>1, <1>4, <1>6, <1>9 DEF IsBuffer, BUFFER_TRAILER_LEN, n
<1>11. QED
  BY <1>6, <1>8, <1>10 DEF n

-------------------------------------------------------------------------------
(***************************************************************************)
(* The buffers implement Staging                                           *)
(***************************************************************************)

LEMMA DataIsSomething ==
    ASSUME NEW data, IsBuffer(data)
    PROVE  data # None /\ Staged(data) # None
<1> DEFINE c == RecordedCapacity(data)
           s == [payer |-> RecordedPayer(data), capacity |-> c,
                 content |-> [i \in 0 .. c - 1 |->
                                IF i < buffer_content_len(data) THEN data[i + 1] ELSE ZERO]]
<1>1. /\ Len(data) \in 0 .. MAX_BUFFER_CONTENT_LEN + BUFFER_TRAILER_LEN
      /\ data \in [1 .. Len(data) -> Cells]
      /\ c \in 0 .. MAX_BUFFER_CONTENT_LEN /\ c \in Nat /\ RecordedPayer(data) \in Payers
      /\ buffer_content_len(data) \in Nat
      /\ \A i \in 1 .. buffer_content_len(data) : data[i] \in Bytes \cup {ZERO}
  BY SettlementAssumption DEF IsBuffer, buffer_content_len, BUFFER_TRAILER_LEN
<1>2. data # None
  BY <1>1, AbsentAssumption
<1> HIDE DEF c
<1>3. s \in [payer: Payers, capacity: Nat, content: [0 .. c - 1 -> Bytes \cup {ZERO}]]
  BY <1>1
<1>4. s # None
  BY <1>1, <1>3, AbsentAssumption
<1>5. QED
  BY <1>2, <1>4 DEF Staged, c

\* The same payer, capacity and content are the same buffer to a reader.
LEMMA SameToReader ==
    ASSUME NEW x, NEW y, x # None, y # None, RecordedPayer(x) = RecordedPayer(y),
           RecordedCapacity(x) = RecordedCapacity(y), RecordedCapacity(x) \in Nat,
           buffer_content_len(x) \in Nat, buffer_content_len(y) \in Nat,
           \A i \in 0 .. RecordedCapacity(x) - 1 :
              (IF i < buffer_content_len(x) THEN x[i + 1] ELSE ZERO)
                = (IF i < buffer_content_len(y) THEN y[i + 1] ELSE ZERO)
    PROVE  Staged(x) = Staged(y)
<1> DEFINE f(d) == [i \in 0 .. RecordedCapacity(d) - 1 |->
                      IF i < buffer_content_len(d) THEN d[i + 1] ELSE ZERO]
<1>1. f(x) = f(y)
  OBVIOUS
<1>2. QED
  BY <1>1 DEF Staged

\* A write finds or creates a buffer and makes room in it, all of which a reader
\* sees at most as an empty buffer.
LEMMA RoomIsSame ==
    ASSUME NEW k, buffers[k] # None => IsBuffer(buffers[k]), NEW payer \in Payers, NEW max_size,
           NEW write_end \in Nat, NEW data \in FoundOrCreated(k, payer, max_size),
           write_end <= RecordedCapacity(data), NEW room \in WithRoom(k, data, write_end)
    PROVE  /\ IsBuffer(data) /\ IsBuffer(room)
           /\ write_end <= buffer_content_len(room)
           /\ Staged(room) = Staged(data)
           /\ IF buffers[k] # None THEN data = buffers[k]
              ELSE \E c \in 0 .. MAX_BUFFER_CONTENT_LEN : Staged(data) = Buffers!Opened(payer, c)
<1>1. /\ IsBuffer(data)
      /\ IF buffers[k] # None THEN data = buffers[k]
         ELSE \E c \in 0 .. MAX_BUFFER_CONTENT_LEN : Staged(data) = Buffers!Opened(payer, c)
  <2>1. CASE buffers[k] # None
    BY <2>1 DEF FoundOrCreated
  <2>2. CASE buffers[k] = None
    <3>1. PICK c \in 0 .. MAX_BUFFER_CONTENT_LEN : data = CreatedBuffer(payer, c)
      BY <2>2 DEF FoundOrCreated
    <3>2. /\ IsBuffer(data) /\ RecordedPayer(data) = payer /\ RecordedCapacity(data) = c
          /\ \A i \in 1 .. buffer_content_len(data) : data[i] = ZERO
      BY <3>1, CreatedIsOpened
    <3>3. data # None /\ buffer_content_len(data) \in Nat /\ c \in Nat
      BY <3>2, DataIsSomething, SettlementAssumption DEF IsBuffer, buffer_content_len, BUFFER_TRAILER_LEN
    <3>4. \A i \in 0 .. c - 1 :
            (IF i < buffer_content_len(data) THEN data[i + 1] ELSE ZERO) = ZERO
      BY <3>2, <3>3
    <3>5. Staged(data) = Buffers!Opened(payer, c)
      BY <3>2, <3>3, <3>4 DEF Staged, Buffers!Opened
    <3>6. QED
      BY <2>2, <3>2, <3>5
  <2>3. QED
    BY <2>1, <2>2
<1>2. data # None /\ buffer_content_len(data) \in Nat /\ RecordedCapacity(data) \in Nat
      /\ Len(data) \in Nat /\ Len(data) = buffer_content_len(data) + 2
      /\ Len(data) <= RecordedCapacity(data) + 2
  BY <1>1, DataIsSomething, SettlementAssumption DEF IsBuffer, buffer_content_len, BUFFER_TRAILER_LEN
<1>3. CASE write_end + BUFFER_TRAILER_LEN <= Len(data)
  <2>1. room = data
    BY <1>3 DEF WithRoom
  <2>2. QED
    BY <1>1, <1>2, <1>3, <2>1 DEF BUFFER_TRAILER_LEN
<1>4. CASE ~(write_end + BUFFER_TRAILER_LEN <= Len(data))
  <2> DEFINE total == GrownTotal(data)
  <2>1. room = GrownBuffer(data, total) /\ write_end + BUFFER_TRAILER_LEN <= total
    BY <1>4 DEF WithRoom
  <2>2. total \in Nat /\ Len(data) <= total /\ total <= RecordedCapacity(data) + BUFFER_TRAILER_LEN
    BY <1>2, SettlementAssumption DEF GrownTotal, Smaller, BUFFER_TRAILER_LEN
  <2> HIDE DEF total
  <2>3. /\ IsBuffer(room) /\ Len(room) = total
        /\ RecordedPayer(room) = RecordedPayer(data)
        /\ RecordedCapacity(room) = RecordedCapacity(data)
        /\ \A i \in 1 .. buffer_content_len(room) :
             room[i] = IF i <= buffer_content_len(data) THEN data[i] ELSE ZERO
    BY <1>1, <2>1, <2>2, GrownIsSame
  <2>4. /\ room # None /\ buffer_content_len(room) \in Nat
        /\ buffer_content_len(room) >= buffer_content_len(data)
        /\ write_end <= buffer_content_len(room)
    BY <1>2, <2>1, <2>2, <2>3, DataIsSomething DEF buffer_content_len, BUFFER_TRAILER_LEN
  <2>5. ASSUME NEW i \in 0 .. RecordedCapacity(data) - 1
        PROVE  (IF i < buffer_content_len(room) THEN room[i + 1] ELSE ZERO)
                 = (IF i < buffer_content_len(data) THEN data[i + 1] ELSE ZERO)
    <3>1. CASE i < buffer_content_len(room)
      <4>1. i + 1 \in 1 .. buffer_content_len(room) /\ (i + 1 <= buffer_content_len(data) <=> i < buffer_content_len(data))
        BY <1>2, <2>4, <3>1
      <4>2. QED
        BY <2>3, <3>1, <4>1
    <3>2. CASE ~(i < buffer_content_len(room))
      BY <1>2, <2>4, <3>2
    <3>3. QED
      BY <3>1, <3>2
  <2>6. Staged(room) = Staged(data)
    BY <1>2, <2>3, <2>4, <2>5, SameToReader
  <2>7. QED
    BY <1>1, <2>3, <2>4, <2>6
<1>5. QED
  BY <1>3, <1>4

\* What a reader sees of a write: the bytes at the offset, or nothing new.
LEMMA OverwriteToReader ==
    ASSUME NEW room, IsBuffer(room), NEW offset \in Nat, NEW bytes \in Seq(Bytes),
           offset + Len(bytes) <= buffer_content_len(room),
           NEW y, y = Overwrite(room, offset, bytes)
    PROVE  Staged(y) \in Buffers!Overwritten(Staged(room)) \cup {Staged(room)}
<1> DEFINE cap == RecordedCapacity(room)
           n == buffer_content_len(room)
           l == Len(bytes)
           old == Staged(room)
           new == Staged(y)
           b == [m \in 0 .. l - 1 |-> bytes[m + 1]]
<1>1. /\ IsBuffer(y)
      /\ RecordedPayer(y) = RecordedPayer(room) /\ RecordedCapacity(y) = cap
      /\ buffer_content_len(y) = n
      /\ \A i \in 1 .. n : y[i] = IF i - offset \in 1 .. l THEN bytes[i - offset] ELSE room[i]
  BY OverwriteInPlace
<1>2. /\ cap \in Nat /\ n \in Nat /\ n <= cap /\ l \in Nat /\ offset + l <= n
      /\ room # None /\ y # None
  BY <1>1, DataIsSomething, SettlementAssumption DEF IsBuffer, buffer_content_len, BUFFER_TRAILER_LEN
<1> HIDE DEF n, cap
<1>3. /\ old = [payer |-> RecordedPayer(room), capacity |-> cap,
                content |-> [i \in 0 .. cap - 1 |-> IF i < n THEN room[i + 1] ELSE ZERO]]
      /\ new = [payer |-> RecordedPayer(room), capacity |-> cap,
                content |-> [i \in 0 .. cap - 1 |-> IF i < n THEN y[i + 1] ELSE ZERO]]
  BY <1>1, <1>2 DEF Staged, n, cap
<1> HIDE DEF old, new
<1>4. CASE l = 0
  <2>1. \A i \in 1 .. n : y[i] = room[i]
    BY <1>1, <1>2, <1>4
  <2>2. \A i \in 0 .. cap - 1 :
          (IF i < n THEN y[i + 1] ELSE ZERO) = (IF i < n THEN room[i + 1] ELSE ZERO)
    <3>1. ASSUME NEW i \in 0 .. cap - 1, i < n PROVE y[i + 1] = room[i + 1]
      <4>1. i + 1 \in 1 .. n
        BY <1>2, <3>1
      <4>2. QED
        BY <2>1, <4>1
    <3>2. QED
      BY <3>1
  <2>3. new = old
    BY <1>3, <2>2
  <2>4. QED
    BY <2>3 DEF old, new
<1>5. CASE l # 0
  <2>1. /\ offset \in 0 .. cap - 1 /\ l - 1 \in 0 .. cap - 1
        /\ DOMAIN old.content = 0 .. cap - 1
    BY <1>2, <1>3, <1>5
  <2>2. b \in [0 .. l - 1 -> Bytes]
    <3>1. ASSUME NEW m \in 0 .. l - 1 PROVE bytes[m + 1] \in Bytes
      <4>1. m + 1 \in 1 .. Len(bytes)
        BY <1>2, <3>1
      <4>2. QED
        BY <4>1
    <3>2. QED
      BY <3>1
  <2>3. \A i \in 0 .. cap - 1 :
          (IF i < n THEN y[i + 1] ELSE ZERO)
            = IF i - offset \in 0 .. l - 1 THEN b[i - offset] ELSE old.content[i]
    <3>1. TAKE i \in 0 .. cap - 1
    <3>2. old.content[i] = IF i < n THEN room[i + 1] ELSE ZERO
      BY <1>3
    <3>3. CASE i < n
      <4>1. /\ i + 1 \in 1 .. n
            /\ i + 1 - offset \in 1 .. l <=> i - offset \in 0 .. l - 1
            /\ i + 1 - offset = (i - offset) + 1
        BY <1>2, <3>3
      <4>2. y[i + 1] = IF i + 1 - offset \in 1 .. l THEN bytes[i + 1 - offset] ELSE room[i + 1]
        BY <1>1, <4>1
      <4>3. QED
        BY <3>2, <3>3, <4>1, <4>2
    <3>4. CASE ~(i < n)
      <4>1. i - offset \notin 0 .. l - 1
        BY <1>2, <3>4
      <4>2. QED
        BY <3>2, <3>4, <4>1
    <3>5. QED
      BY <3>3, <3>4
  <2>4. new = [old EXCEPT !.content = [i \in DOMAIN old.content |->
                 IF i - offset \in DOMAIN b THEN b[i - offset] ELSE old.content[i]]]
    <3>1. DOMAIN b = 0 .. l - 1
      OBVIOUS
    <3> HIDE DEF b
    <3>2. new.content = [i \in DOMAIN old.content |->
                 IF i - offset \in DOMAIN b THEN b[i - offset] ELSE old.content[i]]
      BY <1>3, <2>1, <2>3, <3>1
    <3>3. /\ old = [payer |-> RecordedPayer(room), capacity |-> cap, content |-> old.content]
          /\ new = [payer |-> RecordedPayer(room), capacity |-> cap, content |-> new.content]
      BY <1>3
    <3>4. \A f : new.content = f => new = [old EXCEPT !.content = f]
      BY <3>3
    <3>5. QED
      BY <3>2, <3>4
  <2> HIDE DEF b
  <2>5. b \in UNION {[0 .. m -> Bytes] : m \in DOMAIN old.content}
    BY <2>1, <2>2
  <2>6. new \in Buffers!Overwritten(old)
    BY <2>1, <2>4, <2>5 DEF Buffers!Overwritten
  <2>7. QED
    BY <2>6 DEF old, new
<1>6. QED
  BY <1>4, <1>5

BuffersOK == \A k \in BufferKey : buffers[k] # None => IsBuffer(buffers[k])

\* What a write does to the buffer it is for.
LEMMA WriteStages ==
    ASSUME AccountsOK, BuffersOK,
           NEW payer \in Payers, NEW app \in Apps, NEW index \in Transitions,
           NEW offset \in 0 .. MAX_BUFFER_CONTENT_LEN, NEW bytes \in Chunks, NEW max_size,
           WriteBuffer(payer, app, index, offset, bytes, max_size)
    PROVE  LET k == <<app, index>>
           IN  /\ k \in BufferKey
               /\ IsBuffer(buffers'[k])
               /\ buffers' = [buffers EXCEPT ![k] = buffers'[k]]
               /\ \E old \in IF buffers[k] = None
                            THEN {Buffers!Opened(p, c) : p \in Payers, c \in 0 .. MAX_BUFFER_CONTENT_LEN}
                            ELSE {Staged(buffers[k])} :
                    Staged(buffers'[k]) \in Buffers!Overwritten(old) \cup {old}
<1> DEFINE k == <<app, index>>
<1>1. k \in BufferKey /\ DOMAIN buffers = BufferKey
  BY DEF BufferKey, AccountsOK
<1>2. offset \in Nat /\ bytes \in Seq(Bytes) /\ Len(bytes) \in Nat /\ offset + Len(bytes) \in Nat
  BY SettlementAssumption
<1>3. buffers[k] # None => IsBuffer(buffers[k])
  BY <1>1 DEF BuffersOK
<1>4. PICK data \in FoundOrCreated(k, payer, max_size) :
        /\ offset + Len(bytes) <= RecordedCapacity(data)
        /\ \E room \in WithRoom(k, data, offset + Len(bytes)) :
             buffers' = [buffers EXCEPT ![k] = Overwrite(room, offset, bytes)]
  BY DEF WriteBuffer
<1>5. PICK room \in WithRoom(k, data, offset + Len(bytes)) :
        buffers' = [buffers EXCEPT ![k] = Overwrite(room, offset, bytes)]
  BY <1>4
<1>6. /\ IsBuffer(data) /\ IsBuffer(room)
      /\ offset + Len(bytes) <= buffer_content_len(room)
      /\ Staged(room) = Staged(data)
      /\ IF buffers[k] # None THEN data = buffers[k]
         ELSE \E c \in 0 .. MAX_BUFFER_CONTENT_LEN : Staged(data) = Buffers!Opened(payer, c)
  BY <1>2, <1>3, <1>4, RoomIsSame
<1> HIDE DEF k
<1>7. buffers'[k] = Overwrite(room, offset, bytes)
  BY <1>1, <1>5
<1>8. /\ IsBuffer(buffers'[k])
      /\ Staged(buffers'[k]) \in Buffers!Overwritten(Staged(data)) \cup {Staged(data)}
  BY <1>2, <1>6, <1>7, OverwriteInPlace, OverwriteToReader
<1>9. Staged(data) \in IF buffers[k] = None
                       THEN {Buffers!Opened(p, c) : p \in Payers, c \in 0 .. MAX_BUFFER_CONTENT_LEN}
                       ELSE {Staged(buffers[k])}
  BY <1>6
<1>10. buffers' = [buffers EXCEPT ![k] = buffers'[k]]
  BY <1>5, <1>7
<1>11. QED
  BY <1>1, <1>8, <1>9, <1>10 DEF k

LEMMA BuffersStep ==
    ASSUME AccountsOK, BuffersOK, [SettlementNext]_settlementVars
    PROVE  BuffersOK'
<1>1. ASSUME NEW p \in Payloads, Settle(p) PROVE BuffersOK'
  BY <1>1 DEF BuffersOK, Settle, CanSettle
<1>2. ASSUME NEW app \in Apps, InitializeState(app) PROVE BuffersOK'
  BY <1>2 DEF BuffersOK, InitializeState
<1>3. ASSUME NEW payer \in Payers, NEW app \in Apps, NEW index \in Transitions,
             NEW offset \in 0 .. MAX_BUFFER_CONTENT_LEN, NEW bytes \in Chunks, NEW max_size \in Capacities,
             WriteBuffer(payer, app, index, offset, bytes, max_size)
      PROVE  BuffersOK'
  <2>1. IsBuffer(buffers'[<<app, index>>])
    BY <1>3, WriteStages
  <2>2. \A k \in BufferKey : k # <<app, index>> => buffers'[k] = buffers[k]
    BY <1>3, WriteEffect
  <2>3. QED
    BY <2>1, <2>2 DEF BuffersOK
<1>4. ASSUME NEW payer \in Payers, NEW app \in Apps, NEW index \in Transitions,
             CloseBuffer(payer, app, index)
      PROVE  BuffersOK'
  BY <1>4, CloseEffect DEF BuffersOK
<1>5. CASE UNCHANGED settlementVars
  BY <1>5 DEF settlementVars, BuffersOK
<1>6. QED
  BY <1>1, <1>2, <1>3, <1>4, <1>5, SettlementSteps

LEMMA BuffersInvariant == SettlementSpec => [](AccountsOK /\ BuffersOK)
<1>1. SettlementInit => AccountsOK /\ BuffersOK
  BY DEF SettlementInit, AccountsOK, BuffersOK
<1>2. AccountsOK /\ BuffersOK /\ [SettlementNext]_settlementVars => (AccountsOK /\ BuffersOK)'
  BY AccountsStep, BuffersStep
<1>3. QED
  BY <1>1, <1>2, PTL DEF SettlementSpec

\* The trailer of every buffer names a payer and a capacity within the bound,
\* and the content before it fits, through every creation, growth and write.
THEOREM SettlementIsTyped == SettlementSpec => []SettlementTypeOK
<1>1. AccountsOK /\ BuffersOK => SettlementTypeOK
  BY DEF AccountsOK, BuffersOK, SettlementTypeOK, IsBuffer
<1>2. QED
  BY <1>1, BuffersInvariant, PTL

StagedNow == [k \in BufferKey |-> Staged(buffers[k])]
FloorNow == [app \in Apps |-> Floor(gk_state[app])]

\* Each instruction is an operation on plain byte arrays, or invisible.
LEMMA StepIsStaging ==
    ASSUME AccountsOK, BuffersOK, [SettlementNext]_settlementVars
    PROVE  [Buffers!Next]_(Buffers!stagingVars)
<1> USE DEF Buffers!stagingVars
<1>1. ASSUME NEW p \in Payloads, Settle(p) PROVE Buffers!Next
  <2> DEFINE a == p.state_pda
  <2>1. /\ a \in Apps /\ gk_state[a] # None /\ gk_state[a].transition_count \in Nat
        /\ gk_state'[a] \in GkState
        /\ gk_state'[a].transition_count = gk_state[a].transition_count + 1
        /\ \A app \in Apps \ {a} : gk_state'[app] = gk_state[app]
    BY <1>1, SettleEffect
  <2>2. gk_state'[a] # None
    BY <2>1, SettlementAssumption
  <2>3. /\ FloorNow[a] # None
        /\ FloorNow' = [FloorNow EXCEPT ![a] = @ + 1]
    BY <2>1, <2>2, SettlementAssumption DEF FloorNow, Floor
  <2>4. UNCHANGED StagedNow
    BY <1>1 DEF Settle, CanSettle, StagedNow
  <2>5. Buffers!Settle(a)
    BY <2>3, <2>4 DEF Buffers!Settle, FloorNow, StagedNow
  <2>6. QED
    BY <2>1, <2>5 DEF Buffers!Next
<1>2. ASSUME NEW app \in Apps, InitializeState(app) PROVE Buffers!Next
  <2>1. /\ gk_state[app] = None /\ gk_state'[app] \in GkState
        /\ gk_state'[app].transition_count = 0
        /\ \A other \in Apps \ {app} : gk_state'[other] = gk_state[other]
    BY <1>2, StartEffect DEF InitializeState
  <2>2. gk_state'[app] # None
    BY <2>1, SettlementAssumption
  <2>3. FloorNow[app] = None /\ FloorNow' = [FloorNow EXCEPT ![app] = 0]
    <3>1. Floor(gk_state[app]) = None /\ Floor(gk_state'[app]) = 0
      BY <2>1, <2>2 DEF Floor
    <3>2. \A other \in Apps : other # app => Floor(gk_state'[other]) = Floor(gk_state[other])
      BY <2>1
    <3>3. QED
      BY <3>1, <3>2 DEF FloorNow
  <2>4. UNCHANGED StagedNow
    BY <1>2 DEF InitializeState, StagedNow
  <2>5. Buffers!Start(app)
    BY <2>3, <2>4 DEF Buffers!Start, FloorNow, StagedNow
  <2>6. QED
    BY <2>5 DEF Buffers!Next
<1>3. ASSUME NEW payer \in Payers, NEW app \in Apps, NEW index \in Transitions,
             NEW offset \in 0 .. MAX_BUFFER_CONTENT_LEN, NEW bytes \in Chunks, NEW max_size \in Capacities,
             WriteBuffer(payer, app, index, offset, bytes, max_size)
      PROVE  Buffers!Next
  <2> DEFINE k == <<app, index>>
  <2>1. /\ k \in BufferKey /\ IsBuffer(buffers'[k])
        /\ buffers' = [buffers EXCEPT ![k] = buffers'[k]]
        /\ \E old \in IF buffers[k] = None
                     THEN {Buffers!Opened(p, c) : p \in Payers, c \in 0 .. MAX_BUFFER_CONTENT_LEN}
                     ELSE {Staged(buffers[k])} :
             Staged(buffers'[k]) \in Buffers!Overwritten(old) \cup {old}
    BY <1>3, WriteStages
  <2>2. /\ gk_state[app] # None /\ index >= gk_state[app].transition_count
        /\ gk_state' = gk_state
    BY <1>3, WriteEffect
  <2>3. FloorNow[app] # None /\ index >= FloorNow[app] /\ UNCHANGED FloorNow
    <3>1. gk_state[app].transition_count \in Nat
      BY <2>2, SettlementAssumption DEF AccountsOK, GkState, Transitions
    <3>2. QED
      BY <2>2, <3>1, SettlementAssumption DEF FloorNow, Floor
  <2>4. StagedNow[k] = None <=> buffers[k] = None
    BY <2>1, DataIsSomething DEF StagedNow, Staged, BuffersOK
  <2>5. StagedNow[k] = Staged(buffers[k]) /\ StagedNow'[k] = Staged(buffers'[k])
    BY <2>1 DEF StagedNow
  <2>6. StagedNow' = [StagedNow EXCEPT ![k] = StagedNow'[k]]
    <3>1. \A other \in BufferKey : other # k => buffers'[other] = buffers[other]
      BY <1>3, WriteEffect
    <3>2. QED
      BY <3>1 DEF StagedNow
  <2>7. \E old \in IF StagedNow[k] = None
                  THEN {Buffers!Opened(p, c) : p \in Payers, c \in 0 .. MAX_BUFFER_CONTENT_LEN}
                  ELSE {StagedNow[k]} :
          StagedNow'[k] \in Buffers!Overwritten(old) \cup {old}
    BY <2>1, <2>4, <2>5
  <2>8. Buffers!Write(app, index)
    BY <2>3, <2>6, <2>7 DEF Buffers!Write, FloorNow, StagedNow
  <2>9. QED
    BY <2>8 DEF Buffers!Next
<1>4. ASSUME NEW payer \in Payers, NEW app \in Apps, NEW index \in Transitions,
             CloseBuffer(payer, app, index)
      PROVE  Buffers!Next
  <2> DEFINE k == <<app, index>>
  <2>1. /\ gk_state[app] # None /\ index < gk_state[app].transition_count
        /\ buffers[k] # None /\ buffers' = [buffers EXCEPT ![k] = None]
        /\ gk_state' = gk_state /\ k \in BufferKey
    BY <1>4 DEF CloseBuffer, BufferKey
  <2>2. FloorNow[app] # None /\ index < FloorNow[app] /\ UNCHANGED FloorNow
    <3>1. gk_state[app].transition_count \in Nat
      BY <2>1, SettlementAssumption DEF AccountsOK, GkState, Transitions
    <3>2. QED
      BY <2>1, <3>1, SettlementAssumption DEF FloorNow, Floor
  <2>3. StagedNow[k] # None
    BY <2>1, DataIsSomething DEF StagedNow, BuffersOK
  <2>4. StagedNow' = [StagedNow EXCEPT ![k] = None]
    BY <2>1 DEF StagedNow, Staged, AccountsOK
  <2>5. Buffers!Discard(app, index)
    BY <2>2, <2>3, <2>4 DEF Buffers!Discard, FloorNow, StagedNow
  <2>6. QED
    BY <2>5 DEF Buffers!Next
<1>5. CASE UNCHANGED settlementVars
  BY <1>5 DEF settlementVars
<1>6. QED
  BY <1>1, <1>2, <1>3, <1>4, <1>5, SettlementSteps

\* Creation and growth in bounded steps, with a trailer that moves and bytes of
\* the old one that are zeroed, implement plain arrays of bytes, for any sizes.
THEOREM BuffersImplementStaging == SettlementSpec => ImplementsStaging
<1>1. SettlementInit => Buffers!Init
  BY DEF SettlementInit, Buffers!Init, Staged, Floor, BufferKey
<1>2. AccountsOK /\ BuffersOK /\ [SettlementNext]_settlementVars => [Buffers!Next]_(Buffers!stagingVars)
  BY StepIsStaging
<1>3. QED
  BY <1>1, <1>2, BuffersInvariant, PTL DEF SettlementSpec, ImplementsStaging, Buffers!Spec

-------------------------------------------------------------------------------
(***************************************************************************)
(* What the producer makes settles.                                        *)
(***************************************************************************)

\* The stretch of a buffer that the program hashes.
LEMMA Stretch ==
    ASSUME NEW S, NEW T, NEW data \in Seq(S), NEW story \in Seq(T), Len(story) <= Len(data)
    PROVE  /\ SubSeq(data, 1, Len(story)) = story
                => \A i \in 1 .. Len(story) : data[i] = story[i]
           /\ (\A i \in 1 .. Len(story) : data[i] = story[i])
                => SubSeq(data, 1, Len(story)) = story
<1> DEFINE n == Len(story)
<1>1. n \in Nat /\ n <= Len(data) /\ story = [i \in 1 .. n |-> story[i]]
  OBVIOUS
<1>2. SubSeq(data, 1, n) = [i \in 1 .. n |-> data[i]]
  BY <1>1
<1> HIDE DEF n
<1>3. /\ SubSeq(data, 1, n) = story => \A i \in 1 .. n : data[i] = story[i]
      /\ (\A i \in 1 .. n : data[i] = story[i]) => SubSeq(data, 1, n) = story
  BY <1>1, <1>2
<1>4. QED
  BY <1>3 DEF n

\* What a reader of the buffer reads as the story is what the program hashes.
LEMMA ReadsAsStory ==
    ASSUME AccountsOK, BuffersOK, NEW k \in BufferKey, NEW story \in Seq(Bytes \cup {ZERO})
    PROVE  StagedAs(k, story) <=>
             /\ buffers[k] # None
             /\ Len(story) <= buffer_content_len(buffers[k])
             /\ SubSeq(buffers[k], 1, Len(story)) = story
<1> DEFINE data == buffers[k]
           n == buffer_content_len(data)
           cap == RecordedCapacity(data)
           content == [i \in 0 .. cap - 1 |-> IF i < n THEN data[i + 1] ELSE ZERO]
<1>1. CASE data = None
  BY <1>1 DEF StagedAs, Staged
<1>2. CASE data # None
  <2>1. IsBuffer(data) /\ Staged(data) # None
    BY <1>2, DataIsSomething DEF BuffersOK
  <2>2. /\ data \in Seq(Cells) /\ n \in Nat /\ n <= Len(data) /\ n <= cap /\ cap \in Nat
        /\ Len(story) \in Nat /\ DOMAIN story = 1 .. Len(story)
    BY <2>1, SettlementAssumption DEF IsBuffer, buffer_content_len, BUFFER_TRAILER_LEN
  <2>3. Staged(data).capacity = cap /\ Staged(data).content = content
    BY <1>2 DEF Staged
  <2>4. StagedAs(k, story) <=>
          /\ Len(story) <= cap
          /\ \A i \in 1 .. Len(story) : content[i - 1] = story[i]
          /\ \A i \in {Len(story)} \cap DOMAIN story : story[i] = ZERO => i <= n
    BY <2>1, <2>3 DEF StagedAs
  <2> HIDE DEF n, cap
  <2>5. ASSUME NEW i \in 1 .. Len(story), Len(story) <= cap
        PROVE  content[i - 1] = IF i <= n THEN data[i] ELSE ZERO
    <3>1. i - 1 \in 0 .. cap - 1 /\ (i - 1 < n <=> i <= n) /\ (i - 1) + 1 = i
      BY <2>2, <2>5
    <3>2. QED
      BY <3>1
  <2> HIDE DEF content
  <2>6. ASSUME StagedAs(k, story) PROVE Len(story) <= n
    <3>1. SUFFICES ASSUME Len(story) > n PROVE FALSE
      BY <2>2
    <3>2. Len(story) \in 1 .. Len(story)
      BY <2>2, <3>1
    <3>3. content[Len(story) - 1] = ZERO
      BY <2>2, <2>4, <2>5, <2>6, <3>1, <3>2
    <3>4. story[Len(story)] = ZERO
      BY <2>4, <2>6, <3>2, <3>3
    <3>5. QED
      BY <2>2, <2>4, <2>6, <3>1, <3>2, <3>4
  <2>7. ASSUME Len(story) <= n
        PROVE  StagedAs(k, story) <=> \A i \in 1 .. Len(story) : data[i] = story[i]
    <3>1. \A i \in 1 .. Len(story) : content[i - 1] = data[i]
      BY <2>2, <2>5, <2>7
    <3>2. \A i \in {Len(story)} \cap DOMAIN story : i <= n
      BY <2>7
    <3>3. QED
      BY <2>2, <2>4, <2>7, <3>1, <3>2
  <2>8. ASSUME Len(story) <= n
        PROVE  SubSeq(data, 1, Len(story)) = story <=>
                 \A i \in 1 .. Len(story) : data[i] = story[i]
    BY <2>2, <2>8, Stretch
  <2>9. QED
    BY <1>2, <2>6, <2>7, <2>8 DEF n
<1>3. QED
  BY <1>1, <1>2

\* A payload of one root and one event is refused for its event alone.
LEMMA OneStoreOneEvent ==
    ASSUME NEW inputs, inputs.new_root \in Roots, NEW event, event.kind = "Event",
           NEW p, p = PayloadOf(inputs, event), IsNext(p)
    PROVE  Events(p) = {event} /\ (CanSettle(p) <=> EventsAreValid(p))
<1>1. p.updates = <<[kind |-> "Store", data |-> inputs.new_root], event>>
  BY DEF PayloadOf
<1>2. /\ DOMAIN p.updates = {1, 2}
      /\ p.updates[1].kind = "Store" /\ p.updates[2] = event /\ p.updates[2].kind = "Event"
  BY <1>1
<1>3. Stores(p) = {1} /\ Events(p) = {event}
  BY <1>2 DEF Stores, Events
<1>4. QED
  BY <1>3 DEF CanSettle, IsNext

\* Whatever was written to the buffers, and however they grew: a story settles
\* exactly when its own buffer reads as the story, and an answer exactly when it
\* fits into an event (settle.rs:183, lib.rs:98).
THEOREM StagedStoriesSettle == SettlementSpec => []StagedStorySettles
<1>1. ASSUME AccountsOK, BuffersOK PROVE StagedStorySettles
  <2>1. ASSUME NEW inputs \in StoryInputs, NEW f \in run_story(inputs), IsNext(f.payload)
        PROVE  (/\ inputs.buffer = <<inputs.state_pda, inputs.transition_index>>
                /\ StagedAs(inputs.buffer, inputs.story)) <=> CanSettle(f.payload)
    <3> DEFINE p == f.payload
               meta == [story_sha256 |-> inputs.story, buffer |-> inputs.buffer,
                        len |-> Len(inputs.story)]
               event == [kind |-> "Event", payload_len |-> STORY_META_LEN, meta |-> meta]
               k == <<inputs.state_pda, inputs.transition_index>>
    <3>1. inputs \in StoryInput
      BY ProducerAssumption
    <3>2. p = PayloadOf(inputs, event)
      BY DEF run_story, make_fixture, build_payload
    <3>3. /\ p.state_pda = inputs.state_pda /\ p.transition_index = inputs.transition_index
          /\ inputs.new_root \in Roots /\ event.kind = "Event" /\ event.meta = meta
          /\ event.payload_len + DISCRIMINATOR_LEN <= MAX_EVENT_CPI_DATA_LEN
      BY <3>1, <3>2, ProducerAssumption, SettlementAssumption
      DEF PayloadOf, StoryInput, STORY_META_LEN, DISCRIMINATOR_LEN
    <3>4. meta # None
      <4>1. meta \in StoryMeta
        BY <3>1 DEF StoryInput, StoryMeta
      <4>2. QED
        BY <4>1, ProducerAssumption
    <3>5. /\ inputs.story \in Seq(Bytes \cup {ZERO}) /\ inputs.buffer \in BufferKey
          /\ meta.story_sha256 = inputs.story /\ meta.buffer = inputs.buffer
          /\ meta.len = Len(inputs.story)
      BY <3>1 DEF StoryInput
    <3> HIDE DEF meta, event, p
    <3>6. Events(p) = {event} /\ (CanSettle(p) <=> EventsAreValid(p))
      BY <2>1, <3>2, <3>3, OneStoreOneEvent DEF p
    <3>7. EventsAreValid(p) <=> verify_story_meta(p, meta)
      BY <3>3, <3>4, <3>6 DEF EventsAreValid
    <3>8. verify_story_meta(p, meta) <=>
            /\ buffers[k] # None /\ inputs.buffer = k
            /\ Len(inputs.story) <= buffer_content_len(buffers[k])
            /\ SubSeq(buffers[k], 1, Len(inputs.story)) = inputs.story
      BY <3>3, <3>5 DEF verify_story_meta
    <3>9. StagedAs(inputs.buffer, inputs.story) <=>
            /\ buffers[inputs.buffer] # None
            /\ Len(inputs.story) <= buffer_content_len(buffers[inputs.buffer])
            /\ SubSeq(buffers[inputs.buffer], 1, Len(inputs.story)) = inputs.story
      BY <1>1, <3>5, ReadsAsStory
    <3>10. QED
      BY <3>6, <3>7, <3>8, <3>9 DEF p
  <2>2. ASSUME NEW inputs \in AnswerInputs, NEW f \in run_qwen(inputs), IsNext(f.payload)
        PROVE  (\A e \in Events(f.payload) :
                  e.payload_len + DISCRIMINATOR_LEN <= MAX_EVENT_CPI_DATA_LEN)
               <=> CanSettle(f.payload)
    <3> DEFINE p == f.payload
               answer == [model |-> inputs.model, prompt_ids |-> inputs.prompt_ids,
                          answer_ids |-> inputs.answer_ids, manifest |-> inputs.manifest]
               event == [kind |-> "Event", payload_len |-> QwenAnswerLen(answer),
                         meta |-> None, answer |-> answer]
    <3>1. p = PayloadOf(inputs, event)
      BY DEF run_qwen, make_qwen_fixture, build_qwen_payload
    <3>2. event.kind = "Event" /\ event.meta = None /\ inputs.new_root \in Roots
      BY ProducerAssumption DEF AnswerInput
    <3> HIDE DEF event, p
    <3>3. Events(p) = {event} /\ (CanSettle(p) <=> EventsAreValid(p))
      BY <2>2, <3>1, <3>2, OneStoreOneEvent DEF p
    <3>4. QED
      BY <3>2, <3>3 DEF EventsAreValid, p
  <2>3. QED
    BY <2>1, <2>2 DEF StagedStorySettles
<1>2. QED
  BY <1>1, BuffersInvariant, PTL
===============================================================================
