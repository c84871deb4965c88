-------------------------- MODULE OperatorSetProofs ---------------------------
(***************************************************************************)
(* Proofs about OperatorSet, for any operators, keys, array length and     *)
(* generation bound.                                                       *)
(***************************************************************************)
EXTENDS OperatorSet, FiniteSetTheorems, TLAPS

(***************************************************************************)
(* Type correctness                                                        *)
(***************************************************************************)

LEMMA PointArithmetic ==
    ASSUME NEW P \in Point, NEW Q \in Point, NEW key \in Keys
    PROVE  /\ Identity \in Point
           /\ PointOf(key) \in Point
           /\ Plus(P, Q) \in Point
           /\ Minus(P, Q) \in Point
BY DEF Point, Identity, PointOf, Plus, Minus

LEMMA EmptySlotIsOne == EmptySlot \in OperatorSnapshot
BY DEF EmptySlot, OperatorSnapshot

\* The values of every variable of the Snapshot account stay in their type: the
\* APK a point, the generation below the bound where checked_add fails.
THEOREM TypeCorrect == Spec => []TypeOK
<1>1. Init => TypeOK
  BY OperatorSetAssumption, EmptySlotIsOne DEF Init, TypeOK, Identity, Point
<1>2. TypeOK /\ [Next]_vars => TypeOK'
  <2> SUFFICES ASSUME TypeOK, [Next]_vars PROVE TypeOK'
    OBVIOUS
  <2> USE OperatorSetAssumption DEF TypeOK
  <2>1. ASSUME NEW o \in Operators, InitializeNcnOperatorState(o)
        PROVE  TypeOK'
    BY <2>1 DEF InitializeNcnOperatorState, slotVars, aggregateVars
  <2>2. ASSUME NEW o \in Operators, RemoveOperator(o)
        PROVE  TypeOK'
    <3>1. PICK i \in SlotsOf(o) :
            /\ total_aggregated_g1_pubkey' =
                 Minus(total_aggregated_g1_pubkey, PointOf(operator_snapshots[i].g1_pubkey))
            /\ operator_snapshots' = [operator_snapshots EXCEPT ![i] = EmptySlot]
      BY <2>2 DEF RemoveOperator
    <3>2. total_aggregated_g1_pubkey' \in Point
      BY <3>1 DEF Point, Minus, PointOf
    <3>3. QED
      BY <2>2, <3>1, <3>2, EmptySlotIsOne DEF RemoveOperator, BumpGeneration, restakingVars, SlotsOf
  <2>3. ASSUME NEW o \in Operators, NEW key \in Keys, RegisterOperator(o, key)
        PROVE  TypeOK'
    <3>1. total_aggregated_g1_pubkey' \in Point
      BY <2>3, PointArithmetic DEF RegisterOperator, register_operator_g1_pubkey
    <3>2. ncn_operator_index[o] \in Nat
      BY <2>3 DEF RegisterOperator
    <3>3. operator_snapshots' \in [Index -> OperatorSnapshot]
      BY <2>3 DEF RegisterOperator, OperatorSnapshot
    <3>4. QED
      BY <2>3, <3>1, <3>3 DEF RegisterOperator, BumpGeneration, restakingVars
  <2>4. ASSUME NEW o \in Operators, NEW key \in Keys, UpdateOperatorBN128Keys(o, key)
        PROVE  TypeOK'
    <3>1. /\ total_aggregated_g1_pubkey' \in Point
          /\ operator_snapshots' \in [Index -> OperatorSnapshot]
      <4>1. CASE ReplaceAggregate(o, key)
        BY <4>1, PointArithmetic DEF ReplaceAggregate, OperatorSnapshot
      <4>2. CASE SwapKey(o, key)
        BY <4>2 DEF SwapKey, SlotsOf, OperatorSnapshot, Point, Plus, Minus, PointOf
      <4>3. CASE SwapNothing(o)
        BY <4>3 DEF SwapNothing
      <4>4. QED
        BY <2>4, <4>1, <4>2, <4>3 DEF UpdateOperatorBN128Keys
    <3>2. QED
      BY <2>4, <3>1 DEF UpdateOperatorBN128Keys, BumpGeneration, restakingVars
  <2>5. CASE UNCHANGED vars
    BY <2>5 DEF vars, restakingVars, slotVars, aggregateVars
  <2>6. QED
    BY <2>1, <2>2, <2>3, <2>4, <2>5 DEF Next
<1>3. QED
  BY <1>1, <1>2, PTL DEF Spec

(***************************************************************************)
(* Indices and slots                                                       *)
(***************************************************************************)

\* Strengthening for SlotsMatchAccounts: the restaking program's numbering is
\* injective because it counts, and only operators with an index inside the
\* array ever registered.
IndexInv ==
    /\ \A o \in Operators : ncn_operator_index[o] # None =>
         ncn_operator_index[o] < ncn_operator_count
    /\ \A o, p \in Operators :
         ncn_operator_index[o] # None /\ ncn_operator_index[o] = ncn_operator_index[p] => o = p
    /\ \A o \in Operators : Registered(o) => ncn_operator_index[o] \in Index

LEMMA IndexInvariant == Spec => []IndexInv
<1>1. Init => IndexInv
  BY DEF Init, IndexInv, Registered
<1>2. TypeOK /\ IndexInv /\ [Next]_vars => IndexInv'
  <2> SUFFICES ASSUME TypeOK, IndexInv, [Next]_vars PROVE IndexInv'
    OBVIOUS
  <2> USE OperatorSetAssumption DEF TypeOK, IndexInv, Registered
  <2>1. ASSUME NEW o \in Operators, InitializeNcnOperatorState(o)
        PROVE  IndexInv'
    BY <2>1 DEF InitializeNcnOperatorState, Index
  <2>2. ASSUME NEW o \in Operators, RemoveOperator(o)
        PROVE  IndexInv'
    BY <2>2 DEF RemoveOperator, restakingVars
  <2>3. ASSUME NEW o \in Operators, NEW key \in Keys, RegisterOperator(o, key)
        PROVE  IndexInv'
    BY <2>3 DEF RegisterOperator, restakingVars, Index
  <2>4. ASSUME NEW o \in Operators, NEW key \in Keys, UpdateOperatorBN128Keys(o, key)
        PROVE  IndexInv'
    BY <2>4 DEF UpdateOperatorBN128Keys, restakingVars
  <2>5. CASE UNCHANGED vars
    BY <2>5 DEF vars, restakingVars
  <2>6. QED
    BY <2>1, <2>2, <2>3, <2>4, <2>5 DEF Next
<1>3. QED
  BY <1>1, <1>2, TypeCorrect, PTL DEF Spec

\* A live slot is the slot of its own operator, so an operator has at most one.
LEMMA SlotOfOperator ==
    ASSUME TypeOK, SlotsMatchAccounts, NEW o \in Operators, NEW i \in SlotsOf(o)
    PROVE  /\ i = ncn_operator_index[o]
           /\ i \in Index
           /\ SlotsOf(o) = {i}
           /\ operator_snapshots[i] = [operator |-> o, g1_pubkey |-> ncn_operator_account[o]]
           /\ ncn_operator_account[o] \in Keys
BY OperatorSetAssumption DEF TypeOK, SlotsMatchAccounts, Registered, SlotsOf, OperatorSnapshot

\* The slot of an operator and its own account always agree on index and key,
\* through registration, rotation and removal.
THEOREM SlotsMatch == Spec => []SlotsMatchAccounts
<1>1. Init => SlotsMatchAccounts
  BY OperatorSetAssumption DEF Init, SlotsMatchAccounts, EmptySlot
<1>2. TypeOK /\ IndexInv /\ SlotsMatchAccounts /\ [Next]_vars => SlotsMatchAccounts'
  <2> SUFFICES ASSUME TypeOK, IndexInv, SlotsMatchAccounts, [Next]_vars
               PROVE  SlotsMatchAccounts'
    OBVIOUS
  <2> USE OperatorSetAssumption DEF SlotsMatchAccounts, Registered
  <2>1. ASSUME NEW o \in Operators, InitializeNcnOperatorState(o)
        PROVE  SlotsMatchAccounts'
    BY <2>1 DEF InitializeNcnOperatorState, slotVars, TypeOK, OperatorSnapshot, Index
  <2>2. ASSUME NEW o \in Operators, RemoveOperator(o)
        PROVE  SlotsMatchAccounts'
    BY <2>2 DEF RemoveOperator, restakingVars, TypeOK, SlotsOf, EmptySlot
  <2>3. ASSUME NEW o \in Operators, NEW key \in Keys, RegisterOperator(o, key)
        PROVE  SlotsMatchAccounts'
    <3>1. ncn_operator_index[o] \in Index
      BY <2>3 DEF RegisterOperator, TypeOK, Index
    <3>2. QED
      BY <2>3, <3>1 DEF RegisterOperator, restakingVars, TypeOK, OperatorSnapshot, Registered
  <2>4. ASSUME NEW o \in Operators, NEW key \in Keys, UpdateOperatorBN128Keys(o, key)
        PROVE  SlotsMatchAccounts'
    <3>1. /\ ncn_operator_account' = [ncn_operator_account EXCEPT ![o] = key]
          /\ UNCHANGED ncn_operator_index
      BY <2>4 DEF UpdateOperatorBN128Keys, restakingVars
    <3>2. CASE ReplaceAggregate(o, key)
      BY <3>1, <3>2 DEF ReplaceAggregate, TypeOK, OperatorSnapshot, SlotsOf
    <3>3. CASE SwapKey(o, key)
      <4>1. PICK i \in SlotsOf(o) :
              operator_snapshots' =
                [operator_snapshots EXCEPT ![i] = [operator |-> o, g1_pubkey |-> key]]
        BY <3>3 DEF SwapKey
      <4>2. QED
        BY <3>1, <4>1, SlotOfOperator DEF TypeOK, OperatorSnapshot, SlotsOf
    <3>4. CASE SwapNothing(o)
      BY <3>1, <3>4 DEF SwapNothing, SlotsOf, TypeOK, OperatorSnapshot
    <3>5. QED
      BY <2>4, <3>2, <3>3, <3>4 DEF UpdateOperatorBN128Keys
  <2>5. CASE UNCHANGED vars
    BY <2>5 DEF vars, restakingVars, slotVars
  <2>6. QED
    BY <2>1, <2>2, <2>3, <2>4, <2>5 DEF Next
<1>3. QED
  BY <1>1, <1>2, TypeCorrect, IndexInvariant, PTL DEF Spec

(***************************************************************************)
(* Counting registrations                                                  *)
(***************************************************************************)

\* Registered operators inject into the indices of the array.
LEMMA RegisteredFinite ==
    ASSUME TypeOK, IndexInv
    PROVE  /\ IsFiniteSet(RegisteredOperators)
           /\ Cardinality(RegisteredOperators) \in Nat
           /\ Cardinality(RegisteredOperators) <= MAX_OPERATORS
<1> DEFINE f == [o \in RegisteredOperators |-> ncn_operator_index[o]]
<1>1. f \in Injection(RegisteredOperators, Index)
  BY OperatorSetAssumption DEF Injection, IsInjective, RegisteredOperators, IndexInv, Index
<1>2. IsFiniteSet(Index) /\ Cardinality(Index) = MAX_OPERATORS
  <2>1. 0 \in Int /\ MAX_OPERATORS - 1 \in Int /\ ~(0 > MAX_OPERATORS - 1)
    BY OperatorSetAssumption
  <2>2. QED
    BY <2>1, FS_Interval, OperatorSetAssumption DEF Index
<1>3. IsFiniteSet(RegisteredOperators) /\ Cardinality(RegisteredOperators) <= Cardinality(Index)
  BY <1>1, <1>2, FS_Injection
<1>4. QED
  BY <1>2, <1>3, FS_CardinalityType

\* operators_registered counts every operator that ever registered and never
\* exceeds the array that the verification loop walks.
THEOREM CountsRegistrations == Spec => []CountsEveryRegistration
<1> DEFINE Counted == operators_registered = Cardinality(RegisteredOperators)
<1>1. Init => Counted
  <2> SUFFICES ASSUME Init PROVE Counted
    OBVIOUS
  <2>1. RegisteredOperators = {}
    BY DEF Init, RegisteredOperators, Registered
  <2>2. QED
    BY <2>1, FS_EmptySet DEF Init
<1>2. TypeOK /\ IndexInv /\ Counted /\ [Next]_vars => Counted'
  <2> SUFFICES ASSUME TypeOK, IndexInv, Counted, [Next]_vars PROVE Counted'
    OBVIOUS
  <2> USE OperatorSetAssumption DEF TypeOK
  <2>1. ASSUME NEW o \in Operators, InitializeNcnOperatorState(o)
        PROVE  Counted'
    BY <2>1 DEF InitializeNcnOperatorState, slotVars, RegisteredOperators, Registered
  <2>2. ASSUME NEW o \in Operators, RemoveOperator(o)
        PROVE  Counted'
    BY <2>2 DEF RemoveOperator, RegisteredOperators, Registered
  <2>3. ASSUME NEW o \in Operators, NEW key \in Keys, RegisterOperator(o, key)
        PROVE  Counted'
    <3>1. /\ o \notin RegisteredOperators
          /\ RegisteredOperators' = RegisteredOperators \cup {o}
      BY <2>3 DEF RegisterOperator, RegisteredOperators, Registered
    <3>2. Cardinality(RegisteredOperators \cup {o}) = Cardinality(RegisteredOperators) + 1
      BY <3>1, RegisteredFinite, FS_AddElement
    <3>3. operators_registered' = operators_registered + 1
      BY <2>3 DEF RegisterOperator
    <3>4. QED
      BY <3>1, <3>2, <3>3
  <2>4. ASSUME NEW o \in Operators, NEW key \in Keys, UpdateOperatorBN128Keys(o, key)
        PROVE  Counted'
    <3>1. RegisteredOperators' = RegisteredOperators
      BY <2>4 DEF UpdateOperatorBN128Keys, RegisteredOperators, Registered
    <3>2. QED
      BY <2>4, <3>1 DEF UpdateOperatorBN128Keys
  <2>5. CASE UNCHANGED vars
    BY <2>5 DEF vars, slotVars, RegisteredOperators, Registered
  <2>6. QED
    BY <2>1, <2>2, <2>3, <2>4, <2>5 DEF Next
<1>3. TypeOK /\ IndexInv /\ Counted => CountsEveryRegistration
  BY RegisteredFinite DEF CountsEveryRegistration
<1>4. QED
  BY <1>1, <1>2, <1>3, TypeCorrect, IndexInvariant, PTL DEF Spec

(***************************************************************************)
(* Removal and the aggregate                                               *)
(***************************************************************************)

\* No step gives a removed operator a slot again or forgets its registration.
LEMMA RemovedPersists ==
    ASSUME TypeOK, [Next]_vars, NEW p \in Operators, Removed(p)
    PROVE  Removed(p)'
<1> USE OperatorSetAssumption DEF TypeOK, Removed, Registered, SlotsOf
<1>1. ASSUME NEW o \in Operators, InitializeNcnOperatorState(o)
      PROVE  Removed(p)'
  BY <1>1 DEF InitializeNcnOperatorState, slotVars
<1>2. ASSUME NEW o \in Operators, RemoveOperator(o)
      PROVE  Removed(p)'
  BY <1>2 DEF RemoveOperator, EmptySlot
<1>3. ASSUME NEW o \in Operators, NEW key \in Keys, RegisterOperator(o, key)
      PROVE  Removed(p)'
  BY <1>3 DEF RegisterOperator
<1>4. ASSUME NEW o \in Operators, NEW key \in Keys, UpdateOperatorBN128Keys(o, key)
      PROVE  Removed(p)'
  <2>1. Registered(p)'
    BY <1>4 DEF UpdateOperatorBN128Keys
  <2>2. \A i \in Index : operator_snapshots'[i].operator = operator_snapshots[i].operator
    BY <1>4 DEF UpdateOperatorBN128Keys, ReplaceAggregate, SwapKey, SwapNothing, OperatorSnapshot
  <2>3. QED
    BY <2>1, <2>2
<1>5. CASE UNCHANGED vars
  BY <1>5 DEF vars, slotVars
<1>6. QED
  BY <1>1, <1>2, <1>3, <1>4, <1>5 DEF Next

\* Once RemoveOperator cleared an operator's slot, no instruction gives the
\* operator a slot again.
THEOREM RemovedForGood == Spec => RemovedStaysOut
<1>1. TypeOK /\ [Next]_vars => (\A o \in Operators : Removed(o) => Removed(o)')
  BY RemovedPersists
<1>2. QED
  BY <1>1, TypeCorrect, PTL DEF Spec, RemovedStaysOut

LEMMA IndexFinite == IsFiniteSet(Index)
<1>1. 0 \in Int /\ MAX_OPERATORS - 1 \in Int
  BY OperatorSetAssumption
<1>2. QED
  BY <1>1, FS_Interval DEF Index

\* What one slot contributes to the sum of the keys.
SlotPoint(s) == [k \in Keys |-> IF s.g1_pubkey = k THEN 1 ELSE 0]

\* What writing one slot does to the sum of the keys in the slots.
LEMMA SlotSum ==
    ASSUME NEW s \in [Index -> OperatorSnapshot], NEW i \in Index,
           NEW r \in OperatorSnapshot
    PROVE  /\ SumOf(s) \in Point
           /\ SumOf([s EXCEPT ![i] = r]) = Plus(Minus(SumOf(s), SlotPoint(s[i])), SlotPoint(r))
<1> DEFINE t == [s EXCEPT ![i] = r]
<1>1. \A u \in SUBSET Index : IsFiniteSet(u) /\ Cardinality(u) \in Nat
  BY IndexFinite, FS_Subset, FS_CardinalityType
<1>2. SumOf(s) \in Point
  BY <1>1 DEF SumOf, Point
<1>3. ASSUME NEW k \in Keys
      PROVE  SumOf(t)[k] = SumOf(s)[k] - SlotPoint(s[i])[k] + SlotPoint(r)[k]
  <2> DEFINE With(v) == {j \in Index : v[j].g1_pubkey = k}
             Rest == With(s) \ {i}
  <2>1. IsFiniteSet(Rest) /\ Cardinality(Rest) \in Nat /\ i \notin Rest
    BY <1>1
  <2>2. Cardinality(Rest \cup {i}) = Cardinality(Rest) + 1
    BY <2>1, FS_AddElement
  <2>3. With(s) = IF s[i].g1_pubkey = k THEN Rest \cup {i} ELSE Rest
    OBVIOUS
  <2>4. With(t) = IF r.g1_pubkey = k THEN Rest \cup {i} ELSE Rest
    OBVIOUS
  <2>5. SumOf(s)[k] = Cardinality(With(s)) /\ SumOf(t)[k] = Cardinality(With(t))
    BY DEF SumOf
  <2>6. /\ SlotPoint(s[i])[k] = IF s[i].g1_pubkey = k THEN 1 ELSE 0
        /\ SlotPoint(r)[k] = IF r.g1_pubkey = k THEN 1 ELSE 0
    BY DEF SlotPoint
  <2> HIDE DEF With, Rest, t
  <2>7. QED
    BY <2>1, <2>2, <2>3, <2>4, <2>5, <2>6
<1>4. SumOf(t) = [k \in Keys |-> SumOf(t)[k]]
  BY DEF SumOf
<1> HIDE DEF t
<1>5. SumOf(t) = Plus(Minus(SumOf(s), SlotPoint(s[i])), SlotPoint(r))
  BY <1>3, <1>4 DEF Plus, Minus
<1>6. QED
  BY <1>2, <1>5 DEF t

\* The same for the slots of the Snapshot account.
LEMMA LiveSumChange ==
    ASSUME TypeOK, NEW i \in Index, NEW r \in OperatorSnapshot,
           operator_snapshots' = [operator_snapshots EXCEPT ![i] = r]
    PROVE  /\ LiveSum \in Point
           /\ LiveSum' = Plus(Minus(LiveSum, SlotPoint(operator_snapshots[i])), SlotPoint(r))
<1>1. operator_snapshots \in [Index -> OperatorSnapshot]
  BY DEF TypeOK
<1>2. /\ LiveSum = SumOf(operator_snapshots)
      /\ LiveSum' = SumOf([operator_snapshots EXCEPT ![i] = r])
  BY DEF LiveSum, SumOf
<1>3. \A s \in [Index -> OperatorSnapshot] :
        /\ SumOf(s) \in Point
        /\ SumOf([s EXCEPT ![i] = r]) = Plus(Minus(SumOf(s), SlotPoint(s[i])), SlotPoint(r))
  BY SlotSum
<1> HIDE DEF LiveSum
<1>4. QED
  BY <1>1, <1>2, <1>3

\* The aggregate keeps its distance from the live sum when both move alike.
LEMMA MovesTogether ==
    ASSUME TypeOK, LiveSum \in Point, LiveSum' \in Point,
           total_aggregated_g1_pubkey' \in Point,
           NEW d \in [Keys -> Int],
           \A k \in Keys : total_aggregated_g1_pubkey'[k] = total_aggregated_g1_pubkey[k] + d[k],
           \A k \in Keys : LiveSum'[k] = LiveSum[k] + d[k],
           \A o \in Operators : Removed(o) => Removed(o)',
           AggregateWithinOneOrphan
    PROVE  AggregateWithinOneOrphan'
<1> HIDE DEF LiveSum
<1>1. CASE total_aggregated_g1_pubkey = LiveSum
  <2>1. total_aggregated_g1_pubkey' = LiveSum'
    BY <1>1 DEF Point
  <2>2. QED
    BY <2>1 DEF AggregateWithinOneOrphan
<1>2. ASSUME NEW key \in Keys, total_aggregated_g1_pubkey = Plus(LiveSum, PointOf(key)),
             NEW o \in Operators, Removed(o)
      PROVE  AggregateWithinOneOrphan'
  <2>1. Removed(o)'
    BY <1>2
  <2>2. total_aggregated_g1_pubkey' = Plus(LiveSum', PointOf(key))
    BY <1>2 DEF Point, Plus, PointOf
  <2>3. QED
    BY <2>1, <2>2 DEF AggregateWithinOneOrphan
<1>3. QED
  BY <1>1, <1>2 DEF AggregateWithinOneOrphan

\* With a single registration ever made, only that operator can have a slot.
LEMMA SoleRegistration ==
    ASSUME TypeOK, IndexInv, SlotsMatchAccounts, CountsEveryRegistration,
           operators_registered = 1, NEW o \in Operators, Registered(o)
    PROVE  \A i \in Index : i \notin SlotsOf(o) => operator_snapshots[i] = EmptySlot
<1>1. Cardinality(RegisteredOperators) = 1
  BY DEF CountsEveryRegistration
<1>2. IsFiniteSet(RegisteredOperators)
  BY RegisteredFinite
<1>3. PICK p : RegisteredOperators = {p}
  BY <1>1, <1>2, FS_Singleton
<1>4. o \in RegisteredOperators
  BY DEF RegisteredOperators
<1>5. \A q \in Operators : Registered(q) => q = o
  BY <1>3, <1>4 DEF RegisteredOperators
<1>6. QED
  BY <1>5, OperatorSetAssumption DEF TypeOK, OperatorSnapshot, SlotsMatchAccounts, SlotsOf, EmptySlot

\* The aggregate may be off by the key of one removed operator, and nothing ever
\* makes it wrong by more.  Only a registration count of one can lose track, and
\* then every slot but the rotating operator's own is empty.
THEOREM AggregateBounded == Spec => []AggregateWithinOneOrphan
<1>1. Init => AggregateWithinOneOrphan
  <2> SUFFICES ASSUME Init PROVE total_aggregated_g1_pubkey = LiveSum
    BY DEF AggregateWithinOneOrphan
  <2>1. \A k \in Keys : {i \in Index : operator_snapshots[i].g1_pubkey = k} = {}
    BY OperatorSetAssumption DEF Init, EmptySlot
  <2>2. QED
    BY <2>1, FS_EmptySet DEF Init, Identity, LiveSum, SumOf
<1> DEFINE IInv == TypeOK /\ IndexInv /\ SlotsMatchAccounts /\ CountsEveryRegistration
<1>2. /\ IInv /\ TypeOK' /\ SlotsMatchAccounts' /\ AggregateWithinOneOrphan
      /\ [Next]_vars
      => AggregateWithinOneOrphan'
  <2> SUFFICES ASSUME IInv, TypeOK', SlotsMatchAccounts',
                      AggregateWithinOneOrphan, [Next]_vars
               PROVE  AggregateWithinOneOrphan'
    OBVIOUS
  <2> USE OperatorSetAssumption
  <2>a. \A p \in Operators : Removed(p) => Removed(p)'
    BY RemovedPersists
  <2>b. total_aggregated_g1_pubkey' \in Point /\ total_aggregated_g1_pubkey \in Point
    BY DEF TypeOK
  <2>c. ASSUME NEW i \in Index, NEW r \in OperatorSnapshot, NEW d \in [Keys -> Int],
               operator_snapshots' = [operator_snapshots EXCEPT ![i] = r],
               \A k \in Keys : d[k] =
                 (IF r.g1_pubkey = k THEN 1 ELSE 0)
                   - (IF operator_snapshots[i].g1_pubkey = k THEN 1 ELSE 0),
               \A k \in Keys : total_aggregated_g1_pubkey'[k]
                                 = total_aggregated_g1_pubkey[k] + d[k]
        PROVE  AggregateWithinOneOrphan'
    <3>1. /\ LiveSum \in Point
          /\ LiveSum' = Plus(Minus(LiveSum, SlotPoint(operator_snapshots[i])), SlotPoint(r))
      BY <2>c, LiveSumChange
    <3> HIDE DEF LiveSum
    <3>2. LiveSum' \in Point /\ (\A k \in Keys : LiveSum'[k] = LiveSum[k] + d[k])
      BY <3>1, <2>c DEF Point, Plus, Minus, SlotPoint
    <3>3. QED
      BY <2>a, <2>b, <2>c, <3>1, <3>2, MovesTogether
  <2>1. ASSUME NEW o \in Operators, InitializeNcnOperatorState(o)
        PROVE  AggregateWithinOneOrphan'
    BY <2>1, <2>a DEF InitializeNcnOperatorState, slotVars, aggregateVars,
                      AggregateWithinOneOrphan, LiveSum
  <2>2. ASSUME NEW o \in Operators, RemoveOperator(o)
        PROVE  AggregateWithinOneOrphan'
    <3>1. PICK i \in SlotsOf(o) :
            /\ total_aggregated_g1_pubkey' =
                 Minus(total_aggregated_g1_pubkey, PointOf(operator_snapshots[i].g1_pubkey))
            /\ operator_snapshots' = [operator_snapshots EXCEPT ![i] = EmptySlot]
      BY <2>2 DEF RemoveOperator
    <3> DEFINE d == [k \in Keys |-> IF operator_snapshots[i].g1_pubkey = k THEN -1 ELSE 0]
    <3>2. i \in Index /\ operator_snapshots[i].g1_pubkey \in Keys
      <4>1. /\ i \in Index
            /\ operator_snapshots[i] = [operator |-> o, g1_pubkey |-> ncn_operator_account[o]]
            /\ ncn_operator_account[o] \in Keys
        BY SlotOfOperator
      <4>2. QED
        BY <4>1
    <3>3. /\ d \in [Keys -> Int]
          /\ \A k \in Keys : d[k] =
               (IF EmptySlot.g1_pubkey = k THEN 1 ELSE 0)
                 - (IF operator_snapshots[i].g1_pubkey = k THEN 1 ELSE 0)
      BY DEF EmptySlot
    <3>4. \A k \in Keys : total_aggregated_g1_pubkey'[k] = total_aggregated_g1_pubkey[k] + d[k]
      BY <2>b, <3>1, <3>2 DEF Point, Minus, PointOf
    <3> HIDE DEF d
    <3>5. QED
      BY <2>c, <3>1, <3>2, <3>3, <3>4, EmptySlotIsOne
  <2>3. ASSUME NEW o \in Operators, NEW key \in Keys, RegisterOperator(o, key)
        PROVE  AggregateWithinOneOrphan'
    <3> DEFINE i == ncn_operator_index[o]
               r == [operator |-> o, g1_pubkey |-> key]
    <3>1. /\ i \in Index
          /\ operator_snapshots[i] = EmptySlot
          /\ operator_snapshots' = [operator_snapshots EXCEPT ![i] = r]
          /\ r \in OperatorSnapshot
      BY <2>3 DEF RegisterOperator, TypeOK, Index, OperatorSnapshot
    <3>2. PointOf(key) \in [Keys -> Int]
      BY DEF PointOf
    <3>3. \A k \in Keys : PointOf(key)[k] =
            (IF r.g1_pubkey = k THEN 1 ELSE 0)
              - (IF operator_snapshots[i].g1_pubkey = k THEN 1 ELSE 0)
      BY <3>1 DEF PointOf, EmptySlot
    <3>4. \A k \in Keys : total_aggregated_g1_pubkey'[k]
                              = total_aggregated_g1_pubkey[k] + PointOf(key)[k]
      BY <2>3, <2>b DEF RegisterOperator, register_operator_g1_pubkey, Plus
    <3> HIDE DEF i, r
    <3>5. QED
      BY <2>c, <3>1, <3>2, <3>3, <3>4
  <2>4. ASSUME NEW o \in Operators, NEW key \in Keys, UpdateOperatorBN128Keys(o, key)
        PROVE  AggregateWithinOneOrphan'
    <3>1. CASE ReplaceAggregate(o, key)
      <4>1. operators_registered = 1 /\ Registered(o) /\ total_aggregated_g1_pubkey' = PointOf(key)
        BY <2>4, <3>1 DEF UpdateOperatorBN128Keys, ReplaceAggregate
      <4>2. \A j \in Index : j \notin SlotsOf(o) => operator_snapshots[j] = EmptySlot
        BY <4>1, SoleRegistration
      <4>3. CASE SlotsOf(o) = {}
        <5>1. \A j \in Index : operator_snapshots'[j] = EmptySlot
          BY <3>1, <4>2, <4>3 DEF ReplaceAggregate
        <5>2. \A k \in Keys : {j \in Index : operator_snapshots'[j].g1_pubkey = k} = {}
          BY <5>1 DEF EmptySlot
        <5>3. LiveSum' = Identity
          BY <5>2, FS_EmptySet DEF LiveSum, SumOf, Identity
        <5>4. total_aggregated_g1_pubkey' = Plus(LiveSum', PointOf(key))
          BY <4>1, <5>3 DEF Identity, Plus, PointOf
        <5>5. Removed(o)'
          BY <2>a, <4>1, <4>3 DEF Removed
        <5>6. QED
          BY <5>4, <5>5 DEF AggregateWithinOneOrphan
      <4>4. ASSUME NEW i \in SlotsOf(o)
            PROVE  AggregateWithinOneOrphan'
        <5>1. i \in Index /\ SlotsOf(o) = {i}
          BY SlotOfOperator
        <5>2. \A j \in Index : operator_snapshots'[j] =
                IF j = i THEN [operator |-> o, g1_pubkey |-> key] ELSE EmptySlot
          BY <3>1, <4>2, <5>1 DEF ReplaceAggregate
        <5>3. \A k \in Keys : {j \in Index : operator_snapshots'[j].g1_pubkey = k}
                                 = IF k = key THEN {i} ELSE {}
          BY <5>1, <5>2 DEF EmptySlot
        <5>4. LiveSum' = PointOf(key)
          BY <5>3, FS_EmptySet, FS_Singleton DEF LiveSum, SumOf, PointOf
        <5>5. QED
          BY <4>1, <5>4 DEF AggregateWithinOneOrphan
      <4>5. QED
        BY <4>3, <4>4
    <3>2. CASE SwapKey(o, key)
      <4>1. PICK i \in SlotsOf(o) :
              /\ total_aggregated_g1_pubkey' =
                   Plus(Minus(total_aggregated_g1_pubkey,
                              PointOf(operator_snapshots[i].g1_pubkey)),
                        PointOf(key))
              /\ operator_snapshots' =
                   [operator_snapshots EXCEPT ![i] = [operator |-> o, g1_pubkey |-> key]]
        BY <3>2 DEF SwapKey
      <4> DEFINE r == [operator |-> o, g1_pubkey |-> key]
                 d == [k \in Keys |->
                        (IF key = k THEN 1 ELSE 0)
                          - (IF operator_snapshots[i].g1_pubkey = k THEN 1 ELSE 0)]
      <4>2. i \in Index /\ r \in OperatorSnapshot
        BY DEF SlotsOf, OperatorSnapshot
      <4>3. /\ d \in [Keys -> Int]
            /\ \A k \in Keys : d[k] =
                 (IF r.g1_pubkey = k THEN 1 ELSE 0)
                   - (IF operator_snapshots[i].g1_pubkey = k THEN 1 ELSE 0)
        OBVIOUS
      <4>4. \A k \in Keys : total_aggregated_g1_pubkey'[k] = total_aggregated_g1_pubkey[k] + d[k]
        BY <2>b, <4>1 DEF Point, Plus, Minus, PointOf
      <4>5. operator_snapshots' = [operator_snapshots EXCEPT ![i] = r]
        BY <4>1
      <4> HIDE DEF d, r
      <4>6. QED
        BY <2>c, <4>2, <4>3, <4>4, <4>5
    <3>3. CASE SwapNothing(o)
      BY <3>3, <2>a DEF SwapNothing, AggregateWithinOneOrphan, LiveSum
    <3>4. QED
      BY <2>4, <3>1, <3>2, <3>3 DEF UpdateOperatorBN128Keys
  <2>5. CASE UNCHANGED vars
    BY <2>5, <2>a DEF vars, slotVars, aggregateVars, AggregateWithinOneOrphan, LiveSum
  <2>6. QED
    BY <2>1, <2>2, <2>3, <2>4, <2>5 DEF Next
<1>3. QED
  BY <1>1, <1>2, TypeCorrect, IndexInvariant, SlotsMatch, CountsRegistrations, PTL DEF Spec
(***************************************************************************)
(* Refinement of the abstract signer set                                   *)
(***************************************************************************)

\* The signers, read off the accounts instead of the slots.
AccountKey(o) == IF SlotsOf(o) = {} THEN None ELSE ncn_operator_account[o]
AccountSigners == [o \in Operators |-> AccountKey(o)]

LEMMA SignersFromAccounts == TypeOK /\ SlotsMatchAccounts => Signers = AccountSigners
<1> SUFFICES ASSUME TypeOK, SlotsMatchAccounts PROVE Signers = AccountSigners
  OBVIOUS
<1>1. ASSUME NEW o \in Operators, SlotsOf(o) # {}
      PROVE  KeyInSlot(o) = ncn_operator_account[o]
  <2> DEFINE i == CHOOSE j \in SlotsOf(o) : TRUE
  <2>1. i \in SlotsOf(o)
    BY <1>1
  <2> HIDE DEF i
  <2>2. operator_snapshots[i] = [operator |-> o, g1_pubkey |-> ncn_operator_account[o]]
    BY <2>1, SlotOfOperator
  <2>3. QED
    BY <2>2 DEF KeyInSlot, i
<1>2. QED
  BY <1>1 DEF Signers, AccountSigners, AccountKey

\* Every instruction that touches the operator set is a step of the abstract
\* signer set: one key per operator, no return after leaving, and a version that
\* moves by one with every change.
THEOREM ImplementsAbstractSet == Spec => ImplementsSignerSet
<1>1. Init => Set!Init
  <2> SUFFICES ASSUME Init PROVE Set!Init
    OBVIOUS
  <2>1. \A o \in Operators : SlotsOf(o) = {} /\ ~Removed(o)
    BY OperatorSetAssumption DEF Init, SlotsOf, Removed, Registered, EmptySlot
  <2>2. Signers = [o \in Operators |-> None] /\ RemovedOperators = {}
    BY <2>1 DEF Signers, RemovedOperators
  <2>3. QED
    BY <2>2 DEF Init, Set!Init
<1>2. /\ TypeOK /\ IndexInv /\ SlotsMatchAccounts
      /\ TypeOK' /\ SlotsMatchAccounts'
      /\ [Next]_vars
      => [Set!Next]_(Set!setVars)
  <2> SUFFICES ASSUME TypeOK, IndexInv, SlotsMatchAccounts, TypeOK', SlotsMatchAccounts',
                      [Next]_vars
               PROVE  Set!Next \/ UNCHANGED Set!setVars
    BY DEF Set!setVars
  <2> USE OperatorSetAssumption
  <2>a. Signers = [p \in Operators |-> AccountKey(p)]
    BY SignersFromAccounts DEF AccountSigners
  <2>b. Signers' = [p \in Operators |-> AccountKey(p)']
    <3>1. (TypeOK /\ SlotsMatchAccounts => Signers = AccountSigners)'
      BY SignersFromAccounts, PTL
    <3>2. QED
      BY <3>1 DEF AccountSigners
  <2>1. ASSUME NEW o \in Operators, InitializeNcnOperatorState(o)
        PROVE  UNCHANGED Set!setVars
    BY <2>1 DEF InitializeNcnOperatorState, slotVars, aggregateVars, Set!setVars, Signers,
                KeyInSlot, SlotsOf, RemovedOperators, Removed, Registered
  <2>2. ASSUME NEW o \in Operators, RemoveOperator(o)
        PROVE  Set!Leave(o)
    <3>1. PICK i \in SlotsOf(o) :
            operator_snapshots' = [operator_snapshots EXCEPT ![i] = EmptySlot]
      BY <2>2 DEF RemoveOperator
    <3>2. SlotsOf(o) = {i} /\ ncn_operator_account[o] \in Keys
      BY SlotOfOperator
    <3>3. SlotsOf(o)' = {} /\ (\A p \in Operators : p # o => SlotsOf(p)' = SlotsOf(p))
      BY <3>1, <3>2 DEF TypeOK, SlotsOf, EmptySlot
    <3>4. ncn_operator_account' = ncn_operator_account /\ generation' = generation + 1
      BY <2>2 DEF RemoveOperator, BumpGeneration
    <3>5. Signers[o] # None
      BY <2>a, <3>2 DEF AccountKey
    <3>6. Signers' = [Signers EXCEPT ![o] = None]
      BY <2>a, <2>b, <3>2, <3>3, <3>4 DEF AccountKey
    <3>7. RemovedOperators' = RemovedOperators \cup {o}
      BY <3>2, <3>3, <3>4 DEF RemovedOperators, Removed, Registered
    <3>8. QED
      BY <3>4, <3>5, <3>6, <3>7 DEF Set!Leave, Set!NextVersion
  <2>3. ASSUME NEW o \in Operators, NEW key \in Keys, RegisterOperator(o, key)
        PROVE  Set!Join(o, key)
    <3> DEFINE i == ncn_operator_index[o]
    <3>1. /\ i \in Index
          /\ operator_snapshots[i] = EmptySlot
          /\ operator_snapshots' =
               [operator_snapshots EXCEPT ![i] = [operator |-> o, g1_pubkey |-> key]]
          /\ ncn_operator_account' = [ncn_operator_account EXCEPT ![o] = key]
          /\ generation' = generation + 1
          /\ ~Registered(o)
      BY <2>3 DEF RegisterOperator, BumpGeneration, TypeOK, Index
    <3> HIDE DEF i
    <3>2. SlotsOf(o) = {}
      BY <3>1 DEF SlotsOf, SlotsMatchAccounts
    <3>3. SlotsOf(o)' = {i} /\ (\A p \in Operators : p # o => SlotsOf(p)' = SlotsOf(p))
      BY <3>1, <3>2 DEF TypeOK, SlotsOf, EmptySlot
    <3>4. Signers[o] = None
      BY <2>a, <3>2 DEF AccountKey
    <3>5. Signers' = [Signers EXCEPT ![o] = key]
      BY <2>a, <2>b, <3>1, <3>3 DEF AccountKey, TypeOK
    <3>6. o \notin RemovedOperators /\ RemovedOperators' = RemovedOperators
      BY <3>1, <3>3 DEF RemovedOperators, Removed, Registered, TypeOK
    <3>7. QED
      BY <3>1, <3>4, <3>5, <3>6 DEF Set!Join, Set!NextVersion
  <2>4. ASSUME NEW o \in Operators, NEW key \in Keys, UpdateOperatorBN128Keys(o, key)
        PROVE  Set!Rotate(o, key) \/ Set!RotateRetired(o)
    <3>1. /\ ncn_operator_account' = [ncn_operator_account EXCEPT ![o] = key]
          /\ generation' = generation + 1
          /\ Registered(o)
          /\ ReplaceAggregate(o, key) \/ SwapKey(o, key) \/ SwapNothing(o)
      BY <2>4 DEF UpdateOperatorBN128Keys, BumpGeneration
    <3>2. \A j \in Index : operator_snapshots'[j].operator = operator_snapshots[j].operator
      BY <3>1 DEF ReplaceAggregate, SwapKey, SwapNothing, SlotsOf, TypeOK, OperatorSnapshot
    <3>3. \A p \in Operators : SlotsOf(p)' = SlotsOf(p)
      BY <3>2 DEF SlotsOf
    <3>4. RemovedOperators' = RemovedOperators
      BY <3>1, <3>3 DEF RemovedOperators, Removed, Registered, TypeOK
    <3>5. CASE SlotsOf(o) = {}
      <4>1. Signers' = Signers
        BY <2>a, <2>b, <3>1, <3>3, <3>5 DEF AccountKey, TypeOK
      <4>2. o \in RemovedOperators
        BY <3>1, <3>5 DEF RemovedOperators, Removed
      <4>3. QED
        BY <3>1, <3>4, <4>1, <4>2 DEF Set!RotateRetired, Set!NextVersion
    <3>6. CASE SlotsOf(o) # {}
      <4>1. Signers' = [Signers EXCEPT ![o] = key]
        BY <2>a, <2>b, <3>1, <3>3, <3>6 DEF AccountKey, TypeOK
      <4>2. Signers[o] # None
        <5>1. PICK i \in SlotsOf(o) : TRUE
          BY <3>6
        <5>2. ncn_operator_account[o] \in Keys
          BY <5>1, SlotOfOperator
        <5>3. Signers[o] = ncn_operator_account[o]
          BY <2>a, <3>6 DEF AccountKey
        <5>4. QED
          BY <5>2, <5>3
      <4>3. QED
        BY <3>1, <3>4, <4>1, <4>2 DEF Set!Rotate, Set!NextVersion
    <3>7. QED
      BY <3>5, <3>6
  <2>5. CASE UNCHANGED vars
    BY <2>5 DEF vars, slotVars, aggregateVars, Set!setVars, Signers, KeyInSlot, SlotsOf,
                RemovedOperators, Removed, Registered
  <2>6. QED
    BY <2>1, <2>2, <2>3, <2>4, <2>5 DEF Next, Set!Next
<1>3. QED
  BY <1>1, <1>2, TypeCorrect, IndexInvariant, SlotsMatch, PTL DEF Spec, ImplementsSignerSet, Set!Spec
(***************************************************************************)
(* The generation                                                          *)
(***************************************************************************)

\* The generation never goes back, and while it stays the slots stay.
LEMMA GenerationGuardsSlots ==
    ASSUME TypeOK, [Next]_vars
    PROVE  /\ generation' >= generation
           /\ generation' = generation => operator_snapshots' = operator_snapshots
<1> USE OperatorSetAssumption DEF TypeOK
<1>1. ASSUME NEW o \in Operators, InitializeNcnOperatorState(o)
      PROVE  UNCHANGED <<operator_snapshots, generation>>
  BY <1>1 DEF InitializeNcnOperatorState, slotVars, aggregateVars
<1>2. ASSUME NEW o \in Operators,
             \/ RemoveOperator(o)
             \/ \E key \in Keys : RegisterOperator(o, key) \/ UpdateOperatorBN128Keys(o, key)
      PROVE  generation' = generation + 1
  BY <1>2 DEF RemoveOperator, RegisterOperator, UpdateOperatorBN128Keys, BumpGeneration
<1>3. CASE UNCHANGED vars
  BY <1>3 DEF vars, slotVars, aggregateVars
<1>4. QED
  BY <1>1, <1>2, <1>3 DEF Next
===============================================================================
