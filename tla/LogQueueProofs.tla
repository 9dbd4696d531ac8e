--------------------------- MODULE LogQueueProofs ---------------------------
(***************************************************************************)
(* Proofs about the worker log queue, for every number of producers, ring  *)
(* capacity, drain limit and number of pushes.                             *)
(***************************************************************************)
EXTENDS LogQueue, FoldProofs

\* The wrap-around increment of head and tail, without the modulo.
LEMMA SuccWraps ==
    ASSUME NEW i \in Slots
    PROVE  /\ Succ(i) \in Slots
           /\ Succ(i) = IF i + 1 = Capacity THEN 0 ELSE i + 1
<1>1. Capacity \in Nat /\ Capacity > 0 /\ i \in Nat /\ i < Capacity
  BY LogQueueAssumption DEF Slots
<1>2. CASE i + 1 = Capacity
  <2>1. (i + 1) % Capacity = 0
    BY <1>1, <1>2
  <2> QED  BY <1>1, <1>2, <2>1 DEF Succ, Slots
<1>3. CASE i + 1 # Capacity
  <2>1. (i + 1) % Capacity = i + 1
    BY <1>1, <1>3
  <2> QED  BY <1>1, <1>3, <2>1 DEF Succ, Slots
<1> QED  BY <1>2, <1>3

-----------------------------------------------------------------------------
(* Types and the mutex.                                                    *)

\* A call in progress is the producer's current one, so its record is a Record.
CallsStarted == \A p \in Producers : pc[p] # "idle" => pushes[p] \in 1 .. MaxPush

\* A drain that delivers holds a record, and queued slots hold records.
TypeInv == TypeOK /\ LockDiscipline /\ CallsStarted

\* TypeOK and the mutex discipline, with what they need to be inductive.
SafetyInv == TypeInv /\ RingHoldsUndelivered

LEMMA InitSafety == Init => SafetyInv
<1> SUFFICES ASSUME Init PROVE SafetyInv
  OBVIOUS
<1> USE LogQueueAssumption DEF Init
<1>1. TypeOK
  BY DEF TypeOK, Slots, Zeroed
<1>2. LockDiscipline /\ CallsStarted
  BY DEF LockDiscipline, CallsStarted
<1>3. RingHoldsUndelivered
  BY DEF RingHoldsUndelivered, At, InHand
<1> QED  BY <1>1, <1>2, <1>3 DEF SafetyInv, TypeInv

\* A record of a call in progress.
LEMMA MessageType ==
    ASSUME TypeOK, CallsStarted, NEW p \in Producers, pc[p] # "idle"
    PROVE  Message(p) \in Record
BY DEF TypeOK, CallsStarted, Message, Record

\* Producer steps.
LEMMA PushTyped ==
    ASSUME TypeInv, NEW p \in Producers, Push(p)
    PROVE  TypeInv'
<1> USE LogQueueAssumption DEF TypeInv
<1>1. CASE PushTryLock(p)
  <2>0. pushes' \in [Producers -> 0 .. MaxPush]
    <3>1. pushes[p] + 1 \in 0 .. MaxPush
      BY <1>1 DEF TypeOK, PushTryLock
    <3> QED  BY <1>1, <3>1 DEF TypeOK, PushTryLock
  <2>1. TypeOK'
    <3>1. CASE lock = Free
      BY <1>1, <2>0, <3>1 DEF TypeOK, PushTryLock, ring, counters, drain
    <3>2. CASE lock # Free
      <4>1. /\ lock' = lock /\ full_dropped' = full_dropped /\ dropped' = dropped
            /\ contention_dropped' = contention_dropped + 1
            /\ pc' = [pc EXCEPT ![p] = "contended"]
        BY <1>1, <3>2 DEF PushTryLock
      <4>2. contention_dropped' \in Nat /\ pc' \in [Producers -> {"idle", "locked", "contended", "full"}]
        BY <4>1 DEF TypeOK
      <4> QED  BY <1>1, <2>0, <4>1, <4>2 DEF TypeOK, PushTryLock, ring, drain
    <3> QED  BY <3>1, <3>2
  <2>2. LockDiscipline'
    BY <1>1 DEF TypeOK, LockDiscipline, PushTryLock, ring, counters, drain
  <2>3. CallsStarted'
    BY <1>1 DEF TypeOK, CallsStarted, PushTryLock
  <2> QED  BY <2>1, <2>2, <2>3
<1>2. CASE PushStore(p)
  <2>1. Message(p) \in Record
    BY <1>2, MessageType DEF PushStore
  <2>2. Succ(tail) \in Slots
    BY SuccWraps DEF TypeOK
  <2>3. TypeOK'
    BY <1>2, <2>1, <2>2 DEF TypeOK, PushStore, Full, counters, drain
  <2>4. LockDiscipline'
    BY <1>2 DEF TypeOK, LockDiscipline, PushStore, drain
  <2>5. CallsStarted'
    BY <1>2 DEF TypeOK, CallsStarted, PushStore
  <2> QED  BY <2>3, <2>4, <2>5
<1>3. CASE PushFull(p)
  BY <1>3 DEF TypeOK, LockDiscipline, CallsStarted, PushFull, ring, drain
<1>4. CASE PushCountDrop(p)
  BY <1>4 DEF TypeOK, LockDiscipline, CallsStarted, PushCountDrop, ring, drain
<1> QED  BY <1>1, <1>2, <1>3, <1>4 DEF Push, PushRest

OwnerStep == DepthLock \/ DrainStep \/ \E max \in DrainLimits : DrainCall(max)

\* Owner steps.  The record a drain takes out of the ring is a stored one.
LEMMA OwnerTyped ==
    ASSUME SafetyInv, OwnerStep
    PROVE  TypeInv'
<1> USE LogQueueAssumption DEF TypeInv, SafetyInv
<1>1. CASE DepthLock
  BY <1>1 DEF TypeOK, LockDiscipline, CallsStarted, DepthLock, ring, counters
<1>2. CASE \E max \in DrainLimits : DrainCall(max)
  BY <1>2 DEF TypeOK, LockDiscipline, CallsStarted, DrainCall, ring, counters
<1>3. CASE DepthUnlock
  BY <1>3 DEF TypeOK, LockDiscipline, CallsStarted, DepthUnlock, ring, counters
<1>4. CASE DrainBudgetSpent
  BY <1>4 DEF TypeOK, LockDiscipline, CallsStarted, DrainBudgetSpent, ring, counters
<1>5. CASE DrainLock
  BY <1>5 DEF TypeOK, LockDiscipline, CallsStarted, DrainLock, ring, counters
<1>6. CASE DrainEmpty
  BY <1>6 DEF TypeOK, LockDiscipline, CallsStarted, DrainEmpty, ring, counters
<1>7. CASE DrainTake
  <2>1. Succ(head) \in Slots
    BY SuccWraps DEF TypeOK
  <2>2. TypeOK'
    BY <1>7, <2>1 DEF TypeOK, DrainTake, counters
  <2> QED  BY <1>7, <2>2 DEF TypeOK, LockDiscipline, CallsStarted, DrainTake
<1>8. CASE DrainDeliver
  <2>1. item \in Record
    BY <1>8 DEF TypeOK, RingHoldsUndelivered, InHand, DrainDeliver
  <2>2. TypeOK'
    BY <1>8, <2>1 DEF TypeOK, DrainDeliver, ring, counters
  <2> QED  BY <1>8, <2>2 DEF TypeOK, LockDiscipline, CallsStarted, DrainDeliver
<1> QED  BY <1>1, <1>2, <1>3, <1>4, <1>5, <1>6, <1>7, <1>8 DEF OwnerStep, DrainStep

-----------------------------------------------------------------------------
(* The contents of the ring.                                               *)

\* At() walks the ring from head: it stays inside, one step of it is Succ, and
\* two different distances below the capacity are two different slots.
LEMMA AtWalksTheRing ==
    ASSUME TypeOK, NEW i \in 0 .. Capacity - 1
    PROVE  /\ At(i) \in Slots
           /\ At(i + 1) = Succ(At(i))
           /\ \A j \in 0 .. Capacity - 1 : At(i) = At(j) => i = j
<1>1. /\ Capacity \in Nat \ {0} /\ head \in Nat /\ head < Capacity
  BY LogQueueAssumption DEF TypeOK, Slots
<1>2. At(i) \in Slots
  BY <1>1 DEF At, Slots
<1>3. Succ(At(i)) = IF At(i) + 1 = Capacity THEN 0 ELSE At(i) + 1
  BY <1>2, SuccWraps
<1> QED  BY <1>1, <1>2, <1>3 DEF At

LEMMA PushKeepsRing ==
    ASSUME SafetyInv, NEW p \in Producers, Push(p)
    PROVE  RingHoldsUndelivered'
<1> USE LogQueueAssumption DEF SafetyInv, TypeInv
<1>1. CASE PushTryLock(p) \/ PushFull(p) \/ PushCountDrop(p)
  BY <1>1 DEF RingHoldsUndelivered, At, InHand, PushTryLock, PushFull, PushCountDrop, ring, drain
<1>2. CASE PushStore(p)
  <2>1. length \in 0 .. Capacity - 1 /\ tail = At(length) /\ tail \in Slots
    BY <1>2 DEF TypeOK, PushStore, Full, RingHoldsUndelivered
  <2>2. Message(p) \in Record
    BY <1>2, MessageType DEF PushStore
  <2>3. \A i \in 0 .. length + 1 : At(i)' = At(i)
    BY <1>2 DEF At, PushStore
  <2>4. tail' = At(length)'
    <3>1. At(length + 1) = Succ(tail)
      BY <2>1, AtWalksTheRing
    <3> QED  BY <1>2, <3>1 DEF PushStore, At
  <2>5. /\ Len(accepted') = Len(accepted) + 1
        /\ \A k \in 1 .. Len(accepted) : accepted'[k] = accepted[k]
        /\ accepted'[Len(accepted) + 1] = Message(p)
    BY <1>2, <2>2 DEF TypeOK, PushStore
  <2>6. InHand' = InHand /\ InHand \in Nat /\ delivered' = delivered /\ Len(delivered) \in Nat
    BY <1>2 DEF InHand, PushStore, drain, TypeOK
  <2>7. Len(accepted') = Len(delivered') + InHand' + length'
    BY <1>2, <2>1, <2>5, <2>6 DEF PushStore, RingHoldsUndelivered, TypeOK
  <2>8. ASSUME NEW i \in 0 .. length' - 1
        PROVE  records'[At(i)'] = accepted'[Len(delivered') + InHand' + i + 1]
    <3>1. i \in 0 .. length /\ i \in 0 .. Capacity - 1 /\ At(i)' = At(i)
      BY <1>2, <2>1, <2>3 DEF PushStore
    <3>2. CASE i = length
      <4>1. records'[At(i)'] = Message(p)
        BY <1>2, <2>1, <3>1, <3>2 DEF PushStore, TypeOK
      <4>2. Len(delivered') + InHand' + i + 1 = Len(accepted) + 1
        BY <2>1, <2>6, <3>2 DEF RingHoldsUndelivered
      <4> QED  BY <2>5, <4>1, <4>2
    <3>3. CASE i < length
      <4>1. At(i) # tail
        BY <2>1, <3>1, <3>3, AtWalksTheRing
      <4>2. records'[At(i)'] = records[At(i)]
        BY <1>2, <3>1, <4>1, AtWalksTheRing DEF PushStore, TypeOK
      <4>3. Len(delivered) + InHand + i + 1 \in 1 .. Len(accepted)
        BY <2>1, <2>6, <3>1, <3>3 DEF RingHoldsUndelivered
      <4>4. records[At(i)] = accepted[Len(delivered) + InHand + i + 1]
        BY <2>1, <3>1, <3>3 DEF RingHoldsUndelivered
      <4> QED  BY <2>5, <2>6, <4>2, <4>3, <4>4
    <3> QED  BY <2>1, <3>1, <3>2, <3>3
  <2>9. dpc' = "deliver" => item' = accepted'[Len(delivered') + 1]
    BY <1>2, <2>1, <2>5, <2>6 DEF PushStore, RingHoldsUndelivered, InHand, drain
  <2>10. \A i \in 1 .. Len(delivered') : delivered'[i] = accepted'[i]
    BY <2>1, <2>5, <2>6 DEF RingHoldsUndelivered
  <2> QED  BY <2>4, <2>7, <2>8, <2>9, <2>10 DEF RingHoldsUndelivered
<1> QED  BY <1>1, <1>2 DEF Push, PushRest

LEMMA OwnerKeepsRing ==
    ASSUME SafetyInv, OwnerStep
    PROVE  RingHoldsUndelivered'
<1> USE LogQueueAssumption DEF SafetyInv, TypeInv
<1>1. CASE DepthLock \/ DepthUnlock \/ DrainBudgetSpent \/ DrainLock \/ DrainEmpty
  BY <1>1 DEF RingHoldsUndelivered, At, InHand, DepthLock, DepthUnlock, DrainBudgetSpent,
              DrainLock, DrainEmpty, ring
<1>2. CASE \E max \in DrainLimits : DrainCall(max)
  BY <1>2 DEF RingHoldsUndelivered, At, InHand, DrainCall, ring
<1>3. CASE DrainTake
  <2>1. /\ length \in 1 .. Capacity /\ InHand = 0 /\ InHand' = 1
        /\ length' = length - 1 /\ head' = Succ(head) /\ records' = records /\ tail' = tail
        /\ accepted' = accepted /\ delivered' = delivered /\ Len(delivered) \in Nat
    BY <1>3 DEF TypeOK, DrainTake, InHand
  <2>2. Capacity \in Nat \ {0} /\ head \in Nat /\ head < Capacity
    BY DEF TypeOK, Slots
  <2>3. Succ(head) = IF head + 1 = Capacity THEN 0 ELSE head + 1
    BY SuccWraps DEF TypeOK
  <2>4. ASSUME NEW i \in 0 .. Capacity - 1
        PROVE  At(i)' = At(i + 1)
    BY <2>1, <2>2, <2>3 DEF At
  <2>5. At(0) = head
    BY <2>2 DEF At
  <2>6. tail' = At(length)'
    BY <2>1, <2>2, <2>3 DEF RingHoldsUndelivered, At
  <2>7. Len(accepted') = Len(delivered') + InHand' + length'
    BY <2>1 DEF RingHoldsUndelivered
  <2>8. ASSUME NEW i \in 0 .. length' - 1
        PROVE  records'[At(i)'] = accepted'[Len(delivered') + InHand' + i + 1]
    <3>1. i + 1 \in 0 .. length - 1 /\ i \in 0 .. Capacity - 1
      BY <2>1
    <3>2. records[At(i + 1)] = accepted[Len(delivered) + InHand + (i + 1) + 1]
      BY <3>1 DEF RingHoldsUndelivered
    <3>3. Len(delivered) + InHand + (i + 1) + 1 = Len(delivered') + InHand' + i + 1
      BY <2>1
    <3> QED  BY <2>1, <2>4, <3>1, <3>2, <3>3
  <2>9. item' = accepted'[Len(delivered') + 1]
    <3>1. records[At(0)] = accepted[Len(delivered) + InHand + 0 + 1]
      BY <2>1 DEF RingHoldsUndelivered
    <3> QED  BY <1>3, <2>1, <2>5, <3>1 DEF DrainTake
  <2>10. \A i \in 1 .. Len(delivered') : delivered'[i] = accepted'[i]
    BY <2>1 DEF RingHoldsUndelivered
  <2> QED  BY <2>6, <2>7, <2>8, <2>9, <2>10 DEF RingHoldsUndelivered
<1>4. CASE DrainDeliver
  <2>1. /\ InHand = 1 /\ InHand' = 0 /\ item = accepted[Len(delivered) + 1]
        /\ <<head, tail, length, records, accepted>>' = <<head, tail, length, records, accepted>>
    BY <1>4 DEF DrainDeliver, InHand, RingHoldsUndelivered, ring
  <2>2. item \in Record
    BY <2>1 DEF RingHoldsUndelivered, TypeOK
  <2>3. /\ Len(delivered') = Len(delivered) + 1 /\ Len(delivered) \in Nat
        /\ \A k \in 1 .. Len(delivered) : delivered'[k] = delivered[k]
        /\ delivered'[Len(delivered) + 1] = item
    BY <1>4, <2>2 DEF DrainDeliver, TypeOK
  <2>4. tail' = At(length)' /\ \A i \in 0 .. length : At(i)' = At(i)
    BY <2>1 DEF RingHoldsUndelivered, At
  <2>5. Len(accepted') = Len(delivered') + InHand' + length'
    BY <2>1, <2>3 DEF RingHoldsUndelivered, TypeOK
  <2>6. ASSUME NEW i \in 0 .. length' - 1
        PROVE  records'[At(i)'] = accepted'[Len(delivered') + InHand' + i + 1]
    BY <2>1, <2>3, <2>4 DEF RingHoldsUndelivered, TypeOK
  <2>7. dpc' # "deliver"
    BY <1>4 DEF DrainDeliver
  <2>8. \A i \in 1 .. Len(delivered') : delivered'[i] = accepted'[i]
    BY <2>1, <2>3 DEF RingHoldsUndelivered
  <2> QED  BY <2>4, <2>5, <2>6, <2>7, <2>8 DEF RingHoldsUndelivered
<1> QED  BY <1>1, <1>2, <1>3, <1>4 DEF OwnerStep, DrainStep

LEMMA StepSafety == SafetyInv /\ [Next]_vars => SafetyInv'
<1> SUFFICES ASSUME SafetyInv, [Next]_vars PROVE SafetyInv'
  OBVIOUS
<1>1. ASSUME NEW p \in Producers, Push(p) PROVE SafetyInv'
  BY <1>1, PushTyped, PushKeepsRing DEF SafetyInv
<1>2. CASE OwnerStep
  BY <1>2, OwnerTyped, OwnerKeepsRing DEF SafetyInv
<1>3. CASE UNCHANGED vars
  BY <1>3 DEF vars, ring, counters, drain, SafetyInv, TypeInv, TypeOK, LockDiscipline,
              CallsStarted, RingHoldsUndelivered, At, InHand
<1> QED  BY <1>1, <1>2, <1>3 DEF Next, OwnerStep

LEMMA SafetyAlways == Spec => []SafetyInv
<1> QED  BY InitSafety, StepSafety, PTL DEF Spec

\* No push, depth or drain of log-queue.c ever indexes outside the ring or lets
\* the length pass the capacity.
THEOREM TypeCorrect == Spec => []TypeOK
<1>1. SafetyInv => TypeOK
  BY DEF SafetyInv, TypeInv
<1> QED  BY <1>1, SafetyAlways, PTL

\* Every critical section of log-queue.c is entered with the mutex and left
\* without it, on the stored, the full and the contended path of a push too.
THEOREM LockAlwaysDisciplined == Spec => []LockDiscipline
<1>1. SafetyInv => LockDiscipline
  BY DEF SafetyInv, TypeInv
<1> QED  BY <1>1, SafetyAlways, PTL

\* The ring always holds exactly the accepted records not yet taken, in order.
THEOREM RingIsExact == Spec => []RingHoldsUndelivered
<1>1. SafetyInv => RingHoldsUndelivered
  BY DEF SafetyInv
<1> QED  BY <1>1, SafetyAlways, PTL

-----------------------------------------------------------------------------
(* Losses.                                                                 *)

Calling == {p \in Producers : pc[p] # "idle"}
Losing  == {p \in Producers : pc[p] \in {"contended", "full"}}

\* The accounts, with names for their parts.
Accounts ==
    /\ Total(pushes, Producers) = Len(accepted) + dropped + Cardinality(Calling)
    /\ contention_dropped + full_dropped = dropped + Cardinality(Losing)

LEMMA AccountsAre == Accounts <=> DropAccounting
BY DEF Accounts, DropAccounting, Total, Calling, Losing

\* The numbers the accounts are made of.
LEMMA AccountTypes ==
    ASSUME TypeOK
    PROVE  /\ IsFiniteSet(Producers) /\ IsFiniteSet(Calling) /\ IsFiniteSet(Losing)
           /\ Cardinality(Calling) \in Nat /\ Cardinality(Losing) \in Nat
           /\ \A p \in Producers : pushes[p] \in Int
           /\ Total(pushes, Producers) \in Int /\ Len(accepted) \in Nat
           /\ dropped \in Nat /\ full_dropped \in Nat /\ contention_dropped \in Nat
<1>1. IsFiniteSet(Producers) /\ IsFiniteSet(Calling) /\ IsFiniteSet(Losing)
  BY LogQueueAssumption, FS_Subset DEF Calling, Losing
<1>2. \A p \in Producers : pushes[p] \in Int
  BY DEF TypeOK
<1>3. Total(pushes, Producers) \in Int
  BY <1>1, <1>2, TotalType
<1>4. Cardinality(Calling) \in Nat /\ Cardinality(Losing) \in Nat
  BY <1>1, FS_CardinalityType
<1> QED  BY <1>1, <1>2, <1>3, <1>4 DEF TypeOK

LEMMA InitAccounts ==
    ASSUME Init
    PROVE  Accounts
<1>1. TypeOK
  BY InitSafety DEF SafetyInv, TypeInv
<1>2. Calling = {} /\ Losing = {}
  BY DEF Init, Calling, Losing
<1>3. Cardinality(Calling) = 0 /\ Cardinality(Losing) = 0
  BY <1>2, FS_EmptySet
<1>4. PICK C : C = {s \in SUBSET Producers : Total(pushes, s) = 0}
  OBVIOUS
<1>5. {} \in C /\ C \in SUBSET (SUBSET Producers)
  BY <1>4, TotalNone
<1>6. ASSUME NEW s \in SUBSET Producers, s # {}, \A x \in s : s \ {x} \in C PROVE s \in C
  <2>1. PICK x \in s : TRUE
    BY <1>6
  <2>2. IsFiniteSet(s) /\ \A y \in s : pushes[y] \in Int
    BY <1>1, AccountTypes, FS_Subset
  <2>3. Total(pushes, s) = pushes[x] + Total(pushes, s \ {x})
    BY <2>2, TotalTakesOut
  <2>4. pushes[x] = 0 /\ Total(pushes, s \ {x}) = 0
    BY <1>4, <1>6 DEF Init
  <2> QED  BY <1>4, <2>3, <2>4
<1>7. Total(pushes, Producers) = 0
  <2>1. \A s \in SUBSET Producers : s \in C
    BY <1>1, <1>5, <1>6, AccountTypes, BuildsUp
  <2>2. Producers \in C
    BY <2>1
  <2> QED  BY <1>4, <2>2
<1> QED  BY <1>3, <1>7 DEF Init, Accounts

\* One more call is numbered as it begins; it is counted as under way until its record
\* is stored or its loss is in the total.
LEMMA PushAccounts ==
    ASSUME TypeOK, Accounts, NEW p \in Producers, Push(p)
    PROVE  Accounts'
<1>1. PICK calls, losses, total : calls = Calling /\ losses = Losing /\ total = Total(pushes, Producers)
  OBVIOUS
<1>2. /\ IsFiniteSet(Producers) /\ IsFiniteSet(calls) /\ IsFiniteSet(losses) /\ total \in Int
      /\ Cardinality(calls) \in Nat /\ Cardinality(losses) \in Nat /\ Len(accepted) \in Nat
      /\ dropped \in Nat /\ full_dropped \in Nat /\ contention_dropped \in Nat
      /\ \A q \in Producers : pushes[q] \in Int
  BY <1>1, AccountTypes
<1>3. /\ total = Len(accepted) + dropped + Cardinality(calls)
      /\ contention_dropped + full_dropped = dropped + Cardinality(losses)
  BY <1>1 DEF Accounts
<1>4. CASE PushTryLock(p)
  <2>1. p \notin calls /\ p \notin losses /\ Calling' = calls \cup {p}
    BY <1>1, <1>4 DEF PushTryLock, Calling, Losing, TypeOK
  <2>2. Cardinality(Calling') = Cardinality(calls) + 1
    BY <1>2, <2>1, FS_AddElement
  <2>3. Total(pushes', Producers) = total + 1
    <3>1. /\ pushes'[p] = pushes[p] + 1 /\ pushes'[p] \in Int
          /\ \A q \in Producers \ {p} : pushes'[q] = pushes[q]
      BY <1>2, <1>4 DEF PushTryLock, TypeOK
    <3>2. PICK e : e = pushes'
      OBVIOUS
    <3>3. Total(e, Producers) = Total(pushes, Producers) + e[p] - pushes[p]
      BY <1>2, <3>1, <3>2, TotalChanges
    <3>4. e[p] = pushes[p] + 1 /\ pushes[p] \in Int
      BY <1>2, <3>1, <3>2
    <3> QED  BY <1>1, <1>2, <3>2, <3>3, <3>4
  <2>4. accepted' = accepted /\ dropped' = dropped /\ full_dropped' = full_dropped
    BY <1>4 DEF PushTryLock, counters
  <2>5. CASE lock = Free
    <3>1. Losing' = losses /\ contention_dropped' = contention_dropped
      BY <1>1, <1>4, <2>5 DEF PushTryLock, counters, Losing, TypeOK
    <3> QED  BY <1>2, <1>3, <2>2, <2>3, <2>4, <3>1 DEF Accounts
  <2>6. CASE lock # Free
    <3>1. Losing' = losses \cup {p} /\ contention_dropped' = contention_dropped + 1
      BY <1>1, <1>4, <2>6 DEF PushTryLock, Losing, TypeOK
    <3>2. Cardinality(Losing') = Cardinality(losses) + 1
      BY <1>2, <2>1, <3>1, FS_AddElement
    <3> QED  BY <1>2, <1>3, <2>2, <2>3, <2>4, <3>1, <3>2 DEF Accounts
  <2> QED  BY <2>5, <2>6
<1>5. CASE PushStore(p)
  <2>1. p \in calls /\ Calling' = calls \ {p} /\ Losing' = losses
    BY <1>1, <1>5 DEF PushStore, Calling, Losing, TypeOK
  <2>2. Cardinality(Calling') = Cardinality(calls) - 1
    BY <1>2, <2>1, FS_RemoveElement
  <2>3. Len(accepted') = Len(accepted) + 1
    BY <1>5 DEF PushStore, TypeOK
  <2>4. pushes' = pushes /\ dropped' = dropped /\ full_dropped' = full_dropped /\ contention_dropped' = contention_dropped
    BY <1>5 DEF PushStore, counters
  <2> QED  BY <1>1, <1>2, <1>3, <2>1, <2>2, <2>3, <2>4 DEF Accounts
<1>6. CASE PushFull(p)
  <2>1. p \notin losses /\ Calling' = calls /\ Losing' = losses \cup {p}
    BY <1>1, <1>6 DEF PushFull, Calling, Losing, TypeOK
  <2>2. Cardinality(Losing') = Cardinality(losses) + 1
    BY <1>2, <2>1, FS_AddElement
  <2>3. /\ pushes' = pushes /\ dropped' = dropped /\ accepted' = accepted
        /\ full_dropped' = full_dropped + 1 /\ contention_dropped' = contention_dropped
    BY <1>6 DEF PushFull
  <2> QED  BY <1>1, <1>2, <1>3, <2>1, <2>2, <2>3 DEF Accounts
<1>7. CASE PushCountDrop(p)
  <2>1. p \in losses /\ p \in calls /\ Calling' = calls \ {p} /\ Losing' = losses \ {p}
    BY <1>1, <1>7 DEF PushCountDrop, Calling, Losing, TypeOK
  <2>2. Cardinality(Losing') = Cardinality(losses) - 1 /\ Cardinality(Calling') = Cardinality(calls) - 1
    BY <1>2, <2>1, FS_RemoveElement
  <2>3. /\ pushes' = pushes /\ dropped' = dropped + 1 /\ accepted' = accepted
        /\ full_dropped' = full_dropped /\ contention_dropped' = contention_dropped
    BY <1>7 DEF PushCountDrop
  <2>4. Total(pushes', Producers) = total
    BY <1>1, <2>3
  <2>5. total = Len(accepted') + dropped' + Cardinality(Calling')
    BY <1>2, <1>3, <2>2, <2>3
  <2>6. contention_dropped' + full_dropped' = dropped' + Cardinality(Losing')
    BY <1>2, <1>3, <2>2, <2>3
  <2> QED  BY <2>4, <2>5, <2>6 DEF Accounts
<1> QED  BY <1>4, <1>5, <1>6, <1>7 DEF Push, PushRest

\* The owner takes records that are accounted for.
LEMMA OwnerAccounts ==
    ASSUME Accounts, OwnerStep \/ UNCHANGED vars
    PROVE  Accounts'
<1>1. /\ pushes' = pushes /\ dropped' = dropped /\ accepted' = accepted /\ pc' = pc
      /\ full_dropped' = full_dropped /\ contention_dropped' = contention_dropped
  BY DEF OwnerStep, DrainStep, DepthLock, DrainCall, DepthUnlock, DrainBudgetSpent, DrainLock, DrainEmpty,
         DrainTake, DrainDeliver, counters, vars
<1> QED  BY <1>1 DEF Accounts, Calling, Losing

\* No message is lost without being counted: every push log-queue.c was asked for is
\* stored, in the total of dropped records, or still under way, and the total trails its
\* two parts by the calls that sit between their two increments.
THEOREM LossesAlwaysAccounted == Spec => []DropAccounting
<1>1. Init => Accounts
  BY InitAccounts
<1>2. SafetyInv /\ Accounts /\ [Next]_vars => Accounts'
  BY PushAccounts, OwnerAccounts DEF SafetyInv, TypeInv, Next, OwnerStep
<1>3. Accounts => DropAccounting
  BY AccountsAre
<1> QED  BY <1>1, <1>2, <1>3, SafetyAlways, PTL DEF Spec

-----------------------------------------------------------------------------
(* Refinement.                                                             *)

\* The log queue implements the bounded FIFO channel: a push that stores is an
\* Accept, the return of Log() is a Deliver, everything else stutters.
THEOREM QueueIsChannel == Spec => ImplementsChannel
<1>1. Init => Channel!Init
  BY DEF Init, Channel!Init
<1>2. ASSUME SafetyInv, [Next]_vars
      PROVE  [Channel!Next]_<<accepted, delivered>>
  <2> USE <1>2, LogQueueAssumption DEF SafetyInv, TypeInv
  <2>0. Len(accepted) \in Nat /\ Len(delivered) \in Nat /\ length \in 0 .. Capacity /\ InHand \in {0, 1}
        /\ Len(accepted) = Len(delivered) + InHand + length
    BY DEF TypeOK, InHand, RingHoldsUndelivered
  <2>1. ASSUME NEW p \in Producers, PushStore(p)
        PROVE  Channel!Next
    <3>1. Message(p) \in Record
      BY <2>1, MessageType DEF PushStore
    <3>2. Channel!Outstanding < Capacity + 1
      BY <2>0, <2>1 DEF Channel!Outstanding, PushStore, Full
    <3>3. Channel!Accept(Message(p))
      BY <2>1, <3>2 DEF Channel!Accept, PushStore
    <3> QED  BY <3>1, <3>3 DEF Channel!Next
  <2>2. CASE DrainDeliver
    <3>1. InHand = 1 /\ item = accepted[Len(delivered) + 1]
      BY <2>2 DEF DrainDeliver, InHand, RingHoldsUndelivered
    <3>2. Channel!Outstanding > 0
      BY <2>0, <3>1 DEF Channel!Outstanding
    <3> QED  BY <2>2, <3>1, <3>2 DEF Channel!Next, Channel!Deliver, DrainDeliver
  <2>3. ASSUME NEW p \in Producers, PushTryLock(p) \/ PushFull(p) \/ PushCountDrop(p)
        PROVE  UNCHANGED <<accepted, delivered>>
    BY <2>3 DEF PushTryLock, PushFull, PushCountDrop
  <2>4. CASE \/ DepthLock \/ DepthUnlock \/ DrainBudgetSpent \/ DrainLock \/ DrainEmpty \/ DrainTake
             \/ \E max \in DrainLimits : DrainCall(max)
    BY <2>4 DEF DepthLock, DepthUnlock, DrainBudgetSpent, DrainLock, DrainEmpty, DrainTake, DrainCall
  <2>5. CASE UNCHANGED vars
    BY <2>5 DEF vars
  <2> QED  BY <2>1, <2>2, <2>3, <2>4, <2>5 DEF Next, Push, PushRest, DrainStep
<1> QED  BY <1>1, <1>2, SafetyAlways, PTL DEF Spec, ImplementsChannel, Channel!Spec
=============================================================================
