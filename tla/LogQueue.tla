------------------------------ MODULE LogQueue ------------------------------
(***************************************************************************)
(* The bounded worker log queue of log-queue.c.  Producers push records    *)
(* with a try-lock and give up on contention or on a full ring; the thread *)
(* that owns Log() samples the depth and drains the ring.                  *)
(*                                                                         *)
(* A step is what one thread does between two points another thread can    *)
(* observe: taking the mutex, the critical section up to the unlock, and   *)
(* each of the two relaxed atomic increments of a refused push.            *)
(***************************************************************************)
EXTENDS Integers, Sequences, FiniteSets, FiniteSetsExt

CONSTANTS Producers,    \* threads that call ra_log_queue_push()
          Owner,        \* the thread that calls ra_log_queue_drain()
          Free,         \* no thread holds the mutex
          Capacity,     \* records in the ring
          DrainLimits,  \* values of max_records the owner passes to a drain
          MaxPush       \* bound: pushes issued by one producer

ASSUME LogQueueAssumption ==
    /\ Capacity \in Nat \ {0}
    /\ IsFiniteSet(Producers)
    /\ Owner \notin Producers
    /\ Free \notin Producers \cup {Owner}
    /\ DrainLimits \subseteq Nat
    /\ MaxPush \in Nat

VARIABLES lock,         \* holder of q->lock, or Free
          head, tail, length, records,
          contention_dropped, full_dropped, dropped,
          pc,           \* where each producer is inside ra_log_queue_push()
          pushes,       \* calls of ra_log_queue_push() made by each producer
          dpc, max_records, n, item,   \* the owner's call and its locals
          accepted,     \* history: records stored, in the order stored
          delivered     \* history: records handed to Log()

ring     == <<head, tail, length, records>>
counters == <<contention_dropped, full_dropped, dropped>>
drain    == <<dpc, max_records, n, item>>
vars     == <<lock, ring, counters, pc, pushes, drain, accepted, delivered>>

Slots  == 0 .. Capacity - 1
Record == Producers \X (1 .. MaxPush)
Zeroed == <<>>                        \* a slot calloc() cleared, and no item in hand

\* The record a producer's current call stores: who logs, and its how-manieth call.
Message(p) == <<p, pushes[p]>>

-----------------------------------------------------------------------------
\* ra_log_queue_new(): every counter and slot is zeroed.
Init ==
    /\ lock = Free
    /\ head = 0 /\ tail = 0 /\ length = 0
    /\ records = [i \in Slots |-> Zeroed]
    /\ contention_dropped = 0 /\ full_dropped = 0 /\ dropped = 0
    /\ pc = [p \in Producers |-> "idle"]
    /\ pushes = [p \in Producers |-> 0]
    /\ dpc = "idle" /\ max_records = 0 /\ n = 0 /\ item = Zeroed
    /\ accepted = <<>> /\ delivered = <<>>

\* Mutant: the index runs one past the last slot before it wraps.
SuccPast(i) == (i + 1) % (Capacity + 1)

Succ(i) == (i + 1) % Capacity

\* Mutant: a full ring takes one more record, over the oldest.
FullLate == length > Capacity

Full == length = Capacity

\* Mutant: a busy mutex is waited for.
PushTryLockWaits(p) ==
    /\ pc[p] = "idle"
    /\ pushes[p] < MaxPush
    /\ pushes' = [pushes EXCEPT ![p] = @ + 1]
    /\ lock' = IF lock = Free THEN p ELSE lock
    /\ pc' = [pc EXCEPT ![p] = IF lock = Free THEN "locked" ELSE "waiting"]
    /\ UNCHANGED <<ring, counters, drain, accepted, delivered>>

\* ra_log_queue_push() up to pthread_mutex_trylock(): a free mutex is taken, a
\* busy one makes the call count the loss and return without waiting.
PushTryLock(p) ==
    /\ pc[p] = "idle"
    /\ pushes[p] < MaxPush
    /\ pushes' = [pushes EXCEPT ![p] = @ + 1]
    /\ \/ /\ lock = Free
          /\ lock' = p
          /\ pc' = [pc EXCEPT ![p] = "locked"]
          /\ UNCHANGED counters
       \/ /\ lock # Free
          /\ contention_dropped' = contention_dropped + 1
          /\ pc' = [pc EXCEPT ![p] = "contended"]
          /\ UNCHANGED <<lock, full_dropped, dropped>>
    /\ UNCHANGED <<ring, drain, accepted, delivered>>

\* The critical section of a push that finds a free slot, up to the unlock.
PushStore(p) ==
    /\ pc[p] = "locked"
    /\ ~Full
    /\ records' = [records EXCEPT ![tail] = Message(p)]
    /\ tail' = Succ(tail)
    /\ length' = length + 1
    /\ lock' = Free
    /\ pc' = [pc EXCEPT ![p] = "idle"]
    /\ accepted' = Append(accepted, Message(p))
    /\ UNCHANGED <<head, counters, pushes, drain, delivered>>

\* Mutant: the full path counts the loss and returns before the total.
PushFullUncounted(p) ==
    /\ pc[p] = "locked"
    /\ Full
    /\ full_dropped' = full_dropped + 1
    /\ pc' = [pc EXCEPT ![p] = "idle"]
    /\ lock' = Free
    /\ UNCHANGED <<ring, contention_dropped, dropped, pushes, drain, accepted, delivered>>

\* A full ring: the first counter is bumped with the mutex still held.
PushFull(p) ==
    /\ pc[p] = "locked"
    /\ Full
    /\ full_dropped' = full_dropped + 1
    /\ pc' = [pc EXCEPT ![p] = "full"]
    /\ UNCHANGED <<lock, ring, contention_dropped, dropped, pushes, drain, accepted, delivered>>

\* The second counter; the full path then unlocks, the contended one never locked.
PushCountDrop(p) ==
    /\ pc[p] \in {"contended", "full"}
    /\ dropped' = dropped + 1
    /\ lock' = IF pc[p] = "full" THEN Free ELSE lock
    /\ pc' = [pc EXCEPT ![p] = "idle"]
    /\ UNCHANGED <<ring, contention_dropped, full_dropped, pushes, drain, accepted, delivered>>

-----------------------------------------------------------------------------
\* ra_log_queue_depth() on the owner, as the drain tick calls it first.
DepthLock ==
    /\ dpc = "idle"
    /\ lock = Free
    /\ lock' = Owner
    /\ dpc' = "depth"
    /\ UNCHANGED <<ring, counters, pc, pushes, max_records, n, item, accepted, delivered>>

DepthUnlock ==
    /\ dpc = "depth"
    /\ lock' = Free
    /\ dpc' = "sampled"
    /\ UNCHANGED <<ring, counters, pc, pushes, max_records, n, item, accepted, delivered>>

\* ra_log_queue_drain(max), from the tick after the depth or on its own.
DrainCall(max) ==
    /\ dpc \in {"idle", "sampled"}
    /\ dpc' = "loop"
    /\ max_records' = max
    /\ n' = 0
    /\ UNCHANGED <<lock, ring, counters, pc, pushes, item, accepted, delivered>>

\* while (n < max_records): out of budget, the call returns.
DrainBudgetSpent ==
    /\ dpc = "loop"
    /\ n >= max_records
    /\ dpc' = "idle"
    /\ UNCHANGED <<lock, ring, counters, pc, pushes, max_records, n, item, accepted, delivered>>

\* pthread_mutex_lock(): waits while a producer holds the mutex.
DrainLock ==
    /\ dpc = "loop"
    /\ n < max_records
    /\ lock = Free
    /\ lock' = Owner
    /\ dpc' = "locked"
    /\ UNCHANGED <<ring, counters, pc, pushes, max_records, n, item, accepted, delivered>>

\* Nothing queued: unlock and leave the loop.
DrainEmpty ==
    /\ dpc = "locked"
    /\ length = 0
    /\ lock' = Free
    /\ dpc' = "idle"
    /\ UNCHANGED <<ring, counters, pc, pushes, max_records, n, item, accepted, delivered>>

\* Mutant: the last record of the ring is never taken.
DrainTakeAllButOne ==
    /\ dpc = "locked"
    /\ length > 0
    /\ lock' = Free
    /\ IF length = 1
       THEN dpc' = "idle" /\ UNCHANGED <<item, head, length>>
       ELSE /\ dpc' = "deliver"
            /\ item' = records[head]
            /\ head' = Succ(head)
            /\ length' = length - 1
    /\ UNCHANGED <<tail, records, counters, pc, pushes, max_records, n, accepted, delivered>>

\* Copy the oldest record out of the ring and unlock.
DrainTake ==
    /\ dpc = "locked"
    /\ length > 0
    /\ item' = records[head]
    /\ head' = Succ(head)
    /\ length' = length - 1
    /\ lock' = Free
    /\ dpc' = "deliver"
    /\ UNCHANGED <<tail, records, counters, pc, pushes, max_records, n, accepted, delivered>>

\* Log() runs with the mutex released; the record is consumed when it returns.
DrainDeliver ==
    /\ dpc = "deliver"
    /\ delivered' = Append(delivered, item)
    /\ item' = Zeroed
    /\ n' = n + 1
    /\ dpc' = "loop"
    /\ UNCHANGED <<lock, ring, counters, pc, pushes, max_records, accepted>>

-----------------------------------------------------------------------------
\* What a producer does once its call has passed the trylock.
PushRest(p) ==
    \/ PushStore(p)
    \/ PushFull(p)
    \/ PushCountDrop(p)

Push(p) == PushTryLock(p) \/ PushRest(p)

DrainStep ==
    \/ DepthUnlock
    \/ DrainBudgetSpent
    \/ DrainLock
    \/ DrainEmpty
    \/ DrainTake
    \/ DrainDeliver

Next ==
    \/ \E p \in Producers : Push(p)
    \/ \E max \in DrainLimits : DrainCall(max)
    \/ DepthLock
    \/ DrainStep

Spec == Init /\ [][Next]_vars

\* A producer inside a call keeps running.
ProducersRun == \A p \in Producers : WF_vars(PushRest(p))

\* The 10 ms GLib timer keeps calling the drain and a started drain keeps running.
OwnerRuns == WF_vars(\E max \in DrainLimits : DrainCall(max)) /\ WF_vars(DrainStep)

FairSpec == Spec /\ ProducersRun /\ OwnerRuns

-----------------------------------------------------------------------------
\* Types of all variables: indices stay inside the ring of log-queue.c, the
\* lengths inside its capacity.
TypeOK ==
    /\ lock \in Producers \cup {Owner, Free}
    /\ head \in Slots /\ tail \in Slots
    /\ length \in 0 .. Capacity
    /\ records \in [Slots -> Record \cup {Zeroed}]
    /\ contention_dropped \in Nat /\ full_dropped \in Nat /\ dropped \in Nat
    /\ pc \in [Producers -> {"idle", "locked", "contended", "full"}]
    /\ pushes \in [Producers -> 0 .. MaxPush]
    /\ dpc \in {"idle", "depth", "sampled", "loop", "locked", "deliver"}
    /\ max_records \in Nat /\ n \in Nat
    /\ item \in Record \cup {Zeroed}
    /\ accepted \in Seq(Record) /\ delivered \in Seq(Record)

\* The mutex of the queue is held by exactly the threads inside a critical
\* section: no path of push, depth or drain returns with it or enters without it.
LockDiscipline ==
    /\ \A p \in Producers : pc[p] \in {"locked", "full"} <=> lock = p
    /\ dpc \in {"depth", "locked"} <=> lock = Owner

\* Index of the i-th record behind head (i from 0) in the ring.
At(i) == IF head + i < Capacity THEN head + i ELSE head + i - Capacity

InHand == IF dpc = "deliver" THEN 1 ELSE 0

\* The ring between head and tail, preceded by the record a drain holds and by
\* what Log() has had, is exactly what pushes stored: log-queue.c loses no
\* accepted record, stores none twice and keeps their order, whatever the
\* producers and the drain do in between.
RingHoldsUndelivered ==
    /\ tail = At(length)
    /\ Len(accepted) = Len(delivered) + InHand + length
    /\ \A i \in 0 .. length - 1 : records[At(i)] = accepted[Len(delivered) + InHand + i + 1]
    /\ dpc = "deliver" => item = accepted[Len(delivered) + 1]
    /\ \A i \in 1 .. Len(delivered) : delivered[i] = accepted[i]

\* Every push that has returned was either stored or added to the total of
\* dropped records, and the total trails its two parts exactly by the calls that
\* sit between their two increments.
DropAccounting ==
    /\ MapThenSumSet(LAMBDA p : pushes[p], Producers)
         = Len(accepted) + dropped + Cardinality({p \in Producers : pc[p] # "idle"})
    /\ contention_dropped + full_dropped
         = dropped + Cardinality({p \in Producers : pc[p] \in {"contended", "full"}})

\* The queue implements the channel log-queue.h describes; Log() may hold one
\* record more than the ring has slots.
Channel == INSTANCE FifoChannel WITH Data <- Record, Bound <- Capacity + 1
ImplementsChannel == Channel!Spec

\* "Never waits" (log-queue.h): a push that has begun can always take its next
\* step, whoever holds the mutex and even if no other thread ever moves again.
PushNeverWaits == \A p \in Producers : pc[p] # "idle" => ENABLED PushRest(p)

\* A stored record reaches Log(): no record stays behind in the ring while the
\* timer keeps calling the drain.
StoredIsDelivered ==
    \A r \in Record :
        (\E i \in 1 .. Len(accepted) : accepted[i] = r)
            ~> (\E i \in 1 .. Len(delivered) : delivered[i] = r)
=============================================================================
