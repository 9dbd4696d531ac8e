---------------------------- MODULE LoggerProofs ----------------------------
(***************************************************************************)
(* Proofs about the logger and the module loader, for any number of        *)
(* threads, subscribers and modules, any queue, any filters and rates.     *)
(***************************************************************************)
EXTENDS Modules, FoldProofs

Callbacks == Callback(CallbackIds)
Frames    == Frame(CallbackIds)

-----------------------------------------------------------------------------
(* Lists of callbacks.                                                     *)

Distinct(cbs) == \A i, j \in DOMAIN cbs : cbs[i].id = cbs[j].id => i = j

Raws(cbs) == {i \in DOMAIN cbs : cbs[i].policy = RAW}

LEMMA PositionIs ==
    ASSUME NEW cbs, Distinct(cbs), NEW i \in DOMAIN cbs
    PROVE  Position(cbs, cbs[i].id) = i
BY DEF Position, Distinct

LEMMA PositionOf ==
    ASSUME NEW cbs, NEW id \in Ids(cbs)
    PROVE  Position(cbs, id) \in DOMAIN cbs /\ cbs[Position(cbs, id)].id = id
<1>1. \E i \in DOMAIN cbs : cbs[i].id = id
  BY DEF Ids
<1> QED  BY <1>1 DEF Position

\* log_add_callback_token() appends.
LEMMA Appended ==
    ASSUME NEW cbs \in Seq(Callbacks), NEW cb \in Callbacks, NEW new, new = Append(cbs, cb)
    PROVE  /\ new \in Seq(Callbacks) /\ Len(new) = Len(cbs) + 1
           /\ DOMAIN cbs = 1 .. Len(cbs) /\ DOMAIN new = 1 .. Len(cbs) + 1
           /\ \A i \in DOMAIN cbs : i \in DOMAIN new /\ new[i] = cbs[i]
           /\ new[Len(cbs) + 1] = cb
           /\ Ids(new) = Ids(cbs) \cup {cb.id}
<1>1. /\ new \in Seq(Callbacks) /\ Len(new) = Len(cbs) + 1
      /\ DOMAIN cbs = 1 .. Len(cbs) /\ DOMAIN new = 1 .. Len(cbs) + 1
      /\ \A i \in DOMAIN cbs : i \in DOMAIN new /\ new[i] = cbs[i]
      /\ new[Len(cbs) + 1] = cb
  OBVIOUS
<1>2. Len(cbs) \in Nat
  OBVIOUS
<1>3. \A i \in DOMAIN new : i = Len(cbs) + 1 \/ i \in DOMAIN cbs
  BY <1>1, <1>2
<1>4. Len(cbs) + 1 \in DOMAIN new
  BY <1>1, <1>2
<1>5. ASSUME NEW x \in Ids(new) PROVE x \in Ids(cbs) \cup {cb.id}
  <2>1. PICK i \in DOMAIN new : x = new[i].id
    BY <1>5 DEF Ids
  <2> QED  BY <1>1, <1>3, <2>1 DEF Ids
<1>6. ASSUME NEW x \in Ids(cbs) PROVE x \in Ids(new)
  <2>1. PICK i \in DOMAIN cbs : x = cbs[i].id
    BY <1>6 DEF Ids
  <2> QED  BY <1>1, <2>1 DEF Ids
<1>7. cb.id \in Ids(new)
  BY <1>1, <1>4 DEF Ids
<1>8. Ids(new) = Ids(cbs) \cup {cb.id}
  BY <1>5, <1>6, <1>7
<1> QED  BY <1>1, <1>8

LEMMA AppendedDistinct ==
    ASSUME NEW cbs \in Seq(Callbacks), NEW cb \in Callbacks, NEW new, new = Append(cbs, cb),
           Distinct(cbs), cb.id \notin Ids(cbs)
    PROVE  Distinct(new)
<1>1. \A i \in DOMAIN cbs : cbs[i].id # cb.id
  BY DEF Ids
<1>2. /\ DOMAIN cbs = 1 .. Len(cbs) /\ DOMAIN new = 1 .. Len(cbs) + 1
      /\ \A i \in DOMAIN cbs : new[i] = cbs[i]
      /\ new[Len(cbs) + 1] = cb
  BY Appended
<1> QED  BY <1>1, <1>2 DEF Distinct

\* log_remove_callback() takes one node out and keeps the order of the others.
Shift(p, j) == IF j < p THEN j ELSE j + 1

LEMMA Removed ==
    ASSUME NEW cbs \in Seq(Callbacks), NEW p \in DOMAIN cbs, NEW new, new = RemoveAt(cbs, p)
    PROVE  /\ new \in Seq(Callbacks) /\ Len(new) = Len(cbs) - 1
           /\ p \in 1 .. Len(cbs) /\ Len(cbs) \in Nat
           /\ DOMAIN cbs = 1 .. Len(cbs) /\ DOMAIN new = 1 .. Len(cbs) - 1
           /\ \A j \in DOMAIN new : Shift(p, j) \in DOMAIN cbs \ {p} /\ new[j] = cbs[Shift(p, j)]
<1>1. p \in 1 .. Len(cbs) /\ Len(cbs) \in Nat /\ DOMAIN cbs = 1 .. Len(cbs)
  OBVIOUS
<1> DEFINE a == SubSeq(cbs, 1, p - 1)  b == SubSeq(cbs, p + 1, Len(cbs))
<1>2. /\ a \in Seq(Callbacks) /\ Len(a) = p - 1
      /\ \A j \in 1 .. p - 1 : a[j] = cbs[j]
  BY <1>1
<1>3. /\ b \in Seq(Callbacks) /\ Len(b) = Len(cbs) - p
      /\ \A j \in 1 .. Len(cbs) - p : b[j] = cbs[j + p]
  BY <1>1
<1>4. new = a \o b
  BY DEF RemoveAt
<1> HIDE DEF a, b
<1>5. new \in Seq(Callbacks) /\ Len(new) = Len(cbs) - 1 /\ DOMAIN new = 1 .. Len(cbs) - 1
  <2>1. new \in Seq(Callbacks) /\ Len(new) = Len(a) + Len(b)
    BY <1>2, <1>3, <1>4
  <2>2. Len(a) + Len(b) = Len(cbs) - 1
    BY <1>1, <1>2, <1>3
  <2>3. DOMAIN new = 1 .. Len(new)
    BY <2>1
  <2> QED  BY <2>1, <2>2, <2>3
<1>6. ASSUME NEW j \in 1 .. Len(cbs) - 1
      PROVE  Shift(p, j) \in DOMAIN cbs \ {p} /\ new[j] = cbs[Shift(p, j)]
  <2>1. CASE j < p
    BY <1>1, <1>2, <1>3, <1>4, <2>1 DEF Shift
  <2>2. CASE ~(j < p)
    <3>1. j - (p - 1) \in 1 .. Len(cbs) - p
      BY <1>1, <2>2
    <3>2. new[j] = b[j - (p - 1)]
      BY <1>1, <1>2, <1>3, <1>4, <2>2, <3>1
    <3>3. b[j - (p - 1)] = cbs[j - (p - 1) + p]
      BY <1>3, <3>1
    <3>4. j - (p - 1) + p = j + 1
      BY <1>1
    <3> QED  BY <1>1, <2>2, <3>2, <3>3, <3>4 DEF Shift
  <2> QED  BY <2>1, <2>2
<1> QED  BY <1>1, <1>5, <1>6

LEMMA ShiftCovers ==
    ASSUME NEW n \in Nat, NEW p \in 1 .. n
    PROVE  /\ \A i, j \in 1 .. n - 1 : (Shift(p, i) = Shift(p, j) => i = j) /\ (i < j <=> Shift(p, i) < Shift(p, j))
           /\ \A i \in 1 .. n : i # p => \E j \in 1 .. n - 1 : i = Shift(p, j)
<1>1. \A i, j \in 1 .. n - 1 : (Shift(p, i) = Shift(p, j) => i = j) /\ (i < j <=> Shift(p, i) < Shift(p, j))
  BY DEF Shift
<1>2. ASSUME NEW i \in 1 .. n, i # p PROVE \E j \in 1 .. n - 1 : i = Shift(p, j)
  <2>1. CASE i < p
    <3>1. i \in 1 .. n - 1 /\ i = Shift(p, i)
      BY <2>1 DEF Shift
    <3> QED  BY <3>1
  <2>2. CASE i > p
    <3>1. i - 1 \in 1 .. n - 1 /\ i = Shift(p, i - 1)
      BY <2>2 DEF Shift
    <3> QED  BY <3>1
  <2> QED  BY <1>2, <2>1, <2>2
<1> QED  BY <1>1, <1>2

\* The nodes that stay, before and after.
LEMMA RemovedShifts ==
    ASSUME NEW cbs \in Seq(Callbacks), NEW p \in DOMAIN cbs, NEW new, new = RemoveAt(cbs, p)
    PROVE  /\ \A i, j \in DOMAIN new : Shift(p, i) = Shift(p, j) => i = j
           /\ \A i, j \in DOMAIN new : i < j <=> Shift(p, i) < Shift(p, j)
           /\ \A i \in DOMAIN cbs : i # p => \E j \in DOMAIN new : i = Shift(p, j)
<1>1. p \in 1 .. Len(cbs) /\ Len(cbs) \in Nat /\ DOMAIN cbs = 1 .. Len(cbs) /\ DOMAIN new = 1 .. Len(cbs) - 1
  BY Removed
<1>2. PICK n \in Nat : n = Len(cbs)
  BY <1>1
<1>3. p \in 1 .. n
  BY <1>1, <1>2
<1>4. \A i, j \in 1 .. n - 1 : (Shift(p, i) = Shift(p, j) => i = j) /\ (i < j <=> Shift(p, i) < Shift(p, j))
  BY <1>3, ShiftCovers
<1>5. \A i \in 1 .. n : i # p => \E j \in 1 .. n - 1 : i = Shift(p, j)
  BY <1>3, ShiftCovers
<1> QED  BY <1>1, <1>2, <1>4, <1>5

LEMMA RemovedDistinct ==
    ASSUME NEW cbs \in Seq(Callbacks), NEW p \in DOMAIN cbs, NEW new, new = RemoveAt(cbs, p), Distinct(cbs)
    PROVE  Distinct(new) /\ Ids(new) = Ids(cbs) \ {cbs[p].id}
<1>1. /\ p \in 1 .. Len(cbs) /\ Len(cbs) \in Nat
      /\ DOMAIN cbs = 1 .. Len(cbs) /\ DOMAIN new = 1 .. Len(cbs) - 1
      /\ \A j \in DOMAIN new : Shift(p, j) \in DOMAIN cbs \ {p} /\ new[j] = cbs[Shift(p, j)]
  BY Removed
<1>2. /\ \A i, j \in DOMAIN new : Shift(p, i) = Shift(p, j) => i = j
      /\ \A i \in DOMAIN cbs : i # p => \E j \in DOMAIN new : i = Shift(p, j)
  BY RemovedShifts
<1>3. Distinct(new)
  <2>1. ASSUME NEW i \in DOMAIN new, NEW j \in DOMAIN new, new[i].id = new[j].id PROVE i = j
    <3>1. cbs[Shift(p, i)].id = cbs[Shift(p, j)].id /\ Shift(p, i) \in DOMAIN cbs /\ Shift(p, j) \in DOMAIN cbs
      BY <1>1, <2>1
    <3> QED  BY <1>2, <3>1 DEF Distinct
  <2> QED  BY <2>1 DEF Distinct
<1>4. ASSUME NEW x \in Ids(new) PROVE x \in Ids(cbs) \ {cbs[p].id}
  <2>1. PICK j \in DOMAIN new : x = new[j].id
    BY <1>4 DEF Ids
  <2> QED  BY <1>1, <2>1 DEF Ids, Distinct
<1>5. ASSUME NEW x \in Ids(cbs) \ {cbs[p].id} PROVE x \in Ids(new)
  <2>1. PICK i \in DOMAIN cbs : x = cbs[i].id
    BY <1>5 DEF Ids
  <2>2. PICK j \in DOMAIN new : i = Shift(p, j)
    BY <1>2, <1>5, <2>1
  <2> QED  BY <1>1, <2>1, <2>2 DEF Ids
<1> QED  BY <1>3, <1>4, <1>5

\* How many callbacks are raw.
LEMMA RawsFinite ==
    ASSUME NEW cbs \in Seq(Callbacks)
    PROVE  IsFiniteSet(Raws(cbs)) /\ Cardinality(Raws(cbs)) \in Nat
<1>1. DOMAIN cbs = 1 .. Len(cbs) /\ 1 \in Int /\ Len(cbs) \in Int
  OBVIOUS
<1>2. IsFiniteSet(DOMAIN cbs)
  BY <1>1, FS_Interval
<1>3. Raws(cbs) \in SUBSET DOMAIN cbs
  BY DEF Raws
<1>4. IsFiniteSet(Raws(cbs))
  BY <1>2, <1>3, FS_Subset
<1> QED  BY <1>4, FS_CardinalityType

LEMMA RawsAppended ==
    ASSUME NEW cbs \in Seq(Callbacks), NEW cb \in Callbacks, NEW new, new = Append(cbs, cb)
    PROVE  Cardinality(Raws(new)) = Cardinality(Raws(cbs)) + IF cb.policy = RAW THEN 1 ELSE 0
<1>1. /\ DOMAIN cbs = 1 .. Len(cbs) /\ DOMAIN new = 1 .. Len(cbs) + 1 /\ Len(cbs) \in Nat
      /\ \A i \in DOMAIN cbs : new[i] = cbs[i]
      /\ new[Len(cbs) + 1] = cb
  BY Appended
<1>2. IsFiniteSet(Raws(cbs)) /\ Cardinality(Raws(cbs)) \in Nat
  BY RawsFinite
<1>3. Len(cbs) + 1 \notin Raws(cbs)
  BY <1>1 DEF Raws
<1>4. CASE cb.policy = RAW
  <2>1. Raws(new) = Raws(cbs) \cup {Len(cbs) + 1}
    BY <1>1, <1>4 DEF Raws
  <2>2. Cardinality(Raws(cbs) \cup {Len(cbs) + 1}) = Cardinality(Raws(cbs)) + 1
    BY <1>2, <1>3, FS_AddElement
  <2> QED  BY <1>4, <2>1, <2>2
<1>5. CASE cb.policy # RAW
  <2>1. Raws(new) = Raws(cbs)
    BY <1>1, <1>5 DEF Raws
  <2> QED  BY <1>2, <1>5, <2>1
<1> QED  BY <1>4, <1>5

LEMMA RawsRemoved ==
    ASSUME NEW cbs \in Seq(Callbacks), NEW p \in DOMAIN cbs, NEW new, new = RemoveAt(cbs, p)
    PROVE  Cardinality(Raws(new)) = Cardinality(Raws(cbs)) - IF cbs[p].policy = RAW THEN 1 ELSE 0
<1>1. /\ p \in 1 .. Len(cbs) /\ Len(cbs) \in Nat /\ new \in Seq(Callbacks)
      /\ DOMAIN cbs = 1 .. Len(cbs) /\ DOMAIN new = 1 .. Len(cbs) - 1
      /\ \A j \in DOMAIN new : Shift(p, j) \in DOMAIN cbs \ {p} /\ new[j] = cbs[Shift(p, j)]
  BY Removed
<1>2. /\ \A i, j \in DOMAIN new : Shift(p, i) = Shift(p, j) => i = j
      /\ \A i \in DOMAIN cbs : i # p => \E j \in DOMAIN new : i = Shift(p, j)
  BY RemovedShifts
<1> DEFINE S == Raws(new)  T == Raws(cbs) \ {p}  f == [j \in S |-> Shift(p, j)]
<1>3. \A j \in S : f[j] \in T
  BY <1>1 DEF Raws
<1>4. \A i, j \in S : f[i] = f[j] => i = j
  <2>1. S \subseteq DOMAIN new /\ \A j \in S : f[j] = Shift(p, j)
    BY DEF Raws
  <2> HIDE DEF S, f
  <2> QED  BY <1>2, <2>1
<1>5. \A t \in T : \E j \in S : f[j] = t
  <2> SUFFICES ASSUME NEW t \in T PROVE \E j \in S : f[j] = t
    OBVIOUS
  <2>1. t \in DOMAIN cbs /\ t # p /\ cbs[t].policy = RAW
    BY DEF Raws
  <2>2. PICK j \in DOMAIN new : t = Shift(p, j)
    BY <1>2, <2>1
  <2>3. j \in S
    BY <1>1, <2>1, <2>2 DEF Raws
  <2> QED  BY <2>2, <2>3
<1>6. f \in Bijection(S, T)
  <2>1. f \in [S -> T]
    BY <1>3
  <2> HIDE DEF f, S, T
  <2> QED  BY <1>4, <1>5, <2>1 DEF Bijection, Injection, Surjection, IsInjective
<1>7. IsFiniteSet(S) /\ IsFiniteSet(Raws(cbs)) /\ Cardinality(Raws(cbs)) \in Nat
  BY <1>1, RawsFinite
<1>8. Cardinality(T) = Cardinality(S)
  <2>1. ExistsBijection(S, T)
    BY <1>6 DEF ExistsBijection
  <2> QED  BY <1>7, <2>1, FS_Bijection
<1>9. Cardinality(T) = IF p \in Raws(cbs) THEN Cardinality(Raws(cbs)) - 1 ELSE Cardinality(Raws(cbs))
  BY <1>7, FS_RemoveElement
<1>10. p \in Raws(cbs) <=> cbs[p].policy = RAW
  BY DEF Raws
<1> QED  BY <1>7, <1>8, <1>9, <1>10

-----------------------------------------------------------------------------
(* Calls a delivery has made.                                              *)

CallsOf(called, id) == Cardinality({j \in DOMAIN called : called[j] = id})

LEMMA CallsStart == \A id : CallsOf(<<>>, id) = 0
<1>1. \A id : {j \in DOMAIN <<>> : <<>>[j] = id} = {}
  OBVIOUS
<1> QED  BY <1>1, FS_EmptySet DEF CallsOf

LEMMA CallsGrow ==
    ASSUME NEW called \in Seq(CallbackIds), NEW x \in CallbackIds, NEW id, NEW new, new = Append(called, x)
    PROVE  /\ x = id => CallsOf(new, id) = CallsOf(called, id) + 1
           /\ x # id => CallsOf(new, id) = CallsOf(called, id)
<1> DEFINE S == {j \in DOMAIN called : called[j] = id}
<1>1. /\ DOMAIN called = 1 .. Len(called) /\ DOMAIN new = 1 .. Len(called) + 1 /\ Len(called) \in Nat
      /\ \A j \in DOMAIN called : new[j] = called[j]
      /\ new[Len(called) + 1] = x
  OBVIOUS
<1>2. IsFiniteSet(S)
  <2>1. IsFiniteSet(DOMAIN called) /\ S \in SUBSET DOMAIN called
    <3>1. 1 \in Int /\ Len(called) \in Int
      BY <1>1
    <3> QED  BY <1>1, <3>1, FS_Interval
  <2> QED  BY <2>1, FS_Subset
<1>3. CASE x = id
  <2>1. {j \in DOMAIN new : new[j] = id} = S \cup {Len(called) + 1}
    BY <1>1, <1>3
  <2>2. Len(called) + 1 \notin S
    BY <1>1
  <2> HIDE DEF S
  <2>3. Cardinality(S \cup {Len(called) + 1}) = Cardinality(S) + 1
    BY <1>2, <2>2, FS_AddElement
  <2> QED  BY <1>3, <2>1, <2>3 DEF CallsOf, S
<1>4. CASE x # id
  <2>1. {j \in DOMAIN new : new[j] = id} = S
    BY <1>1, <1>4
  <2> QED  BY <1>4, <2>1 DEF CallsOf
<1> QED  BY <1>3, <1>4

-----------------------------------------------------------------------------
(* Types, in parts.                                                        *)

SlotsTyped(slots) ==
    /\ IsFiniteSet(DOMAIN slots) /\ Cardinality(DOMAIN slots) <= Slots
    /\ \A k \in DOMAIN slots : slots[k] \in RateSlot

SwitchesOK == /\ logger_owner_valid \in BOOLEAN /\ worker_logging_enabled \in BOOLEAN /\ drain_source \in BOOLEAN
              /\ session \in 0 .. MaxSession
IssuedOK   == issued \in 0 .. MaxLog
NowOK      == now \in 0 .. MaxNow
QueueOK    == /\ accepted \in Seq(Records) /\ delivered \in Seq(Records)
              /\ Len(delivered) <= Len(accepted) /\ Len(accepted) <= Len(delivered) + Capacity
DropsOK    == dropped \in Nat /\ logger_drops_reported \in 0 .. dropped
ListOK     == log_callbacks \in Seq(Callbacks)
SlotsOK    == SlotsTyped(log_rate_slots)
SubmitOK   == submitting \in [Threads -> Records \cup {Idle}]
OwnerOK    == ocall \in {"idle", "tick", "report", "end"} /\ budget \in 0 .. DrainMax
StackOK    == /\ stack \in Seq(Frames)
              /\ \A i \in DOMAIN stack : stack[i].cursor \in Ids(log_callbacks) \cup {None}
LoaderOK   == /\ modules \subseteq Names /\ loads \in 0 .. MaxLoads
              /\ opened \in [Files -> Nat] /\ token \in [Files -> CallbackIds \cup {None}]

LEMMA TypeParts ==
    ModulesTypeOK <=> /\ SwitchesOK /\ IssuedOK /\ NowOK /\ QueueOK /\ DropsOK /\ ListOK
                      /\ SlotsOK /\ SubmitOK /\ OwnerOK /\ StackOK /\ LoaderOK
BY DEF ModulesTypeOK, LoggerTypes, SwitchesOK, IssuedOK, NowOK, QueueOK, DropsOK, ListOK, SlotsOK, SlotsTyped,
       SubmitOK, OwnerOK, StackOK, LoaderOK, RateKeys, Callbacks, Frames

LEMMA TypePartsNext ==
    ASSUME SwitchesOK', IssuedOK', NowOK', QueueOK', DropsOK', ListOK',
           SlotsOK', SubmitOK', OwnerOK', StackOK', LoaderOK'
    PROVE  ModulesTypeOK'
BY DEF ModulesTypeOK, LoggerTypes, SwitchesOK, IssuedOK, NowOK, QueueOK, DropsOK, ListOK, SlotsOK, SlotsTyped,
       SubmitOK, OwnerOK, StackOK, LoaderOK, RateKeys, Callbacks, Frames

\* What a step leaves alone stays typed.
LEMMA TypesStay ==
    ASSUME ModulesTypeOK
    PROVE  /\ UNCHANGED switches => SwitchesOK'
           /\ UNCHANGED issued => IssuedOK'
           /\ UNCHANGED now => NowOK'
           /\ UNCHANGED <<accepted, delivered>> => QueueOK'
           /\ UNCHANGED <<dropped, logger_drops_reported>> => DropsOK'
           /\ UNCHANGED log_callbacks => ListOK'
           /\ UNCHANGED log_rate_slots => SlotsOK'
           /\ UNCHANGED submitting => SubmitOK'
           /\ UNCHANGED <<ocall, budget>> => OwnerOK'
           /\ UNCHANGED <<log_callbacks, stack>> => StackOK'
           /\ UNCHANGED moduleVars => LoaderOK'
<1> USE TypeParts
<1>1. UNCHANGED switches => SwitchesOK'
  BY DEF SwitchesOK, switches
<1>2. (UNCHANGED issued => IssuedOK') /\ (UNCHANGED now => NowOK')
  BY DEF IssuedOK, NowOK
<1>3. UNCHANGED <<accepted, delivered>> => QueueOK'
  BY DEF QueueOK
<1>4. UNCHANGED <<dropped, logger_drops_reported>> => DropsOK'
  BY DEF DropsOK
<1>5. UNCHANGED log_callbacks => ListOK'
  BY DEF ListOK
<1>6. UNCHANGED log_rate_slots => SlotsOK'
  BY DEF SlotsOK
<1>7. UNCHANGED submitting => SubmitOK'
  BY DEF SubmitOK
<1>8. UNCHANGED <<ocall, budget>> => OwnerOK'
  BY DEF OwnerOK
<1>9. UNCHANGED <<log_callbacks, stack>> => StackOK'
  BY DEF StackOK
<1>10. UNCHANGED moduleVars => LoaderOK'
  BY DEF LoaderOK, moduleVars
<1> QED  BY <1>1, <1>2, <1>3, <1>4, <1>5, <1>6, <1>7, <1>8, <1>9, <1>10

\* log_rate_allowed() keeps the table within its size.
LEMMA VerdictTyped ==
    ASSUME SlotsOK, NowOK, NEW subsys, NEW prio, NEW count, NEW seconds, NEW v,
           v = RateVerdict(subsys, prio, count, seconds)
    PROVE  v.skipped \in Nat /\ SlotsTyped(v.slots)
<1> DEFINE key == <<subsys, prio>>
           fresh == [emitted |-> 0, suppressed |-> 0, start |-> now]
           slot == IF key \in RateKeys THEN log_rate_slots[key] ELSE fresh
           elapsed == now - slot.start >= seconds
           open == IF elapsed THEN fresh ELSE slot
           bypass == \/ count = 0 \/ prio <= AUDIT
                     \/ key \notin RateKeys /\ Cardinality(RateKeys) = Slots
           keys == RateKeys \cup {key}
           next == IF open.emitted < count THEN [open EXCEPT !.emitted = @ + 1] ELSE [open EXCEPT !.suppressed = @ + 1]
           table == [k \in keys |-> IF k # key THEN log_rate_slots[k] ELSE next]
<1>1. fresh \in RateSlot
  <2>1. now \in Nat
    BY DEF NowOK
  <2> QED  BY <2>1 DEF RateSlot
<1>2. slot \in RateSlot /\ open \in RateSlot
  BY <1>1 DEF SlotsOK, SlotsTyped, RateKeys
<1>3. slot.suppressed \in Nat /\ HeldBack(slot, elapsed) \in Nat
  <2>1. slot.suppressed \in Nat
    <3> HIDE DEF slot
    <3> QED  BY <1>2 DEF RateSlot
  <2> QED  BY <2>1 DEF HeldBack
<1>4. next \in RateSlot
  <2> HIDE DEF open
  <2>1. [open EXCEPT !.emitted = @ + 1] \in RateSlot /\ [open EXCEPT !.suppressed = @ + 1] \in RateSlot
    BY <1>2 DEF RateSlot
  <2> QED  BY <2>1
<1>5. CASE bypass
  <2>1. v = [ok |-> TRUE, skipped |-> 0, slots |-> log_rate_slots]
    BY <1>5 DEF RateVerdict
  <2> QED  BY <2>1 DEF SlotsOK
<1>6. CASE ~bypass
  <2>1. v.skipped = HeldBack(slot, elapsed) /\ v.slots = table
    BY <1>6 DEF RateVerdict
  <2> HIDE DEF next, slot, elapsed
  <2>2. DOMAIN table = keys /\ \A k \in keys : table[k] \in RateSlot
    BY <1>4 DEF SlotsOK, SlotsTyped, RateKeys
  <2>3. IsFiniteSet(RateKeys) /\ Cardinality(RateKeys) \in Nat /\ Cardinality(RateKeys) <= Slots /\ Slots \in Nat
    BY FS_CardinalityType, LoggerAssumption DEF SlotsOK, SlotsTyped, RateKeys
  <2>4. IsFiniteSet(keys) /\ Cardinality(keys) = IF key \in RateKeys THEN Cardinality(RateKeys) ELSE Cardinality(RateKeys) + 1
    BY <2>3, FS_AddElement
  <2>5. Cardinality(keys) <= Slots
    <3>1. key \in RateKeys \/ Cardinality(RateKeys) # Slots
      BY <1>6
    <3> HIDE DEF keys, key
    <3> QED  BY <2>3, <2>4, <3>1
  <2> QED  BY <1>3, <2>1, <2>2, <2>4, <2>5 DEF SlotsTyped
<1> QED  BY <1>5, <1>6

LEMMA FirstTyped ==
    ASSUME ListOK
    PROVE  /\ First(log_callbacks) \in Ids(log_callbacks) \cup {None}
           /\ Ids(log_callbacks) \subseteq CallbackIds
<1>1. Ids(log_callbacks) \subseteq CallbackIds
  <2>1. \A i \in DOMAIN log_callbacks : log_callbacks[i] \in Callbacks
    BY DEF ListOK
  <2>2. \A cb \in Callbacks : cb.id \in CallbackIds
    BY DEF Callbacks, Callback
  <2> QED  BY <2>1, <2>2 DEF Ids
<1>2. log_callbacks # <<>> => 1 \in DOMAIN log_callbacks
  BY DEF ListOK
<1> QED  BY <1>1, <1>2 DEF First, Ids

\* Log() of a record that is delivered: a new innermost delivery.
LEMMA DeliverEffect ==
    ASSUME ListOK, SlotsOK, NowOK, NEW record \in Records, Deliver(record)
    PROVE  /\ SlotsOK'
           /\ \E fr \in Frames :
                 /\ stack' = Append(stack, fr)
                 /\ fr.record = record /\ fr.inside = FALSE
                 /\ fr.cursor = IF record.prio = CRAZY THEN None ELSE First(log_callbacks)
                 /\ fr.linked = Ids(log_callbacks) /\ fr.called = <<>>
<1> DEFINE matching == MatchingFilters(record.subsys)
           filter   == log_filters[CHOOSE i \in matching : TRUE]
           visible  == ~Filtered(record.subsys, record.prio)
           verdict  == IF visible /\ matching # {}
                       THEN RateVerdict(record.subsys, record.prio, filter.count, filter.seconds)
                       ELSE [ok |-> TRUE, skipped |-> 0, slots |-> log_rate_slots]
           fr == [record  |-> record, allowed |-> visible /\ verdict.ok, skipped |-> verdict.skipped,
                  cursor  |-> IF record.prio = CRAZY THEN None ELSE First(log_callbacks),
                  inside  |-> FALSE, linked  |-> Ids(log_callbacks), called  |-> <<>>]
<1>1. stack' = Append(stack, fr) /\ log_rate_slots' = verdict.slots
  BY DEF Deliver
<1>2. verdict.skipped \in Nat /\ SlotsTyped(verdict.slots)
  <2>1. CASE visible /\ matching # {}
    <3>1. verdict = RateVerdict(record.subsys, record.prio, filter.count, filter.seconds)
      BY <2>1
    <3> HIDE DEF verdict
    <3> QED  BY <3>1, VerdictTyped
  <2>2. CASE ~(visible /\ matching # {})
    BY <2>2 DEF SlotsOK
  <2> QED  BY <2>1, <2>2
<1>3. SlotsOK'
  BY <1>1, <1>2 DEF SlotsOK
<1>4. fr \in Frames
  <2>1. /\ First(log_callbacks) \in CallbackIds \cup {None}
        /\ Ids(log_callbacks) \in SUBSET CallbackIds /\ <<>> \in Seq(CallbackIds)
    BY FirstTyped
  <2>2. (visible /\ verdict.ok) \in BOOLEAN
    OBVIOUS
  <2> HIDE DEF verdict, visible
  <2> QED  BY <1>2, <2>1, <2>2 DEF Frames, Frame
<1>5. /\ fr.record = record /\ fr.inside = FALSE
      /\ fr.cursor = IF record.prio = CRAZY THEN None ELSE First(log_callbacks)
      /\ fr.linked = Ids(log_callbacks) /\ fr.called = <<>>
  OBVIOUS
<1> HIDE DEF fr
<1> QED  BY <1>1, <1>3, <1>4, <1>5

LEMMA PushTypes ==
    ASSUME ModulesTypeOK, NEW record \in Records, Deliver(record), log_callbacks' = log_callbacks
    PROVE  SlotsOK' /\ StackOK'
<1>1. ListOK /\ SlotsOK /\ NowOK /\ StackOK
  BY TypeParts
<1>2. SlotsOK'
  BY <1>1, DeliverEffect
<1>3. PICK fr \in Frames : /\ stack' = Append(stack, fr)
                           /\ fr.cursor = IF record.prio = CRAZY THEN None ELSE First(log_callbacks)
  BY <1>1, DeliverEffect
<1>4. fr.cursor \in Ids(log_callbacks) \cup {None}
  BY <1>1, <1>3, FirstTyped
<1>5. StackOK'
  <2>1. stack' \in Seq(Frames) /\ \A i \in DOMAIN stack' : stack'[i] = fr \/ (i \in DOMAIN stack /\ stack'[i] = stack[i])
    BY <1>1, <1>3 DEF StackOK
  <2> QED  BY <1>1, <1>4, <2>1 DEF StackOK
<1> QED  BY <1>2, <1>5

LEMMA RecordTyped ==
    ASSUME ModulesTypeOK, NEW source, source[1] \in Subsystems, source[2] \in Int, issued < MaxLog
    PROVE  Record(source) \in Records /\ issued + 1 \in 0 .. MaxLog
<1>1. MaxLog \in Nat /\ issued \in 0 .. MaxLog /\ session \in 0 .. MaxSession
  BY TypeParts, LoggerAssumption DEF IssuedOK, SwitchesOK
<1>2. issued + 1 \in 1 .. MaxLog /\ issued + 1 \in 0 .. MaxLog
  BY <1>1
<1> QED  BY <1>1, <1>2 DEF Record, Records

LEMMA SourceTyped ==
    ASSUME NEW s \in Sources
    PROVE  s[1] \in Subsystems /\ s[2] \in Int
BY LoggerAssumption DEF Subsystems

\* A step of the innermost delivery.
LEMMA TopMoves ==
    ASSUME StackOK, stack # <<>>, NEW fr \in Frames, stack' = SetTop(fr)
    PROVE  /\ stack' \in Seq(Frames) /\ DOMAIN stack' = DOMAIN stack
           /\ Len(stack) \in DOMAIN stack /\ stack'[Len(stack)] = fr
           /\ \A i \in DOMAIN stack : i # Len(stack) => stack'[i] = stack[i]
BY DEF StackOK, SetTop

LEMMA TopTyped ==
    ASSUME StackOK, stack # <<>>
    PROVE  Top \in Frames /\ Len(stack) \in DOMAIN stack /\ Top.cursor \in Ids(log_callbacks) \cup {None}
<1>1. Len(stack) \in DOMAIN stack /\ stack[Len(stack)] \in Frames
  BY DEF StackOK
<1> QED  BY <1>1 DEF StackOK, Top

LEMMA AfterTyped ==
    ASSUME ListOK, NEW id \in Ids(log_callbacks)
    PROVE  After(log_callbacks, id) \in Ids(log_callbacks) \cup {None}
<1> DEFINE p == Position(log_callbacks, id)
<1>1. p \in DOMAIN log_callbacks
  BY PositionOf
<1>2. CASE p = Len(log_callbacks)
  BY <1>2 DEF After
<1>3. CASE p # Len(log_callbacks)
  <2>1. p + 1 \in DOMAIN log_callbacks
    BY <1>1, <1>3 DEF ListOK
  <2>2. After(log_callbacks, id) = log_callbacks[p + 1].id
    BY <1>3 DEF After
  <2> QED  BY <2>1, <2>2 DEF Ids
<1> QED  BY <1>2, <1>3

\* The walk: what EnterCallback, SkipCallback and LeaveCallback do to the innermost
\* delivery.
LEMMA WalkMoves ==
    ASSUME ListOK, StackOK, EnterCallback \/ SkipCallback \/ LeaveCallback, LeaveCallback => Top.cursor # None
    PROVE  \E fr \in Frames :
              /\ stack # <<>> /\ stack' = SetTop(fr) /\ fr.cursor \in Ids(log_callbacks) \cup {None}
              /\ fr.record = Top.record /\ fr.allowed = Top.allowed /\ fr.linked = Top.linked
              /\ Top.cursor # None
              /\ \/ /\ ~Top.inside /\ Wanted(Top, log_callbacks[Position(log_callbacks, Top.cursor)])
                    /\ fr.cursor = Top.cursor /\ fr.inside = TRUE /\ fr.called = Append(Top.called, Top.cursor)
                 \/ /\ ~Top.inside => ~Wanted(Top, log_callbacks[Position(log_callbacks, Top.cursor)])
                    /\ fr.cursor = After(log_callbacks, Top.cursor) /\ fr.inside = FALSE /\ fr.called = Top.called
<1>1. stack # <<>>
  BY DEF EnterCallback, SkipCallback, LeaveCallback
<1>2. PICK top \in Frames : top = Top
  BY <1>1, TopTyped
<1>3. top.cursor # None /\ top.cursor \in Ids(log_callbacks) /\ top.cursor \in CallbackIds
  <2>1. top.cursor # None
    BY <1>2 DEF EnterCallback, SkipCallback
  <2> QED  BY <1>1, <1>2, <2>1, TopTyped, FirstTyped
<1>4. PICK next : next = After(log_callbacks, top.cursor)
  OBVIOUS
<1>5. next \in Ids(log_callbacks) \cup {None} /\ next \in CallbackIds \cup {None}
  BY <1>3, <1>4, AfterTyped, FirstTyped
<1>6. CASE EnterCallback
  <2> DEFINE fr == [top EXCEPT !.inside = TRUE, !.called = Append(top.called, top.cursor)]
  <2>1. stack' = SetTop(fr) /\ ~top.inside /\ Wanted(Top, log_callbacks[Position(log_callbacks, Top.cursor)])
    BY <1>2, <1>6 DEF EnterCallback
  <2>2. Append(top.called, top.cursor) \in Seq(CallbackIds)
    BY <1>2, <1>3 DEF Frames, Frame
  <2>3. /\ fr \in Frames /\ fr.cursor = top.cursor /\ fr.inside = TRUE /\ fr.called = Append(top.called, top.cursor)
        /\ fr.record = top.record /\ fr.allowed = top.allowed /\ fr.linked = top.linked
    BY <1>2, <2>2 DEF Frames, Frame
  <2> HIDE DEF fr
  <2> QED  BY <1>1, <1>2, <1>3, <2>1, <2>3
<1>7. CASE SkipCallback \/ LeaveCallback
  <2> DEFINE fr == [top EXCEPT !.inside = FALSE, !.cursor = next]
  <2>1. stack' = SetTop(fr)
    <3>1. CASE LeaveCallback
      BY <1>2, <1>4, <3>1 DEF LeaveCallback
    <3>2. CASE SkipCallback
      <4>1. stack' = SetTop([top EXCEPT !.cursor = next]) /\ ~top.inside
        BY <1>2, <1>4, <3>2 DEF SkipCallback
      <4>2. [top EXCEPT !.cursor = next] = fr
        <5>1. top.inside = FALSE
          BY <1>2, <4>1 DEF Frames, Frame
        <5> QED  BY <1>2, <5>1 DEF Frames, Frame
      <4> QED  BY <4>1, <4>2
    <3> QED  BY <1>7, <3>1, <3>2
  <2>2. ~top.inside => ~Wanted(Top, log_callbacks[Position(log_callbacks, Top.cursor)])
    BY <1>2, <1>7 DEF SkipCallback, LeaveCallback
  <2>3. /\ fr \in Frames /\ fr.cursor = next /\ fr.inside = FALSE /\ fr.called = top.called
        /\ fr.record = top.record /\ fr.allowed = top.allowed /\ fr.linked = top.linked
    BY <1>2, <1>5 DEF Frames, Frame
  <2> HIDE DEF fr
  <2> QED  BY <1>1, <1>2, <1>3, <1>4, <1>5, <2>1, <2>2, <2>3
<1> QED  BY <1>6, <1>7

-----------------------------------------------------------------------------
(* What a step may do to the list of callbacks and to the deliveries.      *)

Still == UNCHANGED <<log_callbacks, log_raw_subscribers, stack>>

Pushing ==
    /\ UNCHANGED <<log_callbacks, log_raw_subscribers>>
    /\ \E fr \in Frames :
          /\ stack' = Append(stack, fr) /\ fr.inside = FALSE
          /\ fr.cursor = IF fr.record.prio = CRAZY THEN None ELSE First(log_callbacks)
          /\ fr.linked = Ids(log_callbacks) /\ fr.called = <<>>

Walking ==
    /\ UNCHANGED <<log_callbacks, log_raw_subscribers>>
    /\ EnterCallback \/ SkipCallback \/ LeaveCallback

Popping ==
    /\ UNCHANGED <<log_callbacks, log_raw_subscribers>>
    /\ stack # <<>> /\ stack' = Front(stack)

Linking(id, policy) ==
    /\ id \notin Ids(log_callbacks)
    /\ id \in Subscribers \/ \E f \in Files : id = <<f, loads>> /\ loads' = loads + 1
    /\ Subscribed(id, policy) /\ stack' = stack

Unlinking(id) == id \in Ids(log_callbacks) /\ ~Iterated(id) /\ Unsubscribed(id)

Releasing == stack = <<>> /\ stack' = <<>> /\ log_callbacks' = <<>> /\ log_raw_subscribers' = 0

ListStep ==
    /\ loads' \in {loads, loads + 1}
    /\ \/ Still \/ Pushing \/ Walking \/ Popping \/ Releasing
       \/ \E id \in CallbackIds : Unlinking(id) \/ \E policy \in {RAW, FILTERED} : Linking(id, policy)

\* Where registrations come from, and that a delivery inside a callback stands on it.
IdsKnown == \A id \in Ids(log_callbacks) : id \in Subscribers \/ \E f \in Files, k \in 0 .. loads - 1 : id = <<f, k>>
Standing == \A i \in DOMAIN stack : stack[i].inside => stack[i].cursor # None

ListInv ==
    /\ ListOK /\ StackOK /\ loads \in 0 .. MaxLoads
    /\ Distinct(log_callbacks) /\ IdsKnown /\ Standing /\ RawCountExact

LEMMA Wider ==
    ASSUME NEW a \in Nat, NEW b, b = a \/ b = a + 1, NEW k \in 0 .. a - 1
    PROVE  k \in 0 .. b - 1
OBVIOUS

LEMMA KnownStays ==
    ASSUME ListInv, loads' \in {loads, loads + 1}, Ids(log_callbacks') \subseteq Ids(log_callbacks)
    PROVE  IdsKnown'
<1>1. ASSUME NEW id \in Ids(log_callbacks'), id \notin Subscribers
      PROVE  \E f \in Files, k \in 0 .. loads' - 1 : id = <<f, k>>
  <2>1. PICK f \in Files, k \in 0 .. loads - 1 : id = <<f, k>>
    BY <1>1 DEF ListInv, IdsKnown
  <2>2. loads \in Nat /\ (loads' = loads \/ loads' = loads + 1)
    BY ModulesAssumption DEF ListInv
  <2>3. k \in 0 .. loads' - 1
    BY <2>1, <2>2, Wider
  <2> QED  BY <2>1, <2>3
<1> QED  BY <1>1 DEF IdsKnown

\* The new top of the stack, or the old stack without it.
LEMMA StackPushed ==
    ASSUME StackOK, NEW fr \in Frames, stack' = Append(stack, fr)
    PROVE  /\ stack' \in Seq(Frames)
           /\ \A i \in DOMAIN stack' : stack'[i] = fr \/ (i \in DOMAIN stack /\ stack'[i] = stack[i])
BY DEF StackOK

LEMMA StackPopped ==
    ASSUME StackOK, stack # <<>>, stack' = Front(stack)
    PROVE  /\ stack' \in Seq(Frames)
           /\ \A i \in DOMAIN stack' : i \in DOMAIN stack /\ stack'[i] = stack[i]
<1>1. stack' = SubSeq(stack, 1, Len(stack) - 1) /\ Len(stack) \in Nat /\ Len(stack) > 0
  BY DEF Front, StackOK
<1> QED  BY <1>1 DEF StackOK

LEMMA StackForgets ==
    ASSUME StackOK, NEW id, stack' = [i \in DOMAIN stack |-> [stack[i] EXCEPT !.linked = @ \ {id}]]
    PROVE  /\ stack' \in Seq(Frames) /\ DOMAIN stack' = DOMAIN stack
           /\ \A i \in DOMAIN stack : /\ stack'[i].record = stack[i].record /\ stack'[i].allowed = stack[i].allowed
                                      /\ stack'[i].cursor = stack[i].cursor /\ stack'[i].inside = stack[i].inside
                                      /\ stack'[i].linked = stack[i].linked \ {id} /\ stack'[i].called = stack[i].called
<1> DEFINE Cut(fr) == [fr EXCEPT !.linked = fr.linked \ {id}]
<1>1. \A fr \in Frames : /\ Cut(fr) \in Frames
                         /\ Cut(fr).record = fr.record /\ Cut(fr).allowed = fr.allowed
                         /\ Cut(fr).cursor = fr.cursor /\ Cut(fr).inside = fr.inside
                         /\ Cut(fr).linked = fr.linked \ {id} /\ Cut(fr).called = fr.called
  BY DEF Frames, Frame
<1>2. DOMAIN stack' = DOMAIN stack /\ \A i \in DOMAIN stack : stack'[i] = Cut(stack[i])
  OBVIOUS
<1>3. \A i \in DOMAIN stack : stack[i] \in Frames
  BY DEF StackOK
<1> HIDE DEF Cut
<1>4. DOMAIN stack = 1 .. Len(stack) /\ Len(stack) \in Nat
  BY DEF StackOK
<1>5. stack' = [i \in 1 .. Len(stack) |-> Cut(stack[i])]
  BY <1>4 DEF Cut
<1>6. stack' \in Seq(Frames)
  <2>1. PICK n \in Nat : n = Len(stack)
    BY <1>4
  <2>2. PICK st : st = stack'
    OBVIOUS
  <2>3. st \in [1 .. n -> Frames]
    BY <1>1, <1>2, <1>3, <1>4, <1>5, <2>1, <2>2
  <2>4. st \in Seq(Frames)
    BY <2>3
  <2> QED  BY <2>2, <2>4
<1> QED  BY <1>1, <1>2, <1>3, <1>6

LEMMA ListKept ==
    ASSUME ListInv, ListStep, loads' \in 0 .. MaxLoads
    PROVE  ListInv'
<1>0. /\ ListOK /\ StackOK /\ Distinct(log_callbacks) /\ IdsKnown /\ Standing /\ RawCountExact
      /\ loads' \in {loads, loads + 1}
  BY DEF ListInv, ListStep
<1>1. ASSUME UNCHANGED <<log_callbacks, log_raw_subscribers>>
      PROVE  ListOK' /\ Distinct(log_callbacks)' /\ IdsKnown' /\ RawCountExact'
  <2>1. ListOK' /\ Distinct(log_callbacks)' /\ RawCountExact'
    BY <1>0, <1>1 DEF ListOK, RawCountExact
  <2> QED  BY <1>0, <1>1, <2>1, KnownStays
<1>2. CASE Still
  <2>1. StackOK' /\ Standing'
    BY <1>0, <1>2 DEF Still, StackOK, Standing
  <2> QED  BY <1>1, <1>2, <2>1 DEF Still, ListInv
<1>3. CASE Pushing
  <2>1. PICK fr \in Frames : /\ stack' = Append(stack, fr) /\ fr.inside = FALSE
                             /\ fr.cursor = IF fr.record.prio = CRAZY THEN None ELSE First(log_callbacks)
    BY <1>3 DEF Pushing
  <2>2. fr.cursor \in Ids(log_callbacks) \cup {None}
    BY <1>0, <2>1, FirstTyped
  <2>3. log_callbacks' = log_callbacks
    BY <1>3 DEF Pushing
  <2>4. StackOK' /\ Standing'
    BY <1>0, <2>1, <2>2, <2>3, StackPushed DEF StackOK, Standing
  <2> QED  BY <1>1, <1>3, <2>4 DEF Pushing, ListInv
<1>4. CASE Walking
  <2>0. LeaveCallback => Top.cursor # None
    BY <1>0, TopTyped DEF LeaveCallback, Standing, Top
  <2>1. PICK fr \in Frames : /\ stack # <<>> /\ stack' = SetTop(fr) /\ fr.cursor \in Ids(log_callbacks) \cup {None}
                             /\ fr.inside => fr.cursor # None
    BY <1>0, <1>4, <2>0, WalkMoves DEF Walking
  <2>2. log_callbacks' = log_callbacks
    BY <1>4 DEF Walking
  <2>3. StackOK' /\ Standing'
    BY <1>0, <2>1, <2>2, TopMoves DEF StackOK, Standing
  <2> QED  BY <1>1, <1>4, <2>3 DEF Walking, ListInv
<1>5. CASE Popping
  <2>1. log_callbacks' = log_callbacks /\ stack # <<>> /\ stack' = Front(stack)
    BY <1>5 DEF Popping
  <2>2. StackOK' /\ Standing'
    BY <1>0, <2>1, StackPopped DEF StackOK, Standing
  <2> QED  BY <1>1, <1>5, <2>2 DEF Popping, ListInv
<1>6. CASE Releasing
  <2>1. ListOK' /\ Distinct(log_callbacks)' /\ Ids(log_callbacks') = {}
    BY <1>6 DEF Releasing, ListOK, Distinct, Ids
  <2>2. StackOK' /\ Standing'
    BY <1>6 DEF Releasing, StackOK, Standing
  <2>3. IdsKnown'
    BY <1>0, <2>1, KnownStays
  <2>4. RawCountExact'
    BY <1>6, FS_EmptySet DEF Releasing, RawCountExact
  <2> QED  BY <2>1, <2>2, <2>3, <2>4 DEF ListInv
<1>7. ASSUME NEW id \in CallbackIds, NEW policy \in {RAW, FILTERED}, Linking(id, policy)
      PROVE  ListInv'
  <2> DEFINE cb == [id |-> id, policy |-> policy]
  <2>1. cb \in Callbacks /\ cb.id = id /\ cb.policy = policy
    BY DEF Callbacks, Callback
  <2>2. /\ log_callbacks' = Append(log_callbacks, cb) /\ stack' = stack
        /\ log_raw_subscribers' = log_raw_subscribers + IF policy = RAW THEN 1 ELSE 0
        /\ id \notin Ids(log_callbacks)
    BY <1>7 DEF Linking, Subscribed
  <2> HIDE DEF cb
  <2>3. ListOK' /\ Ids(log_callbacks') = Ids(log_callbacks) \cup {id}
    <3>1. log_callbacks \in Seq(Callbacks)
      BY <1>0 DEF ListOK
    <3>2. PICK cbs \in Seq(Callbacks), c \in Callbacks, new \in {log_callbacks'} : cbs = log_callbacks /\ c = cb /\ new = log_callbacks'
      BY <2>1, <3>1
    <3>3. new = Append(cbs, c)
      BY <2>2, <3>2
    <3>4. new \in Seq(Callbacks) /\ Ids(new) = Ids(cbs) \cup {c.id}
      BY <3>3, Appended
    <3> QED  BY <2>1, <3>2, <3>4 DEF ListOK
  <2>4. Distinct(log_callbacks)'
    BY <1>0, <2>1, <2>2, AppendedDistinct DEF ListOK
  <2>5. StackOK' /\ Standing'
    BY <1>0, <2>2, <2>3 DEF StackOK, Standing
  <2>6. IdsKnown'
    <3>1. ASSUME NEW x \in Ids(log_callbacks'), x \notin Subscribers
          PROVE  \E f \in Files, k \in 0 .. loads' - 1 : x = <<f, k>>
      <4>1. CASE x = id
        <5>1. PICK f \in Files : id = <<f, loads>> /\ loads' = loads + 1
          BY <1>7, <3>1, <4>1 DEF Linking
        <5>2. loads \in 0 .. loads' - 1
          BY <5>1 DEF ListInv
        <5> QED  BY <4>1, <5>1, <5>2
      <4>2. CASE x \in Ids(log_callbacks)
        <5>1. PICK f \in Files, k \in 0 .. loads - 1 : x = <<f, k>>
          BY <1>0, <3>1, <4>2 DEF IdsKnown
        <5>2. loads \in Nat /\ (loads' = loads \/ loads' = loads + 1)
          BY <1>0, ModulesAssumption DEF ListInv
        <5>3. k \in 0 .. loads' - 1
          BY <5>1, <5>2, Wider
        <5> QED  BY <5>1, <5>3
      <4> QED  BY <2>3, <4>1, <4>2
    <3> QED  BY <3>1 DEF IdsKnown
  <2>7. RawCountExact'
    <3>1. Cardinality(Raws(log_callbacks')) = Cardinality(Raws(log_callbacks)) + IF policy = RAW THEN 1 ELSE 0
      BY <1>0, <2>1, <2>2, RawsAppended DEF ListOK
    <3>2. log_raw_subscribers = Cardinality(Raws(log_callbacks))
      BY <1>0 DEF RawCountExact, Raws
    <3> QED  BY <2>2, <3>1, <3>2 DEF RawCountExact, Raws
  <2> QED  BY <2>3, <2>4, <2>5, <2>6, <2>7 DEF ListInv
<1>8. ASSUME NEW id \in CallbackIds, Unlinking(id) PROVE ListInv'
  <2>0. PICK p : p = Position(log_callbacks, id)
    OBVIOUS
  <2>1. /\ log_callbacks' = RemoveAt(log_callbacks, p)
        /\ log_raw_subscribers' = log_raw_subscribers - IF log_callbacks[p].policy = RAW THEN 1 ELSE 0
        /\ stack' = [i \in DOMAIN stack |-> [stack[i] EXCEPT !.linked = @ \ {id}]]
        /\ id \in Ids(log_callbacks) /\ ~Iterated(id)
    BY <1>8, <2>0 DEF Unlinking, Unsubscribed, Unlink
  <2>2. p \in DOMAIN log_callbacks /\ log_callbacks[p].id = id
    BY <2>0, <2>1, PositionOf
  <2>3. ListOK'
    BY <1>0, <2>1, <2>2, Removed DEF ListOK
  <2>4. Distinct(log_callbacks)' /\ Ids(log_callbacks') = Ids(log_callbacks) \ {id}
    BY <1>0, <2>1, <2>2, RemovedDistinct DEF ListOK
  <2>5. IdsKnown'
    BY <1>0, <2>4, KnownStays
  <2>6. StackOK' /\ Standing'
    <3>1. /\ stack' \in Seq(Frames) /\ DOMAIN stack' = DOMAIN stack
          /\ \A i \in DOMAIN stack : stack'[i].cursor = stack[i].cursor /\ stack'[i].inside = stack[i].inside
      BY <1>0, <2>1, StackForgets
    <3>2. \A i \in DOMAIN stack : stack[i].cursor \in Ids(log_callbacks') \cup {None}
      BY <1>0, <2>1, <2>4 DEF StackOK, Iterated
    <3>3. StackOK'
      BY <3>1, <3>2 DEF StackOK
    <3>4. Standing'
      BY <1>0, <3>1 DEF Standing
    <3> QED  BY <3>3, <3>4
  <2>7. RawCountExact'
    <3>1. Cardinality(Raws(log_callbacks')) = Cardinality(Raws(log_callbacks)) - IF log_callbacks[p].policy = RAW THEN 1 ELSE 0
      BY <1>0, <2>1, <2>2, RawsRemoved DEF ListOK
    <3>2. log_raw_subscribers = Cardinality(Raws(log_callbacks))
      BY <1>0 DEF RawCountExact, Raws
    <3> QED  BY <2>1, <3>1, <3>2 DEF RawCountExact, Raws
  <2> QED  BY <2>3, <2>4, <2>5, <2>6, <2>7 DEF ListInv
<1> QED  BY <1>2, <1>3, <1>4, <1>5, <1>6, <1>7, <1>8 DEF ListStep

-----------------------------------------------------------------------------
(* A delivery's walk over the list: whom it has called so far.             *)

\* The walk of fr has dealt with the callback at j.
Visited(fr, cbs, j) ==
    \/ fr.cursor = None
    \/ j < Position(cbs, fr.cursor)
    \/ j = Position(cbs, fr.cursor) /\ fr.inside

WalkOK(fr, cbs) ==
    /\ fr.linked \subseteq Ids(cbs)
    /\ fr.record.prio # CRAZY =>
          \A j \in DOMAIN cbs :
             cbs[j].id \in fr.linked =>
                CallsOf(fr.called, cbs[j].id) = IF Visited(fr, cbs, j) /\ Wanted(fr, cbs[j]) THEN 1 ELSE 0

WalkInv == \A i \in DOMAIN stack : WalkOK(stack[i], log_callbacks)

\* cb->next is the following node.
LEMMA AfterIs ==
    ASSUME NEW cbs \in Seq(Callbacks), Distinct(cbs), None \notin Ids(cbs), NEW id \in Ids(cbs),
           NEW next, next = After(cbs, id), NEW p, p = Position(cbs, id)
    PROVE  \/ next = None /\ p = Len(cbs)
           \/ next # None /\ p + 1 \in DOMAIN cbs /\ Position(cbs, next) = p + 1
<1>1. p \in DOMAIN cbs /\ DOMAIN cbs = 1 .. Len(cbs) /\ Len(cbs) \in Nat
  BY PositionOf
<1>2. CASE p = Len(cbs)
  BY <1>2 DEF After
<1>3. CASE p # Len(cbs)
  <2>1. p + 1 \in DOMAIN cbs
    BY <1>1, <1>3
  <2>2. next = cbs[p + 1].id
    BY <1>3 DEF After
  <2>3. next \in Ids(cbs)
    BY <2>1, <2>2 DEF Ids
  <2>4. Position(cbs, next) = p + 1
    <3>1. PICK q \in DOMAIN cbs : q = p + 1
      BY <2>1
    <3> QED  BY <2>2, <3>1, PositionIs
  <2> QED  BY <2>1, <2>3, <2>4
<1> QED  BY <1>2, <1>3

LEMMA StartWalk ==
    ASSUME NEW cbs \in Seq(Callbacks), Distinct(cbs), None \notin Ids(cbs), NEW fr \in Frames,
           fr.inside = FALSE, fr.linked = Ids(cbs), fr.called = <<>>,
           fr.cursor = IF fr.record.prio = CRAZY THEN None ELSE First(cbs)
    PROVE  WalkOK(fr, cbs)
<1>1. ASSUME fr.record.prio # CRAZY, NEW j \in DOMAIN cbs PROVE ~Visited(fr, cbs, j)
  <2>1. j \in 1 .. Len(cbs) /\ 1 \in DOMAIN cbs /\ cbs # <<>>
    OBVIOUS
  <2>2. fr.cursor = cbs[1].id
    BY <1>1, <2>1 DEF First
  <2>3. PICK q \in DOMAIN cbs : q = 1
    BY <2>1
  <2>4. Position(cbs, fr.cursor) = 1
    BY <2>2, <2>3, PositionIs
  <2>5. fr.cursor # None
    BY <2>1, <2>2 DEF Ids
  <2>6. ~(j < 1)
    BY <2>1
  <2> QED  BY <2>4, <2>5, <2>6 DEF Visited
<1>2. \A id : CallsOf(fr.called, id) = 0
  BY CallsStart
<1> QED  BY <1>1, <1>2 DEF WalkOK

LEMMA EnterWalk ==
    ASSUME NEW cbs \in Seq(Callbacks), Distinct(cbs), NEW top \in Frames, NEW fr \in Frames,
           top.cursor \in Ids(cbs), top.cursor # None, top.cursor \in CallbackIds,
           WalkOK(top, cbs), ~top.inside, Wanted(top, cbs[Position(cbs, top.cursor)]),
           fr.record = top.record, fr.allowed = top.allowed, fr.linked = top.linked,
           fr.cursor = top.cursor, fr.inside = TRUE, fr.called = Append(top.called, top.cursor)
    PROVE  WalkOK(fr, cbs)
<1>1. PICK p \in DOMAIN cbs : p = Position(cbs, top.cursor) /\ cbs[p].id = top.cursor
  BY PositionOf
<1>2. top.called \in Seq(CallbackIds)
  BY DEF Frames, Frame
<1>3. fr.linked \subseteq Ids(cbs)
  BY DEF WalkOK
<1>4. ASSUME fr.record.prio # CRAZY, NEW j \in DOMAIN cbs, cbs[j].id \in fr.linked
      PROVE  CallsOf(fr.called, cbs[j].id) = IF Visited(fr, cbs, j) /\ Wanted(fr, cbs[j]) THEN 1 ELSE 0
  <2>0. CallsOf(top.called, cbs[j].id) = IF Visited(top, cbs, j) /\ Wanted(top, cbs[j]) THEN 1 ELSE 0
    BY <1>4 DEF WalkOK
  <2>1. Wanted(fr, cbs[j]) <=> Wanted(top, cbs[j])
    BY DEF Wanted
  <2>2. CallsOf(fr.called, cbs[j].id) = IF top.cursor = cbs[j].id THEN CallsOf(top.called, cbs[j].id) + 1
                                        ELSE CallsOf(top.called, cbs[j].id)
    <3>1. PICK before, x, after, id : before = top.called /\ x = top.cursor /\ after = fr.called /\ id = cbs[j].id
      OBVIOUS
    <3>2. before \in Seq(CallbackIds) /\ x \in CallbackIds /\ after = Append(before, x)
      BY <1>2, <3>1
    <3>3. /\ x = id => CallsOf(after, id) = CallsOf(before, id) + 1
          /\ x # id => CallsOf(after, id) = CallsOf(before, id)
      BY <3>2, CallsGrow
    <3> QED  BY <3>1, <3>3
  <2>3. CASE j = p
    <3>1. ~Visited(top, cbs, j) /\ Visited(fr, cbs, j)
      <4>1. p \in Int /\ ~(p < p)
        OBVIOUS
      <4> QED  BY <1>1, <2>3, <4>1 DEF Visited
    <3>2. CallsOf(top.called, cbs[j].id) = 0
      BY <2>0, <3>1
    <3> QED  BY <1>1, <2>1, <2>2, <2>3, <3>1, <3>2
  <2>4. CASE j # p
    <3>1. cbs[j].id # top.cursor
      BY <1>1, <2>4 DEF Distinct
    <3>2. Visited(top, cbs, j) <=> Visited(fr, cbs, j)
      BY <1>1, <2>4 DEF Visited
    <3> QED  BY <2>0, <2>1, <2>2, <3>1, <3>2
  <2> QED  BY <2>3, <2>4
<1> QED  BY <1>3, <1>4 DEF WalkOK

LEMMA MoveWalk ==
    ASSUME NEW cbs \in Seq(Callbacks), Distinct(cbs), None \notin Ids(cbs), NEW top \in Frames, NEW fr \in Frames,
           top.cursor \in Ids(cbs), WalkOK(top, cbs),
           ~top.inside => ~Wanted(top, cbs[Position(cbs, top.cursor)]),
           fr.record = top.record, fr.allowed = top.allowed, fr.linked = top.linked,
           fr.cursor = After(cbs, top.cursor), fr.inside = FALSE, fr.called = top.called
    PROVE  WalkOK(fr, cbs)
<1>0. top.cursor # None
  OBVIOUS
<1>1. PICK p \in DOMAIN cbs : p = Position(cbs, top.cursor)
  BY PositionOf
<1>2. PICK n \in Nat : n = Len(cbs) /\ DOMAIN cbs = 1 .. n
  OBVIOUS
<1>3. PICK next : next = After(cbs, top.cursor)
  OBVIOUS
<1>4. \/ next = None /\ p = Len(cbs)
      \/ next # None /\ p + 1 \in DOMAIN cbs /\ Position(cbs, next) = p + 1
  BY <1>1, <1>3, AfterIs
<1>5. ASSUME NEW j \in DOMAIN cbs PROVE Visited(fr, cbs, j) <=> j <= p
  <2>1. fr.cursor = next
    BY <1>3
  <2>2. CASE next = None /\ p = Len(cbs)
    <3>1. j <= p
      BY <1>2, <2>2
    <3> QED  BY <2>1, <2>2, <3>1 DEF Visited
  <2>3. CASE next # None /\ Position(cbs, next) = p + 1
    <3>1. Visited(fr, cbs, j) <=> j < p + 1
      BY <2>1, <2>3 DEF Visited
    <3> QED  BY <1>2, <3>1
  <2> QED  BY <1>4, <2>2, <2>3
<1>6. ASSUME NEW j \in DOMAIN cbs PROVE Visited(top, cbs, j) <=> j < p \/ (j = p /\ top.inside)
  BY <1>0, <1>1 DEF Visited
<1>7. fr.linked \subseteq Ids(cbs)
  BY DEF WalkOK
<1>8. ASSUME fr.record.prio # CRAZY, NEW j \in DOMAIN cbs, cbs[j].id \in fr.linked
      PROVE  CallsOf(fr.called, cbs[j].id) = IF Visited(fr, cbs, j) /\ Wanted(fr, cbs[j]) THEN 1 ELSE 0
  <2>0. CallsOf(top.called, cbs[j].id) = IF Visited(top, cbs, j) /\ Wanted(top, cbs[j]) THEN 1 ELSE 0
    BY <1>8 DEF WalkOK
  <2>1. Wanted(fr, cbs[j]) <=> Wanted(top, cbs[j])
    BY DEF Wanted
  <2>2. CASE j = p
    <3>1. Visited(fr, cbs, j)
      BY <1>2, <1>5, <2>2
    <3>2. Wanted(top, cbs[j]) => Visited(top, cbs, j)
      BY <1>1, <1>6, <2>2
    <3> QED  BY <2>0, <2>1, <3>1, <3>2
  <2>3. CASE j # p
    <3>1. j <= p <=> j < p
      BY <1>2, <2>3
    <3>2. Visited(fr, cbs, j) <=> Visited(top, cbs, j)
      BY <1>5, <1>6, <2>3, <3>1
    <3> QED  BY <2>0, <2>1, <3>2
  <2> QED  BY <2>2, <2>3
<1> QED  BY <1>7, <1>8 DEF WalkOK

\* A node added behind the walk's end is owed no call by it.
LEMMA LinkWalk ==
    ASSUME NEW cbs \in Seq(Callbacks), Distinct(cbs), NEW cb \in Callbacks, cb.id \notin Ids(cbs),
           NEW new, new = Append(cbs, cb), NEW fr \in Frames, fr.cursor \in Ids(cbs) \cup {None}, WalkOK(fr, cbs)
    PROVE  WalkOK(fr, new)
<1>1. /\ DOMAIN cbs = 1 .. Len(cbs) /\ DOMAIN new = 1 .. Len(cbs) + 1 /\ Len(cbs) \in Nat
      /\ \A i \in DOMAIN cbs : i \in DOMAIN new /\ new[i] = cbs[i]
      /\ new[Len(cbs) + 1] = cb
  BY Appended
<1>2. Ids(new) = Ids(cbs) \cup {cb.id}
  BY Appended
<1>3. Distinct(new)
  BY AppendedDistinct
<1>4. fr.linked \subseteq Ids(cbs)
  BY DEF WalkOK
<1>5. ASSUME fr.cursor # None PROVE Position(new, fr.cursor) = Position(cbs, fr.cursor)
  <2>1. PICK p \in DOMAIN cbs : p = Position(cbs, fr.cursor) /\ cbs[p].id = fr.cursor
    BY <1>5, PositionOf
  <2>2. p \in DOMAIN new /\ new[p].id = fr.cursor
    BY <1>1, <2>1
  <2> QED  BY <1>3, <2>1, <2>2, PositionIs
<1>6. ASSUME fr.record.prio # CRAZY, NEW j \in DOMAIN new, new[j].id \in fr.linked
      PROVE  CallsOf(fr.called, new[j].id) = IF Visited(fr, new, j) /\ Wanted(fr, new[j]) THEN 1 ELSE 0
  <2>1. j \in DOMAIN cbs
    BY <1>1, <1>4, <1>6
  <2>2. new[j] = cbs[j]
    BY <1>1, <2>1
  <2>3. Visited(fr, new, j) <=> Visited(fr, cbs, j)
    BY <1>5 DEF Visited
  <2> QED  BY <1>6, <2>1, <2>2, <2>3 DEF WalkOK
<1> QED  BY <1>2, <1>4, <1>6 DEF WalkOK

\* A node taken out, on which the walk does not stand, leaves the others in order.
LEMMA UnlinkWalk ==
    ASSUME NEW cbs \in Seq(Callbacks), Distinct(cbs), NEW p \in DOMAIN cbs,
           NEW new, new = RemoveAt(cbs, p), NEW old \in Frames, NEW fr \in Frames,
           old.cursor \in Ids(cbs) \cup {None}, old.cursor # cbs[p].id, WalkOK(old, cbs),
           fr.record = old.record, fr.allowed = old.allowed, fr.cursor = old.cursor, fr.inside = old.inside,
           fr.linked = old.linked \ {cbs[p].id}, fr.called = old.called
    PROVE  WalkOK(fr, new)
<1>1. \A j \in DOMAIN new : Shift(p, j) \in DOMAIN cbs \ {p} /\ new[j] = cbs[Shift(p, j)]
  BY Removed
<1>2. /\ \A i, j \in DOMAIN new : Shift(p, i) = Shift(p, j) => i = j
      /\ \A i, j \in DOMAIN new : i < j <=> Shift(p, i) < Shift(p, j)
      /\ \A i \in DOMAIN cbs : i # p => \E j \in DOMAIN new : i = Shift(p, j)
  BY RemovedShifts
<1>3. Distinct(new) /\ Ids(new) = Ids(cbs) \ {cbs[p].id}
  BY RemovedDistinct
<1>4. fr.linked \subseteq Ids(new)
  BY <1>3 DEF WalkOK
<1>5. ASSUME fr.cursor # None, NEW j \in DOMAIN new
      PROVE  /\ j < Position(new, fr.cursor) <=> Shift(p, j) < Position(cbs, old.cursor)
             /\ j = Position(new, fr.cursor) <=> Shift(p, j) = Position(cbs, old.cursor)
  <2>1. PICK q \in DOMAIN cbs : q = Position(cbs, old.cursor) /\ cbs[q].id = old.cursor
    BY <1>5, PositionOf
  <2>2. PICK c \in DOMAIN new : q = Shift(p, c)
    BY <1>2, <2>1
  <2>3. new[c].id = fr.cursor
    BY <1>1, <2>1, <2>2
  <2>4. Position(new, fr.cursor) = c
    BY <1>3, <2>3, PositionIs
  <2> QED  BY <1>2, <2>1, <2>2, <2>4
<1>6. ASSUME fr.record.prio # CRAZY, NEW j \in DOMAIN new, new[j].id \in fr.linked
      PROVE  CallsOf(fr.called, new[j].id) = IF Visited(fr, new, j) /\ Wanted(fr, new[j]) THEN 1 ELSE 0
  <2>1. PICK i \in DOMAIN cbs : i = Shift(p, j) /\ new[j] = cbs[i]
    BY <1>1
  <2>2. Visited(fr, new, j) <=> Visited(old, cbs, i)
    BY <1>5, <2>1 DEF Visited
  <2>3. Wanted(fr, new[j]) <=> Wanted(old, cbs[i])
    BY <2>1 DEF Wanted
  <2>4. CallsOf(old.called, cbs[i].id) = IF Visited(old, cbs, i) /\ Wanted(old, cbs[i]) THEN 1 ELSE 0
    BY <1>6, <2>1 DEF WalkOK
  <2> QED  BY <2>1, <2>2, <2>3, <2>4
<1> QED  BY <1>4, <1>6 DEF WalkOK

\* A walk that is over has called everyone it owed a call.
LEMMA WalkOver ==
    ASSUME ListInv, WalkInv
    PROVE  EachSubscriberOnce
<1>1. ASSUME NEW i \in DOMAIN stack, stack[i].cursor = None, stack[i].record.prio # CRAZY, NEW id \in stack[i].linked
      PROVE  /\ id \in Ids(log_callbacks)
             /\ CallsOf(stack[i].called, id) =
                   IF log_callbacks[Position(log_callbacks, id)].policy = RAW \/ stack[i].allowed THEN 1 ELSE 0
  <2>1. id \in Ids(log_callbacks)
    BY <1>1 DEF WalkInv, WalkOK
  <2>2. PICK p \in DOMAIN log_callbacks : p = Position(log_callbacks, id) /\ log_callbacks[p].id = id
    BY <2>1, PositionOf
  <2>3. CallsOf(stack[i].called, log_callbacks[p].id) =
           IF Visited(stack[i], log_callbacks, p) /\ Wanted(stack[i], log_callbacks[p]) THEN 1 ELSE 0
    BY <1>1, <2>2 DEF WalkInv, WalkOK
  <2>4. Visited(stack[i], log_callbacks, p)
    BY <1>1 DEF Visited
  <2> QED  BY <2>1, <2>2, <2>3, <2>4 DEF Wanted
<1> QED  BY <1>1 DEF EachSubscriberOnce, CallsOf

LEMMA WalkKept ==
    ASSUME ListInv, ListStep, WalkInv
    PROVE  WalkInv'
<1>0. /\ ListOK /\ StackOK /\ Distinct(log_callbacks) /\ Standing
      /\ log_callbacks \in Seq(Callbacks)
      /\ \A i \in DOMAIN stack : stack[i] \in Frames /\ stack[i].cursor \in Ids(log_callbacks) \cup {None}
  BY DEF ListInv, ListOK, StackOK
<1>1. None \notin Ids(log_callbacks) /\ Ids(log_callbacks) \subseteq CallbackIds
  BY <1>0, FirstTyped, ModulesAssumption
<1>2. PICK cbs \in Seq(Callbacks), new \in {log_callbacks'} : cbs = log_callbacks /\ new = log_callbacks'
  BY <1>0
<1>3. Distinct(cbs) /\ None \notin Ids(cbs)
  BY <1>0, <1>1, <1>2
<1>4. \A i \in DOMAIN stack : WalkOK(stack[i], cbs)
  BY <1>2 DEF WalkInv
<1> SUFFICES ASSUME NEW i \in DOMAIN stack' PROVE WalkOK(stack'[i], new)
  BY <1>2 DEF WalkInv
<1>5. CASE Still
  BY <1>2, <1>4, <1>5 DEF Still
<1>6. CASE Pushing
  <2>1. PICK fr \in Frames : /\ stack' = Append(stack, fr) /\ fr.inside = FALSE
                             /\ fr.cursor = IF fr.record.prio = CRAZY THEN None ELSE First(cbs)
                             /\ fr.linked = Ids(cbs) /\ fr.called = <<>>
    BY <1>2, <1>6 DEF Pushing
  <2>2. WalkOK(fr, cbs)
    BY <1>3, <2>1, StartWalk
  <2>3. new = cbs
    BY <1>2, <1>6 DEF Pushing
  <2>4. stack'[i] = fr \/ (i \in DOMAIN stack /\ stack'[i] = stack[i])
    BY <1>0, <2>1, StackPushed
  <2> QED  BY <1>4, <2>2, <2>3, <2>4
<1>7. CASE Walking
  <2>0. LeaveCallback => Top.cursor # None
    BY <1>0, TopTyped DEF LeaveCallback, Standing, Top
  <2>1. PICK fr \in Frames :
              /\ stack # <<>> /\ stack' = SetTop(fr)
              /\ fr.record = Top.record /\ fr.allowed = Top.allowed /\ fr.linked = Top.linked
              /\ Top.cursor # None
              /\ \/ /\ ~Top.inside /\ Wanted(Top, log_callbacks[Position(log_callbacks, Top.cursor)])
                    /\ fr.cursor = Top.cursor /\ fr.inside = TRUE /\ fr.called = Append(Top.called, Top.cursor)
                 \/ /\ ~Top.inside => ~Wanted(Top, log_callbacks[Position(log_callbacks, Top.cursor)])
                    /\ fr.cursor = After(log_callbacks, Top.cursor) /\ fr.inside = FALSE /\ fr.called = Top.called
    BY <1>0, <1>7, <2>0, WalkMoves DEF Walking
  <2>2. PICK top \in Frames : top = Top /\ top.cursor \in Ids(cbs) /\ top.cursor \in CallbackIds
    BY <1>0, <1>1, <1>2, <2>1, TopTyped
  <2>3. WalkOK(top, cbs)
    BY <1>0, <1>4, <2>1, <2>2, TopTyped DEF Top
  <2>4. WalkOK(fr, cbs)
    <3>1. CASE /\ ~top.inside /\ Wanted(top, cbs[Position(cbs, top.cursor)])
               /\ fr.cursor = top.cursor /\ fr.inside = TRUE /\ fr.called = Append(top.called, top.cursor)
      BY <1>3, <2>1, <2>2, <2>3, <3>1, EnterWalk
    <3>2. CASE /\ ~top.inside => ~Wanted(top, cbs[Position(cbs, top.cursor)])
               /\ fr.cursor = After(cbs, top.cursor) /\ fr.inside = FALSE /\ fr.called = top.called
      BY <1>3, <2>1, <2>2, <2>3, <3>2, MoveWalk
    <3> QED  BY <1>2, <2>1, <2>2, <3>1, <3>2
  <2>5. new = cbs
    BY <1>2, <1>7 DEF Walking
  <2>6. i \in DOMAIN stack /\ (stack'[i] = fr \/ stack'[i] = stack[i])
    BY <1>0, <2>1, TopMoves
  <2> QED  BY <1>4, <2>4, <2>5, <2>6
<1>8. CASE Popping
  <2>1. i \in DOMAIN stack /\ stack'[i] = stack[i]
    BY <1>0, <1>8, StackPopped DEF Popping
  <2> QED  BY <1>2, <1>4, <1>8, <2>1 DEF Popping
<1>9. CASE Releasing
  BY <1>9 DEF Releasing
<1>10. ASSUME NEW id \in CallbackIds, NEW policy \in {RAW, FILTERED}, Linking(id, policy)
       PROVE  WalkOK(stack'[i], new)
  <2>1. PICK cb \in Callbacks : cb = [id |-> id, policy |-> policy] /\ cb.id = id
    <3>1. [id |-> id, policy |-> policy] \in Callbacks
      BY DEF Callbacks, Callback
    <3> QED  BY <3>1
  <2>2. new = Append(cbs, cb) /\ stack' = stack /\ id \notin Ids(cbs)
    BY <1>2, <1>10, <2>1 DEF Linking, Subscribed
  <2>3. PICK fr \in Frames : fr = stack[i] /\ fr.cursor \in Ids(cbs) \cup {None} /\ WalkOK(fr, cbs)
    BY <1>0, <1>2, <1>4, <2>2
  <2>4. WalkOK(fr, new)
    BY <1>3, <2>1, <2>2, <2>3, LinkWalk
  <2> QED  BY <2>2, <2>3, <2>4
<1>11. ASSUME NEW id \in CallbackIds, Unlinking(id) PROVE WalkOK(stack'[i], new)
  <2>1. PICK p : p = Position(cbs, id)
    OBVIOUS
  <2>2. /\ new = RemoveAt(cbs, p) /\ id \in Ids(cbs) /\ ~Iterated(id)
        /\ stack' = [k \in DOMAIN stack |-> [stack[k] EXCEPT !.linked = @ \ {id}]]
    BY <1>2, <1>11, <2>1 DEF Unlinking, Unsubscribed, Unlink
  <2>3. p \in DOMAIN cbs /\ cbs[p].id = id
    BY <2>1, <2>2, PositionOf
  <2>4. i \in DOMAIN stack
    BY <2>2
  <2>5. PICK old \in Frames : old = stack[i] /\ old.cursor \in Ids(cbs) \cup {None} /\ WalkOK(old, cbs)
    BY <1>0, <1>2, <1>4, <2>4
  <2>6. old.cursor # cbs[p].id
    BY <2>2, <2>3, <2>4, <2>5 DEF Iterated
  <2>7. PICK fr \in Frames :
           /\ fr = stack'[i] /\ fr.record = old.record /\ fr.allowed = old.allowed /\ fr.cursor = old.cursor
           /\ fr.inside = old.inside /\ fr.linked = old.linked \ {cbs[p].id} /\ fr.called = old.called
    <3>1. stack' \in Seq(Frames)
      BY <1>0, <2>2, StackForgets
    <3>2. stack'[i] \in Frames
      BY <3>1
    <3>3. /\ stack'[i].record = stack[i].record /\ stack'[i].allowed = stack[i].allowed
          /\ stack'[i].cursor = stack[i].cursor /\ stack'[i].inside = stack[i].inside
          /\ stack'[i].linked = stack[i].linked \ {id} /\ stack'[i].called = stack[i].called
      BY <1>0, <2>2, <2>4, StackForgets
    <3> QED  BY <2>3, <2>5, <3>2, <3>3
  <2>8. WalkOK(fr, new)
    BY <1>3, <2>2, <2>3, <2>5, <2>6, <2>7, UnlinkWalk
  <2> QED  BY <2>7, <2>8
<1> QED  BY <1>5, <1>6, <1>7, <1>8, <1>9, <1>10, <1>11 DEF ListStep

-----------------------------------------------------------------------------
(* Every step is one of those.                                             *)

Step == (LoggerNext /\ UNCHANGED moduleVars) \/ ModulesNext

\* The token a module keeps is a callback of its own.
TokensOwned == \A f \in Files : token[f] = None \/ Owns(f, token[f])

LEMMA HeadTyped ==
    ASSUME QueueOK, Channel!Outstanding > 0
    PROVE  Head(Queued) \in Records /\ accepted[Len(delivered) + 1] \in Records
<1>1. PICK a \in Seq(Records), n \in Nat : a = accepted /\ n = Len(delivered)
  BY DEF QueueOK
<1>2. n + 1 \in 1 .. Len(a) /\ Len(a) \in Nat
  BY <1>1 DEF Channel!Outstanding, QueueOK
<1>3. a[n + 1] \in Records
  BY <1>2
<1>4. Head(SubSeq(a, n + 1, Len(a))) = a[n + 1]
  <2>1. Len(SubSeq(a, n + 1, Len(a))) = Len(a) - n /\ SubSeq(a, n + 1, Len(a))[1] = a[n + 1]
    BY <1>2
  <2> QED  BY <1>2, <2>1
<1> QED  BY <1>1, <1>3, <1>4 DEF Queued

LEMMA DeliverPushes ==
    ASSUME ModulesTypeOK, NEW record \in Records, Deliver(record), UNCHANGED subs
    PROVE  Pushing
<1>1. ListOK /\ SlotsOK /\ NowOK
  BY TypeParts
<1>2. PICK fr \in Frames : /\ stack' = Append(stack, fr)
                           /\ fr.record = record /\ fr.inside = FALSE
                           /\ fr.cursor = IF record.prio = CRAZY THEN None ELSE First(log_callbacks)
                           /\ fr.linked = Ids(log_callbacks) /\ fr.called = <<>>
  BY <1>1, DeliverEffect
<1> QED  BY <1>2 DEF Pushing, subs

\* The logger's own steps.
LEMMA LoggerMoves ==
    ASSUME ModulesTypeOK, LoggerNext
    PROVE  \/ Still \/ Pushing \/ Walking \/ Popping \/ Releasing
           \/ \E id \in CallbackIds : Unlinking(id) \/ \E policy \in {RAW, FILTERED} : Linking(id, policy)
<1>0. Subscribers \subseteq CallbackIds
  BY DEF CallbackIds
<1>1. ASSUME NEW t \in Threads, LogPush(t) PROVE Still
  BY <1>1 DEF LogPush, Still, subs
<1>2. ASSUME NEW t \in Threads, NEW s \in Sources, LogSubmit(t, s) PROVE Still
  BY <1>2 DEF LogSubmit, Still, subs
<1>3. ASSUME NEW s \in Sources, LogDirect(s) \/ LogNested(s) PROVE Pushing
  <2>1. Deliver(Record(s)) /\ UNCHANGED subs /\ issued < MaxLog
    BY <1>3 DEF LogDirect, LogNested, MayLog
  <2>2. PICK r \in Records : r = Record(s)
    BY <2>1, RecordTyped, SourceTyped
  <2> QED  BY <2>1, <2>2, DeliverPushes
<1>4. ASSUME EnterCallback \/ SkipCallback \/ LeaveCallback PROVE Walking
  BY <1>4 DEF EnterCallback, SkipCallback, LeaveCallback, Walking, subs
<1>5. ASSUME FinishLog PROVE Popping
  BY <1>5 DEF FinishLog, Popping, subs
<1>6. ASSUME NEW async \in BOOLEAN, LoggerInit(async) PROVE Still
  BY <1>6 DEF LoggerInit, Still, subs
<1>7. ASSUME DrainTick \/ SlowDrain \/ TickDone \/ LoggerEnd PROVE Still
  BY <1>7 DEF DrainTick, SlowDrain, TickDone, LoggerEnd, Still, subs
<1>8. ASSUME DrainOne PROVE Pushing
  <2>1. Channel!Outstanding > 0 /\ Deliver(Head(Queued)) /\ UNCHANGED subs
    BY <1>8 DEF DrainOne, Channel!Deliver
  <2>2. PICK r \in Records : r = Head(Queued)
    BY <2>1, HeadTyped, TypeParts
  <2> QED  BY <2>1, <2>2, DeliverPushes
<1>9. ASSUME EndRelease PROVE Releasing
  BY <1>9 DEF EndRelease, Releasing
<1>10. ASSUME NEW id \in Subscribers, Unsubscribe(id) PROVE Unlinking(id)
  BY <1>10 DEF Unsubscribe, Unlinking
<1>11. ASSUME NEW id \in Subscribers, NEW p \in {RAW, FILTERED}, Subscribe(id, p) PROVE Linking(id, p)
  BY <1>11 DEF Subscribe, Linking
<1>12. ASSUME DropFilters \/ Clock \/ \E f \in Extra : AddFilter(f) PROVE Still
  BY <1>12 DEF DropFilters, Clock, AddFilter, Still, subs
<1>13. CASE \E t \in Threads : LogPush(t) \/ \E s \in Sources : LogSubmit(t, s)
  BY <1>1, <1>2, <1>13
<1>14. CASE \E s \in Sources : LogDirect(s) \/ LogNested(s)
  BY <1>3, <1>14
<1>15. CASE \E async \in BOOLEAN : LoggerInit(async)
  BY <1>6, <1>15
<1>16. CASE \E id \in Subscribers : Unsubscribe(id) \/ \E p \in {RAW, FILTERED} : Subscribe(id, p)
  <2>1. CASE \E id \in Subscribers : Unsubscribe(id)
    BY <1>0, <1>10, <2>1
  <2>2. CASE \E id \in Subscribers : \E p \in {RAW, FILTERED} : Subscribe(id, p)
    BY <1>0, <1>11, <2>2
  <2> QED  BY <1>16, <2>1, <2>2
<1> QED  BY <1>4, <1>5, <1>7, <1>8, <1>9, <1>12, <1>13, <1>14, <1>15, <1>16 DEF LoggerNext

\* What the loader registers is new, since every load has its own callback.
LEMMA LoaderRegisters ==
    ASSUME ListInv, NEW n \in Names, loads < MaxLoads, Subscribed(CallbackOf(File(n)), FILTERED),
           loads' = loads + 1, stack' = stack
    PROVE  \E id \in CallbackIds : \E policy \in {RAW, FILTERED} : Linking(id, policy)
<1>1. PICK f \in Files, id \in {<<File(n), loads>>} : f = File(n) /\ id = <<f, loads>>
  BY DEF Files
<1>2. loads \in 0 .. MaxLoads /\ loads \in Nat
  BY ModulesAssumption DEF ListInv
<1>3. id \in CallbackIds /\ id \notin Subscribers
  <2>1. id \in Files \X (0 .. MaxLoads)
    BY <1>1, <1>2
  <2> QED  BY <2>1, ModulesAssumption DEF CallbackIds
<1>4. id \notin Ids(log_callbacks)
  <2> SUFFICES ASSUME id \in Ids(log_callbacks) PROVE FALSE
    OBVIOUS
  <2>1. PICK g \in Files, k \in 0 .. loads - 1 : id = <<g, k>>
    BY <1>3 DEF ListInv, IdsKnown
  <2>2. k = loads
    BY <1>1, <2>1
  <2> QED  BY <1>2, <2>1, <2>2
<1>5. Linking(id, FILTERED)
  BY <1>1, <1>4 DEF Linking, CallbackOf
<1> QED  BY <1>3, <1>5

LEMMA StepsOfTheList ==
    ASSUME ModulesTypeOK, ListInv, TokensOwned, Step
    PROVE  ListStep /\ loads' \in 0 .. MaxLoads
<1>0. loads \in 0 .. MaxLoads /\ MaxLoads \in Nat /\ token \in [Files -> CallbackIds \cup {None}]
  BY TypeParts, ModulesAssumption DEF LoaderOK
<1>1. CASE LoggerNext /\ UNCHANGED moduleVars
  <2>1. loads' = loads
    BY <1>1 DEF moduleVars
  <2> QED  BY <1>0, <1>1, <2>1, LoggerMoves DEF ListStep
<1>2. ASSUME NEW n \in Names, LoadModule(n) PROVE ListStep /\ loads' \in 0 .. MaxLoads
  <2>1. /\ loads < MaxLoads /\ loads' = loads + 1 /\ stack' = stack
        /\ Subscribed(CallbackOf(File(n)), FILTERED)
    BY <1>2 DEF LoadModule
  <2>2. loads' \in 0 .. MaxLoads
    BY <1>0, <2>1
  <2> QED  BY <2>1, <2>2, LoaderRegisters DEF ListStep
<1>3. ASSUME NEW n \in Names, LoadFails(n) PROVE ListStep /\ loads' \in 0 .. MaxLoads
  <2>1. loads < MaxLoads /\ loads' = loads + 1 /\ stack' = stack
    BY <1>3 DEF LoadFails
  <2>2. loads' \in 0 .. MaxLoads
    BY <1>0, <2>1
  <2>3. CASE UNCHANGED subs
    BY <2>1, <2>2, <2>3 DEF ListStep, Still, subs
  <2>4. CASE Subscribed(CallbackOf(File(n)), FILTERED)
    BY <2>1, <2>2, <2>4, LoaderRegisters DEF ListStep
  <2> QED  BY <1>3, <2>3, <2>4 DEF LoadFails
<1>4. ASSUME NEW n \in Names, UnloadModule(n) PROVE ListStep /\ loads' \in 0 .. MaxLoads
  <2>1. loads' = loads /\ CanUnload(File(n)) /\ Shutdown(File(n))
    BY <1>4 DEF UnloadModule
  <2>2. PICK f \in Files, id \in {token[File(n)]} : f = File(n) /\ id = token[f] /\ id \in CallbackIds \cup {None}
    BY <1>0 DEF Files
  <2>3. CASE UNCHANGED <<subs, stack>>
    BY <1>0, <2>1, <2>3 DEF ListStep, Still, subs
  <2>4. CASE id \in Ids(log_callbacks) /\ Unsubscribed(id)
    <3>1. id # None /\ id \in CallbackIds
      <4>1. ListOK
        BY TypeParts
      <4> QED  BY <2>4, <4>1, FirstTyped, ModulesAssumption
    <3>2. ~Iterated(id)
      <4>1. Owns(f, id)
        BY <2>2, <3>1 DEF TokensOwned
      <4> QED  BY <2>1, <2>2, <2>4, <4>1 DEF CanUnload
    <3>3. Unlinking(id)
      BY <2>4, <3>2 DEF Unlinking
    <3> QED  BY <1>0, <2>1, <3>1, <3>3 DEF ListStep
  <2> QED  BY <2>1, <2>2, <2>3, <2>4 DEF Shutdown
<1> QED  BY <1>1, <1>2, <1>3, <1>4 DEF Step, ModulesNext

LEMMA TokensKept ==
    ASSUME ModulesTypeOK, TokensOwned, Step
    PROVE  TokensOwned'
<1>0. loads \in 0 .. MaxLoads /\ DOMAIN token = Files
  BY TypeParts DEF LoaderOK
<1>1. CASE UNCHANGED token
  BY <1>1 DEF TokensOwned
<1>2. ASSUME NEW f \in Files, token' = [token EXCEPT ![f] = <<f, loads>>] PROVE TokensOwned'
  <2>1. Owns(f, <<f, loads>>)
    BY <1>0 DEF Owns
  <2> QED  BY <1>0, <1>2, <2>1 DEF TokensOwned, Owns
<1>3. ASSUME NEW f \in Files, token' = [token EXCEPT ![f] = None] PROVE TokensOwned'
  BY <1>0, <1>3 DEF TokensOwned, Owns
<1>4. CASE LoggerNext /\ UNCHANGED moduleVars
  BY <1>1, <1>4 DEF moduleVars
<1>5. ASSUME NEW n \in Names, LoadModule(n) \/ LoadFails(n) \/ UnloadModule(n) PROVE TokensOwned'
  <2>1. File(n) \in Files
    BY DEF Files
  <2>2. CASE LoadModule(n)
    BY <1>2, <2>1, <2>2 DEF LoadModule, CallbackOf
  <2>3. CASE LoadFails(n)
    BY <1>1, <1>2, <2>1, <2>3 DEF LoadFails, CallbackOf
  <2>4. CASE UnloadModule(n)
    BY <1>3, <2>1, <2>4 DEF UnloadModule, Shutdown
  <2> QED  BY <1>5, <2>2, <2>3, <2>4
<1> QED  BY <1>4, <1>5 DEF Step, ModulesNext

-----------------------------------------------------------------------------
(* Types.                                                                  *)

LEMMA SubmitTyped ==
    ASSUME SubmitOK, NEW t \in Threads, NEW r \in Records \cup {Idle}, submitting' = [submitting EXCEPT ![t] = r]
    PROVE  SubmitOK'
BY DEF SubmitOK

\* The owner takes a warning of the logger's own in hand.
LEMMA WarningTyped ==
    ASSUME ModulesTypeOK, issued < MaxLog, issued' = issued + 1,
           submitting' = [submitting EXCEPT ![Owner] = Record(Warning)]
    PROVE  SubmitOK' /\ IssuedOK'
<1>1. PICK s : s = Warning /\ s[1] \in Subsystems /\ s[2] \in Int
  <2>1. "logger" \in Subsystems /\ WARN \in Int
    BY DEF WARN, Subsystems
  <2>2. <<"logger", WARN>>[1] = "logger" /\ <<"logger", WARN>>[2] = WARN
    OBVIOUS
  <2> QED  BY <2>1, <2>2 DEF Warning
<1>2. PICK r \in Records : r = Record(s) /\ issued + 1 \in 0 .. MaxLog
  BY <1>1, RecordTyped
<1>3. Owner \in Threads /\ SubmitOK
  BY TypeParts DEF Threads
<1>4. SubmitOK'
  BY <1>1, <1>2, <1>3, SubmitTyped
<1> QED  BY <1>2, <1>4 DEF IssuedOK

LEMMA PushTyped ==
    ASSUME ModulesTypeOK, NEW t \in Threads, LogPush(t)
    PROVE  SubmitOK' /\ QueueOK' /\ DropsOK'
<1>0. SubmitOK /\ QueueOK /\ DropsOK /\ SwitchesOK
  BY TypeParts
<1>1. SubmitOK'
  BY <1>0 DEF LogPush, SubmitOK
<1>2. CASE Channel!Accept([submitting[t] EXCEPT !.live = worker_logging_enabled]) /\ UNCHANGED dropped
  <2>1. submitting[t] \in Records
    BY <1>0 DEF LogPush, SubmitOK
  <2>2. PICK r \in Records : r = [submitting[t] EXCEPT !.live = worker_logging_enabled]
    BY <1>0, <2>1 DEF Records, SwitchesOK
  <2>3. /\ Len(accepted) - Len(delivered) < Capacity
        /\ accepted' = Append(accepted, r) /\ delivered' = delivered
    BY <1>2, <2>2 DEF Channel!Accept, Channel!Outstanding
  <2>4. QueueOK'
    <3>1. accepted' \in Seq(Records) /\ Len(accepted') = Len(accepted) + 1
      BY <1>0, <2>3 DEF QueueOK
    <3>2. Len(accepted) \in Nat /\ Len(delivered) \in Nat /\ Capacity \in Nat
      BY <1>0, LoggerAssumption DEF QueueOK
    <3> QED  BY <1>0, <2>3, <3>1, <3>2 DEF QueueOK
  <2>5. DropsOK'
    BY <1>0, <1>2 DEF DropsOK, LogPush
  <2> QED  BY <1>1, <2>4, <2>5
<1>3. CASE dropped' = dropped + 1 /\ UNCHANGED <<accepted, delivered>>
  <2>1. QueueOK'
    BY <1>0, <1>3 DEF QueueOK
  <2>2. DropsOK'
    BY <1>0, <1>3 DEF DropsOK, LogPush
  <2> QED  BY <1>1, <2>1, <2>2
<1> QED  BY <1>2, <1>3 DEF LogPush

LEMMA ClearTyped ==
    ASSUME ClearFilters
    PROVE  SlotsOK'
<1>1. log_rate_slots' = <<>>
  BY DEF ClearFilters
<1>2. DOMAIN <<>> = {}
  OBVIOUS
<1>3. IsFiniteSet({}) /\ Cardinality({}) = 0 /\ 0 <= Slots
  BY FS_EmptySet, LoggerAssumption
<1>4. SlotsTyped(<<>>)
  BY <1>2, <1>3 DEF SlotsTyped
<1> QED  BY <1>1, <1>4 DEF SlotsOK

LEMMA LoggerTyped ==
    ASSUME ModulesTypeOK, ListOK', StackOK', LoggerNext, UNCHANGED moduleVars
    PROVE  ModulesTypeOK'
<1>0. /\ SwitchesOK /\ IssuedOK /\ NowOK /\ QueueOK /\ DropsOK /\ ListOK
      /\ SlotsOK /\ SubmitOK /\ OwnerOK /\ StackOK /\ LoaderOK
  BY TypeParts
<1>1. LoaderOK'
  BY TypesStay
<1>2. ASSUME NEW t \in Threads, LogPush(t) PROVE ModulesTypeOK'
  <2>1. SubmitOK' /\ QueueOK' /\ DropsOK'
    BY <1>2, PushTyped
  <2>2. UNCHANGED <<switches, rates, now, issued>> /\ UNCHANGED <<ocall, budget>>
    BY <1>2 DEF LogPush
  <2>3. SwitchesOK' /\ IssuedOK' /\ NowOK' /\ SlotsOK' /\ OwnerOK'
    BY <2>2, TypesStay DEF rates
  <2> QED  BY <1>1, <2>1, <2>3, TypePartsNext
<1>3. ASSUME NEW t \in Threads, NEW s \in Sources, LogSubmit(t, s) PROVE ModulesTypeOK'
  <2>1. submitting' = [submitting EXCEPT ![t] = Record(s)] /\ issued' = issued + 1 /\ issued < MaxLog
    BY <1>3 DEF LogSubmit, MayLog
  <2>2. PICK r \in Records : r = Record(s) /\ issued + 1 \in 0 .. MaxLog
    BY <2>1, RecordTyped, SourceTyped
  <2>3. SubmitOK' /\ IssuedOK'
    BY <1>0, <2>1, <2>2, SubmitTyped DEF IssuedOK
  <2>4. UNCHANGED <<switches, queue, rates, now>> /\ UNCHANGED <<ocall, budget>>
    BY <1>3 DEF LogSubmit
  <2>5. SwitchesOK' /\ QueueOK' /\ DropsOK' /\ NowOK' /\ SlotsOK' /\ OwnerOK'
    BY <2>4, TypesStay DEF rates, queue
  <2> QED  BY <1>1, <2>3, <2>5, TypePartsNext
<1>4. ASSUME NEW s \in Sources, LogDirect(s) \/ LogNested(s) PROVE ModulesTypeOK'
  <2>1. /\ Deliver(Record(s)) /\ issued' = issued + 1 /\ issued < MaxLog
        /\ UNCHANGED <<switches, queue, now, submitting>> /\ UNCHANGED <<ocall, budget>>
    BY <1>4 DEF LogDirect, LogNested, MayLog
  <2>2. PICK r \in Records : r = Record(s) /\ issued + 1 \in 0 .. MaxLog
    BY <2>1, RecordTyped, SourceTyped
  <2>3. SlotsOK'
    BY <1>0, <2>1, <2>2, DeliverEffect
  <2>4. IssuedOK'
    BY <2>1, <2>2 DEF IssuedOK
  <2>5. SwitchesOK' /\ QueueOK' /\ DropsOK' /\ NowOK' /\ SubmitOK' /\ OwnerOK'
    BY <2>1, TypesStay DEF queue
  <2> QED  BY <1>1, <2>3, <2>4, <2>5, TypePartsNext
<1>5. ASSUME EnterCallback \/ SkipCallback \/ LeaveCallback \/ FinishLog PROVE ModulesTypeOK'
  <2>1. UNCHANGED <<switches, queue, log_rate_slots, now, submitting, issued>> /\ UNCHANGED <<ocall, budget>>
    BY <1>5 DEF EnterCallback, SkipCallback, LeaveCallback, FinishLog, rates
  <2>2. SwitchesOK' /\ QueueOK' /\ DropsOK' /\ NowOK' /\ SubmitOK' /\ OwnerOK' /\ SlotsOK' /\ IssuedOK'
    BY <2>1, TypesStay DEF queue
  <2> QED  BY <1>1, <2>2, TypePartsNext
<1>6. ASSUME NEW async \in BOOLEAN, LoggerInit(async) PROVE ModulesTypeOK'
  <2>1. UNCHANGED <<accepted, delivered>> /\ UNCHANGED <<dropped, rates, now, submitting, issued>> /\ UNCHANGED <<ocall, budget>>
    BY <1>6 DEF LoggerInit
  <2>2. QueueOK' /\ NowOK' /\ SubmitOK' /\ OwnerOK' /\ SlotsOK' /\ IssuedOK'
    BY <2>1, TypesStay DEF rates
  <2>3. SwitchesOK'
    <3>1. CASE UNCHANGED switches
      BY <3>1, TypesStay
    <3>2. CASE ~UNCHANGED switches
      <4>1. /\ session < MaxSession /\ session' = session + 1 /\ logger_owner_valid' = TRUE
            /\ worker_logging_enabled' = TRUE /\ drain_source' = TRUE
        BY <1>6, <3>2 DEF LoggerInit
      <4>2. session' \in 0 .. MaxSession
        BY <1>0, <4>1, LoggerAssumption DEF SwitchesOK
      <4> QED  BY <4>1, <4>2 DEF SwitchesOK
    <3> QED  BY <3>1, <3>2
  <2>4. DropsOK'
    <3>1. dropped' = dropped /\ logger_drops_reported' \in {dropped, logger_drops_reported}
      BY <1>6 DEF LoggerInit
    <3> QED  BY <1>0, <3>1 DEF DropsOK
  <2> QED  BY <1>1, <2>2, <2>3, <2>4, TypePartsNext
<1>7. ASSUME DrainTick PROVE ModulesTypeOK'
  <2>1. UNCHANGED <<switches, queue, rates, now, submitting, issued>> /\ ocall' = "tick" /\ budget' = DrainMax
    BY <1>7 DEF DrainTick
  <2>2. OwnerOK'
    BY <2>1, LoggerAssumption DEF OwnerOK
  <2>3. SwitchesOK' /\ QueueOK' /\ DropsOK' /\ NowOK' /\ SubmitOK' /\ SlotsOK' /\ IssuedOK'
    BY <2>1, TypesStay DEF queue, rates
  <2> QED  BY <1>1, <2>2, <2>3, TypePartsNext
<1>8. ASSUME DrainOne PROVE ModulesTypeOK'
  <2>1. /\ Channel!Deliver /\ Deliver(Head(Queued))
        /\ UNCHANGED <<switches, now, submitting, issued>> /\ UNCHANGED <<dropped, logger_drops_reported>>
    BY <1>8 DEF DrainOne
  <2>2. Channel!Outstanding > 0
    BY <2>1 DEF Channel!Deliver
  <2>3. PICK r \in Records : r = Head(Queued)
    BY <1>0, <2>2, HeadTyped
  <2>4. SlotsOK'
    BY <1>0, <2>1, <2>3, DeliverEffect
  <2>5. QueueOK'
    <3>1. PICK a \in Records : a = accepted[Len(delivered) + 1]
      BY <1>0, <2>2, HeadTyped
    <3>2. delivered' = Append(delivered, a) /\ accepted' = accepted /\ Len(accepted) - Len(delivered) > 0
      BY <2>1, <3>1 DEF Channel!Deliver, Channel!Outstanding
    <3>3. delivered' \in Seq(Records) /\ Len(delivered') = Len(delivered) + 1
      BY <1>0, <3>2 DEF QueueOK
    <3>4. Len(accepted) \in Nat /\ Len(delivered) \in Nat /\ Capacity \in Nat
      BY <1>0, LoggerAssumption DEF QueueOK
    <3> QED  BY <1>0, <3>2, <3>3, <3>4 DEF QueueOK
  <2>6. OwnerOK'
    <3>1. ocall' = ocall /\ (ocall = "tick" => budget > 0) /\ budget' = IF ocall = "tick" THEN budget - 1 ELSE budget
      BY <1>8 DEF DrainOne
    <3> QED  BY <1>0, <3>1, LoggerAssumption DEF OwnerOK
  <2>7. SwitchesOK' /\ DropsOK' /\ NowOK' /\ SubmitOK' /\ IssuedOK'
    BY <2>1, TypesStay
  <2> QED  BY <1>1, <2>4, <2>5, <2>6, <2>7, TypePartsNext
<1>9. ASSUME TickDone PROVE ModulesTypeOK'
  <2>1. /\ UNCHANGED <<accepted, delivered>> /\ UNCHANGED <<dropped, switches, rates, now, budget>>
        /\ ocall' = "idle" /\ logger_drops_reported' = dropped
    BY <1>9 DEF TickDone
  <2>2. OwnerOK'
    BY <1>0, <2>1 DEF OwnerOK
  <2>3. DropsOK'
    BY <1>0, <2>1 DEF DropsOK
  <2>4. SubmitOK' /\ IssuedOK'
    <3>1. CASE UNCHANGED <<submitting, issued>>
      BY <3>1, TypesStay
    <3>2. CASE ~UNCHANGED <<submitting, issued>>
      BY <1>9, <1>0, <3>2, WarningTyped DEF TickDone, CanWarn
    <3> QED  BY <3>1, <3>2
  <2>5. SwitchesOK' /\ QueueOK' /\ NowOK' /\ SlotsOK'
    BY <2>1, TypesStay DEF rates
  <2> QED  BY <1>1, <2>2, <2>3, <2>4, <2>5, TypePartsNext
<1>17. ASSUME SlowDrain PROVE ModulesTypeOK'
  <2>1. /\ UNCHANGED <<switches, queue, rates, now, budget>> /\ ocall' = "report"
        /\ submitting' = [submitting EXCEPT ![Owner] = Record(Warning)]
        /\ issued' = issued + 1 /\ issued < MaxLog
    BY <1>17 DEF SlowDrain, CanWarn
  <2>2. OwnerOK'
    BY <1>0, <2>1 DEF OwnerOK
  <2>3. SubmitOK' /\ IssuedOK'
    BY <1>0, <2>1, WarningTyped
  <2>4. SwitchesOK' /\ QueueOK' /\ DropsOK' /\ NowOK' /\ SlotsOK'
    BY <2>1, TypesStay DEF queue, rates
  <2> QED  BY <1>1, <2>2, <2>3, <2>4, TypePartsNext
<1>10. ASSUME LoggerEnd PROVE ModulesTypeOK'
  <2>1. /\ worker_logging_enabled' = FALSE /\ drain_source' = FALSE /\ ocall' = "end"
        /\ UNCHANGED <<logger_owner_valid, session, queue, rates, now, submitting, issued, budget>>
    BY <1>10 DEF LoggerEnd
  <2>2. SwitchesOK' /\ OwnerOK'
    BY <1>0, <2>1 DEF SwitchesOK, OwnerOK
  <2>3. QueueOK' /\ DropsOK' /\ NowOK' /\ SubmitOK' /\ SlotsOK' /\ IssuedOK'
    BY <2>1, TypesStay DEF queue, rates
  <2> QED  BY <1>1, <2>2, <2>3, TypePartsNext
<1>11. ASSUME EndRelease PROVE ModulesTypeOK'
  <2>1. ClearFilters /\ ocall' = "idle" /\ UNCHANGED <<switches, queue, now, submitting, issued, budget>>
    BY <1>11 DEF EndRelease
  <2>2. OwnerOK' /\ SlotsOK'
    BY <1>0, <2>1, ClearTyped DEF OwnerOK
  <2>3. SwitchesOK' /\ QueueOK' /\ DropsOK' /\ NowOK' /\ SubmitOK' /\ IssuedOK'
    BY <2>1, TypesStay DEF queue
  <2> QED  BY <1>1, <2>2, <2>3, TypePartsNext
<1>12. ASSUME NEW id \in Subscribers, Unsubscribe(id) \/ \E p \in {RAW, FILTERED} : Subscribe(id, p) PROVE ModulesTypeOK'
  <2>1. UNCHANGED <<switches, queue, rates, now, submitting, issued>> /\ UNCHANGED <<ocall, budget>>
    BY <1>12 DEF Subscribe, Unsubscribe
  <2>2. SwitchesOK' /\ QueueOK' /\ DropsOK' /\ NowOK' /\ SubmitOK' /\ OwnerOK' /\ SlotsOK' /\ IssuedOK'
    BY <2>1, TypesStay DEF queue, rates
  <2> QED  BY <1>1, <2>2, TypePartsNext
<1>13. ASSUME DropFilters PROVE ModulesTypeOK'
  <2>1. ClearFilters /\ UNCHANGED <<switches, queue, now, submitting, issued>> /\ UNCHANGED <<ocall, budget>>
    BY <1>13 DEF DropFilters
  <2>2. SwitchesOK' /\ QueueOK' /\ DropsOK' /\ NowOK' /\ SubmitOK' /\ OwnerOK' /\ SlotsOK' /\ IssuedOK'
    BY <2>1, TypesStay, ClearTyped DEF queue
  <2> QED  BY <1>1, <2>2, TypePartsNext
<1>14. ASSUME Clock PROVE ModulesTypeOK'
  <2>1. /\ now < MaxNow /\ now' = now + 1
        /\ UNCHANGED <<switches, queue, rates, submitting, issued>> /\ UNCHANGED <<ocall, budget>>
    BY <1>14 DEF Clock
  <2>2. NowOK'
    BY <1>0, <2>1, LoggerAssumption DEF NowOK
  <2>3. SwitchesOK' /\ QueueOK' /\ DropsOK' /\ SubmitOK' /\ OwnerOK' /\ SlotsOK' /\ IssuedOK'
    BY <2>1, TypesStay DEF queue, rates
  <2> QED  BY <1>1, <2>2, <2>3, TypePartsNext
<1>15. ASSUME NEW f \in Extra, AddFilter(f) PROVE ModulesTypeOK'
  <2>1. UNCHANGED <<switches, queue, rates, now, submitting, issued>> /\ UNCHANGED <<ocall, budget>>
    BY <1>15 DEF AddFilter
  <2>2. SwitchesOK' /\ QueueOK' /\ DropsOK' /\ NowOK' /\ SubmitOK' /\ OwnerOK' /\ SlotsOK' /\ IssuedOK'
    BY <2>1, TypesStay DEF queue, rates
  <2> QED  BY <1>1, <2>2, TypePartsNext
<1> QED  BY <1>2, <1>3, <1>4, <1>5, <1>6, <1>7, <1>8, <1>9, <1>10, <1>11, <1>12, <1>13, <1>14, <1>15, <1>17 DEF LoggerNext

LEMMA LoaderTyped ==
    ASSUME ModulesTypeOK, ListOK', StackOK', loads' \in 0 .. MaxLoads, ModulesNext,
           \A f \in Files : opened[f] > 0 \/ \A n \in modules : File(n) # f
    PROVE  ModulesTypeOK'
<1>0. LoaderOK
  BY TypeParts
<1>1. ASSUME NEW n \in Names, LoadModule(n) \/ LoadFails(n) \/ UnloadModule(n) PROVE ModulesTypeOK'
  <2>1. UNCHANGED <<switches, queue, rates, now, submitting, issued>> /\ UNCHANGED <<ocall, budget>>
    BY <1>1 DEF LoadModule, LoadFails, UnloadModule
  <2>2. SwitchesOK' /\ QueueOK' /\ DropsOK' /\ NowOK' /\ SubmitOK' /\ OwnerOK' /\ SlotsOK' /\ IssuedOK'
    BY <2>1, TypesStay DEF queue, rates
  <2>3. PICK f \in Files : f = File(n)
    BY DEF Files
  <2>4. modules' \subseteq Names
    BY <1>0, <1>1 DEF LoaderOK, LoadModule, LoadFails, UnloadModule
  <2>5. token' \in [Files -> CallbackIds \cup {None}]
    <3>1. PICK id \in CallbackIds : id = <<f, loads>>
      <4>1. <<f, loads>> \in Files \X (0 .. MaxLoads)
        BY <1>0 DEF LoaderOK
      <4> QED  BY <4>1 DEF CallbackIds
    <3>2. \/ token' = token \/ token' = [token EXCEPT ![f] = id] \/ token' = [token EXCEPT ![f] = None]
      BY <1>1, <2>3, <3>1 DEF LoadModule, LoadFails, UnloadModule, Shutdown, CallbackOf
    <3> QED  BY <1>0, <3>2 DEF LoaderOK
  <2>6. opened' \in [Files -> Nat]
    <3>1. CASE opened' = opened
      BY <1>0, <3>1 DEF LoaderOK
    <3>2. CASE opened' = [opened EXCEPT ![f] = @ + 1]
      BY <1>0, <3>2 DEF LoaderOK
    <3>3. CASE UnloadModule(n)
      <4>1. opened' = [opened EXCEPT ![f] = @ - 1] /\ opened[f] > 0
        BY <2>3, <3>3 DEF UnloadModule
      <4> QED  BY <1>0, <4>1 DEF LoaderOK
    <3> QED  BY <1>1, <2>3, <3>1, <3>2, <3>3 DEF LoadModule, LoadFails
  <2>7. LoaderOK'
    BY <2>4, <2>5, <2>6 DEF LoaderOK
  <2> QED  BY <2>2, <2>7, TypePartsNext
<1> QED  BY <1>1 DEF ModulesNext

-----------------------------------------------------------------------------
(* dlopen() counts: an object is open once for every listed name of it.    *)

ListedAs(mods, f) == {n \in mods : File(n) = f}

OpenedExact ==
    /\ IsFiniteSet(modules)
    /\ \A f \in Files : opened[f] = Cardinality(ListedAs(modules, f))

LEMMA ListedFinite ==
    ASSUME NEW mods, IsFiniteSet(mods), NEW f
    PROVE  /\ IsFiniteSet(ListedAs(mods, f)) /\ Cardinality(ListedAs(mods, f)) \in Nat
           /\ \A n \in mods : File(n) = f => Cardinality(ListedAs(mods, f)) > 0
<1>1. IsFiniteSet(ListedAs(mods, f))
  <2>1. ListedAs(mods, f) \in SUBSET mods
    BY DEF ListedAs
  <2> QED  BY <2>1, FS_Subset
<1>2. Cardinality(ListedAs(mods, f)) \in Nat
  BY <1>1, FS_CardinalityType
<1>3. ASSUME NEW n \in mods, File(n) = f PROVE Cardinality(ListedAs(mods, f)) > 0
  <2>1. ListedAs(mods, f) # {}
    BY <1>3 DEF ListedAs
  <2>2. Cardinality(ListedAs(mods, f)) # 0
    BY <1>1, <2>1, FS_EmptySet
  <2> QED  BY <1>2, <2>2
<1> QED  BY <1>1, <1>2, <1>3

LEMMA OpenHasNames ==
    ASSUME OpenedExact
    PROVE  \A f \in Files : opened[f] > 0 \/ \A n \in modules : File(n) # f
BY ListedFinite DEF OpenedExact

LEMMA OpenedKept ==
    ASSUME LoaderOK, OpenedExact, Step
    PROVE  OpenedExact'
<1>0. opened \in [Files -> Nat] /\ modules \subseteq Names /\ IsFiniteSet(modules)
  BY DEF LoaderOK, OpenedExact
<1>1. CASE UNCHANGED <<modules, opened>>
  BY <1>1 DEF OpenedExact
<1>2. ASSUME NEW n \in Names, n \notin modules, modules' = modules \cup {n},
             opened' = [opened EXCEPT ![File(n)] = @ + 1]
      PROVE  OpenedExact'
  <2>1. IsFiniteSet(modules')
    BY <1>0, <1>2, FS_AddElement
  <2>2. ASSUME NEW f \in Files PROVE opened'[f] = Cardinality(ListedAs(modules', f))
    <3>1. IsFiniteSet(ListedAs(modules, f)) /\ n \notin ListedAs(modules, f)
      BY <1>0, <1>2, ListedFinite DEF ListedAs
    <3>2. CASE f = File(n)
      <4>1. ListedAs(modules', f) = ListedAs(modules, f) \cup {n}
        BY <1>2, <3>2 DEF ListedAs
      <4>2. Cardinality(ListedAs(modules', f)) = Cardinality(ListedAs(modules, f)) + 1
        BY <3>1, <4>1, FS_AddElement
      <4>3. opened'[f] = opened[f] + 1
        BY <1>0, <1>2, <3>2
      <4> QED  BY <4>2, <4>3 DEF OpenedExact
    <3>3. CASE f # File(n)
      <4>1. ListedAs(modules', f) = ListedAs(modules, f)
        BY <1>2, <3>3 DEF ListedAs
      <4>2. opened'[f] = opened[f]
        BY <1>0, <1>2, <3>3
      <4> QED  BY <4>1, <4>2 DEF OpenedExact
    <3> QED  BY <3>2, <3>3
  <2> QED  BY <2>1, <2>2 DEF OpenedExact
<1>3. ASSUME NEW n \in Names, n \in modules, modules' = modules \ {n},
             opened' = [opened EXCEPT ![File(n)] = @ - 1]
      PROVE  OpenedExact'
  <2>1. IsFiniteSet(modules')
    BY <1>0, <1>3, FS_RemoveElement
  <2>2. ASSUME NEW f \in Files PROVE opened'[f] = Cardinality(ListedAs(modules', f))
    <3>1. IsFiniteSet(ListedAs(modules, f))
      BY <1>0, ListedFinite
    <3>2. CASE f = File(n)
      <4>1. ListedAs(modules', f) = ListedAs(modules, f) \ {n} /\ n \in ListedAs(modules, f)
        BY <1>3, <3>2 DEF ListedAs
      <4>2. Cardinality(ListedAs(modules', f)) = Cardinality(ListedAs(modules, f)) - 1
        BY <3>1, <4>1, FS_RemoveElement
      <4>3. opened'[f] = opened[f] - 1
        BY <1>0, <1>3, <3>2
      <4> QED  BY <4>2, <4>3 DEF OpenedExact
    <3>3. CASE f # File(n)
      <4>1. ListedAs(modules', f) = ListedAs(modules, f)
        BY <1>3, <3>3 DEF ListedAs
      <4>2. opened'[f] = opened[f]
        BY <1>0, <1>3, <3>3
      <4> QED  BY <4>1, <4>2 DEF OpenedExact
    <3> QED  BY <3>2, <3>3
  <2> QED  BY <2>1, <2>2 DEF OpenedExact
<1>4. CASE LoggerNext /\ UNCHANGED moduleVars
  BY <1>1, <1>4 DEF moduleVars
<1>5. ASSUME NEW n \in Names, LoadModule(n) PROVE OpenedExact'
  BY <1>2, <1>5 DEF LoadModule
<1>6. ASSUME NEW n \in Names, LoadFails(n) PROVE OpenedExact'
  BY <1>1, <1>6 DEF LoadFails
<1>7. ASSUME NEW n \in Names, UnloadModule(n) PROVE OpenedExact'
  BY <1>3, <1>7 DEF UnloadModule
<1> QED  BY <1>4, <1>5, <1>6, <1>7 DEF Step, ModulesNext

-----------------------------------------------------------------------------
(* logger_end() and the queue.                                             *)

DrainInv ==
    /\ ocall \in {"tick", "report"} => worker_logging_enabled
    /\ drain_source => worker_logging_enabled
    /\ ~worker_logging_enabled /\ ocall = "idle" =>
          \A i \in 1 .. Len(accepted) : i > Len(delivered) => ~accepted[i].live

LEMMA DrainShows ==
    ASSUME QueueOK, DrainInv
    PROVE  EndDrains
<1> SUFFICES ASSUME ~worker_logging_enabled, ocall = "idle", NEW i \in DOMAIN Queued PROVE ~Queued[i].live
  BY DEF EndDrains
<1>1. PICK a \in Seq(Records), m, n \in Nat : a = accepted /\ n = Len(delivered) /\ m = Len(a) /\ n <= m
  BY DEF QueueOK
<1>2. Queued = SubSeq(a, n + 1, m)
  BY <1>1 DEF Queued
<1>3. i \in 1 .. m - n /\ Queued[i] = a[n + i]
  BY <1>1, <1>2
<1>4. n + i \in 1 .. m /\ n + i > n
  BY <1>1, <1>3
<1> QED  BY <1>1, <1>3, <1>4 DEF DrainInv

LEMMA DrainKept ==
    ASSUME ModulesTypeOK, DrainInv, Step
    PROVE  DrainInv'
<1>0. QueueOK /\ SwitchesOK /\ OwnerOK /\ SubmitOK
  BY TypeParts
<1>1. CASE UNCHANGED <<accepted, delivered, worker_logging_enabled, drain_source, ocall>>
  BY <1>1 DEF DrainInv
<1>2. ASSUME NEW t \in Threads, LogPush(t) PROVE DrainInv'
  <2>1. UNCHANGED <<worker_logging_enabled, drain_source, ocall>>
    BY <1>2 DEF LogPush, switches
  <2>2. CASE UNCHANGED <<accepted, delivered>>
    BY <1>1, <2>1, <2>2
  <2>3. CASE Channel!Accept([submitting[t] EXCEPT !.live = worker_logging_enabled])
    <3>1. submitting[t] \in Records
      BY <1>0, <1>2 DEF LogPush, SubmitOK
    <3>2. PICK r \in Records : /\ r = [submitting[t] EXCEPT !.live = worker_logging_enabled]
                               /\ r.live = worker_logging_enabled
      <4>1. PICK x \in Records, b \in BOOLEAN : x = submitting[t] /\ b = worker_logging_enabled
        BY <1>0, <3>1 DEF SwitchesOK
      <4>2. [x EXCEPT !.live = b] \in Records /\ [x EXCEPT !.live = b].live = b
        BY DEF Records
      <4> QED  BY <4>1, <4>2
    <3>3. accepted' = Append(accepted, r) /\ delivered' = delivered
      BY <2>3, <3>2 DEF Channel!Accept
    <3>4. ASSUME NEW i \in 1 .. Len(accepted')
          PROVE  (i \in 1 .. Len(accepted) /\ accepted'[i] = accepted[i]) \/ accepted'[i] = r
      BY <1>0, <3>3 DEF QueueOK
    <3> QED  BY <2>1, <3>2, <3>3, <3>4 DEF DrainInv
  <2> QED  BY <1>2, <2>2, <2>3 DEF LogPush
<1>3. ASSUME NEW async \in BOOLEAN, LoggerInit(async) PROVE DrainInv'
  <2>1. UNCHANGED <<accepted, delivered, ocall>>
    BY <1>3 DEF LoggerInit
  <2>2. CASE UNCHANGED switches
    BY <1>1, <2>1, <2>2 DEF switches
  <2>3. CASE worker_logging_enabled'
    BY <2>3 DEF DrainInv
  <2> QED  BY <1>3, <2>2, <2>3 DEF LoggerInit
<1>4. ASSUME DrainTick PROVE DrainInv'
  BY <1>4 DEF DrainTick, DrainInv, switches, queue
<1>5. ASSUME DrainOne PROVE DrainInv'
  <2>1. UNCHANGED <<worker_logging_enabled, drain_source, ocall>> /\ ocall # "idle"
    BY <1>5 DEF DrainOne, switches
  <2> QED  BY <2>1 DEF DrainInv
<1>6. ASSUME TickDone PROVE DrainInv'
  <2>1. UNCHANGED <<worker_logging_enabled, drain_source>> /\ ocall \in {"tick", "report"}
    BY <1>6 DEF TickDone, Drained, switches
  <2> QED  BY <2>1 DEF DrainInv
<1>16. ASSUME SlowDrain PROVE DrainInv'
  BY <1>16 DEF SlowDrain, Drained, DrainInv, switches, queue
<1>7. ASSUME LoggerEnd PROVE DrainInv'
  BY <1>7 DEF LoggerEnd, DrainInv
<1>8. ASSUME EndRelease PROVE DrainInv'
  <2>1. /\ UNCHANGED <<worker_logging_enabled, drain_source, accepted, delivered>>
        /\ ocall' = "idle" /\ ocall = "end" /\ Channel!Outstanding = 0
    BY <1>8 DEF EndRelease, switches, queue
  <2>2. \A i \in 1 .. Len(accepted) : ~(i > Len(delivered))
    BY <1>0, <2>1 DEF QueueOK, Channel!Outstanding
  <2> QED  BY <2>1, <2>2 DEF DrainInv
<1>9. ASSUME NEW t \in Threads, NEW s \in Sources, LogSubmit(t, s) PROVE DrainInv'
  BY <1>1, <1>9 DEF LogSubmit, switches, queue
<1>10. ASSUME NEW s \in Sources, LogDirect(s) \/ LogNested(s) PROVE DrainInv'
  BY <1>1, <1>10 DEF LogDirect, LogNested, switches, queue
<1>11. ASSUME EnterCallback \/ SkipCallback \/ LeaveCallback \/ FinishLog PROVE DrainInv'
  BY <1>1, <1>11 DEF EnterCallback, SkipCallback, LeaveCallback, FinishLog, switches, queue
<1>12. ASSUME NEW id \in Subscribers, Unsubscribe(id) \/ \E p \in {RAW, FILTERED} : Subscribe(id, p) PROVE DrainInv'
  BY <1>1, <1>12 DEF Subscribe, Unsubscribe, switches, queue
<1>13. ASSUME DropFilters \/ Clock \/ \E f \in Extra : AddFilter(f) PROVE DrainInv'
  BY <1>1, <1>13 DEF DropFilters, Clock, AddFilter, switches, queue
<1>14. ASSUME LoggerNext PROVE DrainInv'
  BY <1>2, <1>3, <1>4, <1>5, <1>6, <1>7, <1>8, <1>9, <1>10, <1>11, <1>12, <1>13, <1>14, <1>16 DEF LoggerNext
<1>15. ASSUME ModulesNext PROVE DrainInv'
  BY <1>1, <1>15 DEF ModulesNext, LoadModule, LoadFails, UnloadModule, switches, queue
<1> QED  BY <1>14, <1>15 DEF Step

-----------------------------------------------------------------------------
(* Callbacks into the code of modules.                                     *)

\* While names resolve to different objects and hooks remove what they registered:
\* the only callback of a module is the one its token names, and it is mapped.
ArmedInv ==
    \A id \in Ids(log_callbacks) : \A f \in Files : Owns(f, id) => id = token[f] /\ opened[f] > 0

LEMMA NotOwned ==
    ASSUME NEW id \in Subscribers, NEW f \in Files
    PROVE  ~Owns(f, id)
<1> SUFFICES ASSUME Owns(f, id) PROVE FALSE
  OBVIOUS
<1>1. id \in Files \X (0 .. MaxLoads)
  BY DEF Owns
<1> QED  BY <1>1, ModulesAssumption

\* The logger's own steps register only subscribers of the program.
LEMMA LoggerRegisters ==
    ASSUME ListInv, ModulesTypeOK, LoggerNext, loads' = loads
    PROVE  \A id \in Ids(log_callbacks') : id \in Ids(log_callbacks) \/ id \in Subscribers
<1>0. ListOK /\ log_callbacks \in Seq(Callbacks) /\ Distinct(log_callbacks)
  BY DEF ListInv, ListOK
<1>1. CASE UNCHANGED log_callbacks
  BY <1>1
<1>2. CASE Releasing
  BY <1>2 DEF Releasing, Ids
<1>3. ASSUME NEW id \in CallbackIds, NEW policy \in {RAW, FILTERED}, Linking(id, policy)
      PROVE  \A x \in Ids(log_callbacks') : x \in Ids(log_callbacks) \/ x \in Subscribers
  <2>1. PICK cb \in Callbacks : cb = [id |-> id, policy |-> policy] /\ cb.id = id
    <3>1. [id |-> id, policy |-> policy] \in Callbacks
      BY DEF Callbacks, Callback
    <3> QED  BY <3>1
  <2>2. PICK cbs \in Seq(Callbacks), new \in {log_callbacks'} : cbs = log_callbacks /\ new = log_callbacks' /\ new = Append(cbs, cb)
    BY <1>0, <1>3, <2>1 DEF Linking, Subscribed
  <2>3. Ids(new) = Ids(cbs) \cup {cb.id}
    <3>1. new = Append(cbs, cb)
      BY <2>2
    <3> QED  BY <3>1, Appended
  <2>4. id \in Subscribers
    <3>1. loads \in Nat
      BY ModulesAssumption DEF ListInv
    <3>2. loads + 1 # loads
      BY <3>1
    <3> QED  BY <1>3, <3>2 DEF Linking
  <2> QED  BY <2>1, <2>2, <2>3, <2>4
<1>4. ASSUME NEW id \in CallbackIds, Unlinking(id)
      PROVE  \A x \in Ids(log_callbacks') : x \in Ids(log_callbacks) \/ x \in Subscribers
  <2>1. PICK cbs \in Seq(Callbacks), new \in {log_callbacks'}, p \in {Position(log_callbacks, id)} :
             /\ cbs = log_callbacks /\ new = log_callbacks' /\ p = Position(cbs, id)
             /\ new = RemoveAt(cbs, p) /\ id \in Ids(cbs) /\ Distinct(cbs)
    BY <1>0, <1>4 DEF Unlinking, Unsubscribed, Unlink
  <2>2. p \in DOMAIN cbs
    BY <2>1, PositionOf
  <2>3. Ids(new) = Ids(cbs) \ {cbs[p].id}
    BY <2>1, <2>2, RemovedDistinct
  <2> QED  BY <2>1, <2>3
<1> QED  BY <1>1, <1>2, <1>3, <1>4, LoggerMoves DEF Still, Pushing, Walking, Popping

LEMMA ArmedKept ==
    ASSUME Tidy, \A m, n \in Names : File(m) = File(n) => m = n,
           ModulesTypeOK, ListInv, OpenedExact, TokensOwned, ArmedInv, Step
    PROVE  ArmedInv'
<1>0. /\ opened \in [Files -> Nat] /\ token \in [Files -> CallbackIds \cup {None}] /\ modules \subseteq Names
      /\ loads \in 0 .. MaxLoads
      /\ ListOK /\ log_callbacks \in Seq(Callbacks) /\ Distinct(log_callbacks)
  BY TypeParts DEF LoaderOK, ListInv, ListOK
<1>1. CASE LoggerNext /\ UNCHANGED moduleVars
  <2>1. token' = token /\ opened' = opened /\ loads' = loads
    BY <1>1 DEF moduleVars
  <2>2. \A id \in Ids(log_callbacks') : id \in Ids(log_callbacks) \/ id \in Subscribers
    BY <1>1, <2>1, LoggerRegisters
  <2> QED  BY <2>1, <2>2, NotOwned DEF ArmedInv, Owns
<1>2. ASSUME NEW n \in Names, LoadModule(n) PROVE ArmedInv'
  <2>1. PICK f \in Files, id \in {<<File(n), loads>>} : f = File(n) /\ id = <<f, loads>>
    BY DEF Files
  <2>2. /\ n \notin modules /\ token' = [token EXCEPT ![f] = id] /\ opened' = [opened EXCEPT ![f] = @ + 1]
        /\ log_callbacks' = Append(log_callbacks, [id |-> id, policy |-> FILTERED])
    BY <1>2, <2>1 DEF LoadModule, CallbackOf, Subscribed
  <2>3. PICK cb \in Callbacks : cb = [id |-> id, policy |-> FILTERED] /\ cb.id = id
    <3>1. id \in CallbackIds
      <4>1. id \in Files \X (0 .. MaxLoads)
        BY <1>0, <2>1
      <4> QED  BY <4>1 DEF CallbackIds
    <3>2. [id |-> id, policy |-> FILTERED] \in Callbacks
      BY <3>1 DEF Callbacks, Callback
    <3> QED  BY <3>2
  <2>4. PICK cbs \in Seq(Callbacks), new \in {log_callbacks'} : cbs = log_callbacks /\ new = log_callbacks' /\ new = Append(cbs, cb)
    BY <1>0, <2>2, <2>3
  <2>5. Ids(new) = Ids(cbs) \cup {id}
    <3>1. new = Append(cbs, cb)
      BY <2>4
    <3>2. Ids(new) = Ids(cbs) \cup {cb.id}
      BY <3>1, Appended
    <3> QED  BY <2>3, <3>2
  <2>6. ~(opened[f] > 0)
    <3>1. ListedAs(modules, f) = {}
      BY <1>0, <2>1, <2>2 DEF ListedAs
    <3>2. opened[f] = Cardinality(ListedAs(modules, f))
      BY DEF OpenedExact
    <3>3. opened[f] = 0
      BY <3>1, <3>2, FS_EmptySet
    <3> QED  BY <3>3
  <2>7. ASSUME NEW x \in Ids(new), NEW g \in Files, Owns(g, x)
        PROVE  x = token'[g] /\ opened'[g] > 0
    <3>1. CASE x = id
      <4>1. g = f
        BY <2>1, <2>7, <3>1 DEF Owns
      <4> QED  BY <1>0, <2>2, <3>1, <4>1
    <3>2. CASE x \in Ids(cbs)
      <4>1. x = token[g] /\ opened[g] > 0
        BY <2>4, <2>7, <3>2 DEF ArmedInv
      <4>2. g # f
        BY <2>6, <4>1
      <4> QED  BY <1>0, <2>2, <4>1, <4>2
    <3> QED  BY <2>5, <3>1, <3>2
  <2> QED  BY <2>4, <2>7 DEF ArmedInv, Owns
<1>3. ASSUME NEW n \in Names, LoadFails(n) PROVE ArmedInv'
  <2>1. UNCHANGED <<log_callbacks, token, opened>>
    BY <1>3 DEF LoadFails, subs
  <2> QED  BY <2>1 DEF ArmedInv, Owns
<1>4. ASSUME NEW n \in Names, UnloadModule(n) PROVE ArmedInv'
  <2>1. PICK f \in Files, id \in {token[File(n)]} : f = File(n) /\ id = token[f]
    BY DEF Files
  <2>2. token' = [token EXCEPT ![f] = None] /\ opened' = [opened EXCEPT ![f] = @ - 1]
    BY <1>4, <2>1 DEF UnloadModule, Shutdown
  <2>3. \A x \in Ids(log_callbacks') : x \in Ids(log_callbacks) /\ x # id
    <3>1. CASE id \in Ids(log_callbacks)
      <4>1. log_callbacks' = RemoveAt(log_callbacks, Position(log_callbacks, id))
        BY <1>4, <2>1, <3>1 DEF UnloadModule, Shutdown, Unsubscribed, Unlink
      <4>2. PICK cbs \in Seq(Callbacks), new \in {log_callbacks'}, p \in {Position(log_callbacks, id)} :
                 /\ cbs = log_callbacks /\ new = log_callbacks' /\ p = Position(cbs, id)
                 /\ new = RemoveAt(cbs, p) /\ Distinct(cbs)
        BY <1>0, <4>1
      <4>3. p \in DOMAIN cbs /\ cbs[p].id = id
        BY <3>1, <4>2, PositionOf
      <4>4. Ids(new) = Ids(cbs) \ {cbs[p].id}
        BY <4>2, <4>3, RemovedDistinct
      <4> QED  BY <4>2, <4>3, <4>4
    <3>2. CASE id \notin Ids(log_callbacks)
      <4>1. log_callbacks' = log_callbacks
        BY <1>4, <2>1, <3>2 DEF UnloadModule, Shutdown, subs
      <4> QED  BY <3>2, <4>1
    <3> QED  BY <3>1, <3>2
  <2>4. ASSUME NEW x \in Ids(log_callbacks'), NEW g \in Files, Owns(g, x)
        PROVE  x = token'[g] /\ opened'[g] > 0
    <3>1. x = token[g] /\ opened[g] > 0
      BY <2>3, <2>4 DEF ArmedInv
    <3>2. g # f
      BY <2>1, <2>3, <3>1
    <3> QED  BY <1>0, <2>2, <3>1, <3>2
  <2> QED  BY <2>4 DEF ArmedInv, Owns
<1> QED  BY <1>1, <1>2, <1>3, <1>4 DEF Step, ModulesNext

-----------------------------------------------------------------------------
(* What the rates held back.                                               *)

HeldIn(slots)  == [k \in DOMAIN slots |-> slots[k].suppressed]
SkippedBy(frs) == [i \in DOMAIN frs |-> frs[i].skipped]

\* Every message that was held back is in one place: announced, forgotten, in its
\* slot, or with a delivery that will announce it.
RatesInv ==
    /\ suppressed \in Int /\ told \in Int /\ forgotten \in Int
    /\ suppressed = told + forgotten + Total(HeldIn(log_rate_slots), DOMAIN log_rate_slots)
                    + Total(SkippedBy(stack), DOMAIN stack)

LEMMA PendingIs == Pending(log_rate_slots) = Total(HeldIn(log_rate_slots), DOMAIN log_rate_slots)
<1>1. PICK f : f = HeldIn(log_rate_slots)
  OBVIOUS
<1>2. DOMAIN f = DOMAIN log_rate_slots
  BY <1>1 DEF HeldIn
<1>3. SumFunction(f) = Total(f, DOMAIN log_rate_slots)
  BY <1>2, SumIsTotal
<1> QED  BY <1>1, <1>3 DEF Pending, HeldIn

LEMMA RatesShow == RatesInv => SuppressionAccounted
<1>1. SumFunction([i \in DOMAIN stack |-> stack[i].skipped]) = Total(SkippedBy(stack), DOMAIN stack)
  <2>1. PICK f : f = SkippedBy(stack)
    OBVIOUS
  <2>2. DOMAIN f = DOMAIN stack
    BY <2>1 DEF SkippedBy
  <2>3. SumFunction(f) = Total(f, DOMAIN stack)
    BY <2>2, SumIsTotal
  <2> QED  BY <2>1, <2>3 DEF SkippedBy
<1> QED  BY <1>1, PendingIs DEF RatesInv, SuppressionAccounted

\* log_rate_allowed() moves what a window held back out of its slot, and adds the
\* message it holds back.
LEMMA VerdictAccounts ==
    ASSUME SlotsOK, NowOK, NEW subsys, NEW prio, NEW count, NEW seconds, NEW v,
           v = RateVerdict(subsys, prio, count, seconds)
    PROVE  Total(HeldIn(v.slots), DOMAIN v.slots) + v.skipped
             = Total(HeldIn(log_rate_slots), DOMAIN log_rate_slots) + IF v.ok THEN 0 ELSE 1
<1> DEFINE key == <<subsys, prio>>
           fresh == [emitted |-> 0, suppressed |-> 0, start |-> now]
           slot == IF key \in RateKeys THEN log_rate_slots[key] ELSE fresh
           elapsed == now - slot.start >= seconds
           open == IF elapsed THEN fresh ELSE slot
           bypass == \/ count = 0 \/ prio <= AUDIT
                     \/ key \notin RateKeys /\ Cardinality(RateKeys) = Slots
           keys == RateKeys \cup {key}
           next == IF open.emitted < count THEN [open EXCEPT !.emitted = @ + 1] ELSE [open EXCEPT !.suppressed = @ + 1]
           table == [k \in keys |-> IF k # key THEN log_rate_slots[k] ELSE next]
           old == HeldIn(log_rate_slots)
           new == HeldIn(table)
           total == Total(old, RateKeys)
           held == IF open.emitted < count THEN 0 ELSE 1
<1>1. fresh \in RateSlot /\ fresh.suppressed = 0
  <2>1. now \in Nat
    BY DEF NowOK
  <2> QED  BY <2>1 DEF RateSlot
<1>2. slot \in RateSlot /\ open \in RateSlot
  BY <1>1 DEF SlotsOK, SlotsTyped, RateKeys
<1>3. slot.suppressed \in Nat /\ open.suppressed \in Nat
  <2> HIDE DEF slot, open
  <2> QED  BY <1>2 DEF RateSlot
<1>4. next.suppressed = open.suppressed + held
  <2> HIDE DEF open
  <2>1. /\ [open EXCEPT !.emitted = @ + 1].suppressed = open.suppressed
        /\ [open EXCEPT !.suppressed = @ + 1].suppressed = open.suppressed + 1
    BY <1>2 DEF RateSlot
  <2> QED  BY <1>3, <2>1
<1>5. open.suppressed + HeldBack(slot, elapsed) = slot.suppressed /\ HeldBack(slot, elapsed) \in Nat
  <2>1. CASE elapsed
    <3>1. open.suppressed = 0 /\ HeldBack(slot, elapsed) = slot.suppressed
      BY <1>1, <2>1 DEF HeldBack
    <3> QED  BY <1>3, <3>1
  <2>2. CASE ~elapsed
    <3>1. open.suppressed = slot.suppressed /\ HeldBack(slot, elapsed) = 0
      BY <2>2 DEF HeldBack
    <3> QED  BY <1>3, <3>1
  <2> QED  BY <2>1, <2>2
<1>6. /\ IsFiniteSet(RateKeys) /\ \A k \in RateKeys : old[k] = log_rate_slots[k].suppressed
      /\ \A k \in RateKeys : old[k] \in Int
  <2>1. \A r \in RateSlot : r.suppressed \in Int
    BY DEF RateSlot
  <2> QED  BY <2>1 DEF SlotsOK, SlotsTyped, RateKeys, HeldIn
<1>7. total \in Int
  <2>1. PICK S, f : S = RateKeys /\ f = old
    OBVIOUS
  <2> QED  BY <1>6, <2>1, TotalType
<1>8. CASE bypass
  <2>1. v = [ok |-> TRUE, skipped |-> 0, slots |-> log_rate_slots]
    BY <1>8 DEF RateVerdict
  <2>2. v.slots = log_rate_slots /\ v.skipped = 0 /\ (IF v.ok THEN 0 ELSE 1) = 0
    BY <2>1
  <2> QED  BY <1>7, <2>2 DEF RateKeys
<1>9. CASE ~bypass
  <2>1. v.skipped = HeldBack(slot, elapsed) /\ v.slots = table /\ (IF v.ok THEN 0 ELSE 1) = held
    BY <1>9 DEF RateVerdict
  <2>2. /\ DOMAIN table = keys /\ new[key] = next.suppressed
        /\ \A k \in RateKeys \ {key} : new[k] = log_rate_slots[k].suppressed
    <3> HIDE DEF next
    <3> QED  BY DEF HeldIn
  <2>3. Total(new, keys) = total + next.suppressed - slot.suppressed
    <3>1. PICK S, f, e, y : S = RateKeys /\ f = old /\ e = new /\ y = key
      OBVIOUS
    <3>2. e[y] = next.suppressed
      BY <2>2, <3>1
    <3>7. e[y] \in Int
      BY <1>3, <1>4, <3>2
    <3>3. \A x \in S \ {y} : e[x] = f[x]
      BY <1>6, <2>2, <3>1
    <3>4. IsFiniteSet(S) /\ \A x \in S : f[x] \in Int
      BY <1>6, <3>1
    <3>5. CASE y \in S
      <4>1. Total(e, S) = Total(f, S) + e[y] - f[y]
        BY <3>3, <3>4, <3>5, <3>7, TotalChanges
      <4>2. f[y] = slot.suppressed /\ keys = S
        BY <1>6, <3>1, <3>5
      <4> QED  BY <3>1, <3>2, <3>7, <4>1, <4>2
    <3>6. CASE y \notin S
      <4>1. \A x \in S : e[x] = f[x]
        BY <3>3, <3>6
      <4>2. PICK R : R = S \cup {y}
        OBVIOUS
      <4>3. Total(e, R) = Total(f, S) + e[y]
        BY <3>4, <3>6, <3>7, <4>1, <4>2, TotalAdds
      <4>5. slot.suppressed = 0 /\ keys = R
        BY <1>1, <3>1, <3>6, <4>2
      <4>4. Total(f, S) \in Int
        BY <1>7, <3>1
      <4>6. total = Total(f, S) /\ Total(new, keys) = Total(e, R)
        BY <3>1, <4>5
      <4> HIDE DEF total, keys, new, next, slot
      <4> QED  BY <3>2, <3>7, <4>3, <4>4, <4>5, <4>6
    <3> QED  BY <3>5, <3>6
  <2>4. held \in {0, 1}
    OBVIOUS
  <2>5. Total(HeldIn(v.slots), DOMAIN v.slots) = Total(new, keys)
    BY <2>1, <2>2
  <2>6. Total(new, keys) + HeldBack(slot, elapsed) = total + held
    <3> HIDE DEF total, held, slot, elapsed, open, new, keys
    <3> QED  BY <1>3, <1>4, <1>5, <1>7, <2>3, <2>4
  <2> QED  BY <2>1, <2>5, <2>6 DEF RateKeys
<1> QED  BY <1>8, <1>9

\* The two sums are numbers.
LEMMA HeldTyped ==
    ASSUME NEW slots, SlotsTyped(slots)
    PROVE  Total(HeldIn(slots), DOMAIN slots) \in Int
<1>1. PICK K, h : K = DOMAIN slots /\ h = HeldIn(slots)
  OBVIOUS
<1>2. IsFiniteSet(K)
  BY <1>1 DEF SlotsTyped
<1>3. \A k \in K : h[k] \in Int
  <2>1. \A r \in RateSlot : r.suppressed \in Int
    BY DEF RateSlot
  <2> QED  BY <1>1, <2>1 DEF SlotsTyped, HeldIn
<1>4. Total(h, K) \in Int
  BY <1>2, <1>3, TotalType
<1> QED  BY <1>1, <1>4

LEMMA SumsTyped ==
    ASSUME SlotsOK, StackOK
    PROVE  /\ IsFiniteSet(DOMAIN stack) /\ \A i \in DOMAIN stack : SkippedBy(stack)[i] \in Int
           /\ Total(SkippedBy(stack), DOMAIN stack) \in Int
           /\ Total(HeldIn(log_rate_slots), DOMAIN log_rate_slots) \in Int
<1>1. PICK S, f : S = DOMAIN stack /\ f = SkippedBy(stack)
  OBVIOUS
<1>2. IsFiniteSet(S)
  <2>1. Len(stack) \in Nat /\ S = 1 .. Len(stack)
    BY <1>1 DEF StackOK
  <2> QED  BY <2>1, FS_Interval
<1>3. \A i \in S : f[i] \in Int
  <2>1. \A fr \in Frames : fr.skipped \in Int
    BY DEF Frames, Frame
  <2> QED  BY <1>1, <2>1 DEF StackOK, SkippedBy
<1>4. Total(f, S) \in Int
  BY <1>2, <1>3, TotalType
<1>5. Total(HeldIn(log_rate_slots), DOMAIN log_rate_slots) \in Int
  BY HeldTyped DEF SlotsOK
<1> QED  BY <1>1, <1>2, <1>3, <1>4, <1>5

\* A step that leaves what deliveries will announce alone.
SkippedKept == DOMAIN stack' = DOMAIN stack /\ \A i \in DOMAIN stack : stack'[i].skipped = stack[i].skipped

LEMMA SkippedSum ==
    ASSUME SlotsOK, StackOK, SkippedKept
    PROVE  Total(SkippedBy(stack)', DOMAIN stack') = Total(SkippedBy(stack), DOMAIN stack)
<1>1. PICK S, f, e : S = DOMAIN stack /\ f = SkippedBy(stack) /\ e = SkippedBy(stack)'
  OBVIOUS
<1>2. IsFiniteSet(S) /\ \A i \in S : f[i] \in Int
  BY <1>1, SumsTyped
<1>3. \A i \in S : e[i] = f[i]
  BY <1>1 DEF SkippedKept, SkippedBy
<1>4. \A i \in S : f[i] \in Int /\ e[i] = f[i]
  BY <1>2, <1>3
<1>5. Total(f, S) = Total(e, S)
  BY <1>2, <1>4, TotalSame
<1> QED  BY <1>1, <1>5 DEF SkippedKept

\* A new delivery has its own part, and takes it along when it ends.
LEMMA SkippedPushed ==
    ASSUME SlotsOK, StackOK, NEW fr \in Frames, stack' = Append(stack, fr)
    PROVE  Total(SkippedBy(stack)', DOMAIN stack') = Total(SkippedBy(stack), DOMAIN stack) + fr.skipped
<1>1. PICK S, f, e, y, R : /\ S = DOMAIN stack /\ f = SkippedBy(stack) /\ e = SkippedBy(stack)'
                           /\ y = Len(stack) + 1 /\ R = DOMAIN stack'
  OBVIOUS
<1>2. IsFiniteSet(S) /\ \A i \in S : f[i] \in Int
  BY <1>1, SumsTyped
<1>3. y \notin S /\ R = S \cup {y}
  BY <1>1 DEF StackOK
<1>4. \A i \in S : e[i] = f[i]
  BY <1>1 DEF StackOK, SkippedBy
<1>5. e[y] = fr.skipped
  BY <1>1 DEF StackOK, SkippedBy
<1>6. fr.skipped \in Int
  BY DEF Frames, Frame
<1>7. Total(e, R) = Total(f, S) + e[y]
  BY <1>2, <1>3, <1>4, <1>5, <1>6, TotalAdds
<1> QED  BY <1>1, <1>5, <1>7

LEMMA SkippedPopped ==
    ASSUME SlotsOK, StackOK, stack # <<>>, stack' = Front(stack)
    PROVE  /\ Top.skipped \in Int /\ Total(SkippedBy(stack)', DOMAIN stack') \in Int
           /\ Total(SkippedBy(stack), DOMAIN stack) = Total(SkippedBy(stack)', DOMAIN stack') + Top.skipped
<1>1. PICK S, f, e, y, R : /\ R = DOMAIN stack /\ f = SkippedBy(stack) /\ e = SkippedBy(stack)'
                           /\ y = Len(stack) /\ S = DOMAIN stack'
  OBVIOUS
<1>2. stack' = SubSeq(stack, 1, Len(stack) - 1) /\ Len(stack) \in Nat /\ Len(stack) > 0
  BY DEF Front, StackOK
<1>3. IsFiniteSet(R) /\ \A i \in R : f[i] \in Int
  BY <1>1, SumsTyped
<1>4. y \notin S /\ R = S \cup {y} /\ y \in R /\ S = 1 .. Len(stack) - 1 /\ S \subseteq R
  BY <1>1, <1>2 DEF StackOK
<1>5. \A i \in S : e[i] = f[i]
  BY <1>1, <1>2, <1>4 DEF StackOK, SkippedBy
<1>6. f[y] = Top.skipped /\ f[y] \in Int
  BY <1>1, <1>3, <1>4 DEF StackOK, SkippedBy, Top
<1>7. IsFiniteSet(S) /\ \A i \in S : e[i] \in Int
  BY <1>3, <1>4, <1>5, FS_Subset
<1>8. \A i \in S : f[i] = e[i]
  BY <1>5
<1>9. Total(f, R) = Total(e, S) + f[y]
  <2>1. y \notin S /\ R = S \cup {y}
    BY <1>4
  <2>2. f[y] \in Int
    BY <1>6
  <2> QED  BY <1>7, <1>8, <2>1, <2>2, TotalAdds
<1>10. Total(e, S) \in Int
  BY <1>7, TotalType
<1> QED  BY <1>1, <1>6, <1>9, <1>10

\* What Log() does to the accounts when it begins a delivery.
LEMMA DeliverAccounts ==
    ASSUME ModulesTypeOK, RatesInv, NEW record \in Records, Deliver(record)
    PROVE  RatesInv'
<1> DEFINE matching == MatchingFilters(record.subsys)
           filter   == log_filters[CHOOSE i \in matching : TRUE]
           visible  == ~Filtered(record.subsys, record.prio)
           verdict  == IF visible /\ matching # {}
                       THEN RateVerdict(record.subsys, record.prio, filter.count, filter.seconds)
                       ELSE [ok |-> TRUE, skipped |-> 0, slots |-> log_rate_slots]
           frame == [record  |-> record, allowed |-> visible /\ verdict.ok, skipped |-> verdict.skipped,
                     cursor  |-> IF record.prio = CRAZY THEN None ELSE First(log_callbacks),
                     inside  |-> FALSE, linked  |-> Ids(log_callbacks), called  |-> <<>>]
<1>1. ListOK /\ SlotsOK /\ NowOK /\ StackOK
  BY TypeParts
<1>2. PICK fr \in Frames : stack' = Append(stack, fr)
  BY <1>1, DeliverEffect
<1>3. SlotsOK'
  BY <1>1, DeliverEffect
<1>4. /\ stack' = Append(stack, frame) /\ log_rate_slots' = verdict.slots
      /\ suppressed' = suppressed + IF verdict.ok THEN 0 ELSE 1
      /\ told' = told /\ forgotten' = forgotten
  BY DEF Deliver
<1>5. fr.skipped = verdict.skipped
  <2>1. fr = frame
    <3> HIDE DEF frame
    <3>1. Append(stack, fr)[Len(stack) + 1] = fr /\ Append(stack, frame)[Len(stack) + 1] = frame
      BY <1>1 DEF StackOK
    <3> QED  BY <1>2, <1>4, <3>1
  <2>2. frame.skipped = verdict.skipped
    BY DEF frame
  <2> QED  BY <2>1, <2>2
<1> DEFINE held == Total(HeldIn(log_rate_slots), DOMAIN log_rate_slots)
           slots == verdict.slots
           more == IF verdict.ok THEN 0 ELSE 1
<1>6. held \in Int /\ Total(SkippedBy(stack), DOMAIN stack) \in Int
  BY <1>1, SumsTyped
<1>7. Total(HeldIn(slots), DOMAIN slots) + verdict.skipped = held + more
  <2>1. CASE visible /\ matching # {}
    <3>1. verdict = RateVerdict(record.subsys, record.prio, filter.count, filter.seconds)
      BY <2>1
    <3> HIDE DEF verdict
    <3> QED  BY <1>1, <3>1, VerdictAccounts
  <2>2. CASE ~(visible /\ matching # {})
    <3>1. verdict.slots = log_rate_slots /\ verdict.skipped = 0 /\ more = 0
      BY <2>2
    <3> HIDE DEF verdict, more
    <3> QED  BY <1>6, <3>1
  <2> QED  BY <2>1, <2>2
<1>8. Total(HeldIn(log_rate_slots)', DOMAIN log_rate_slots') = Total(HeldIn(slots), DOMAIN slots)
  <2> HIDE DEF slots
  <2> QED  BY <1>4 DEF HeldIn, slots
<1>9. Total(SkippedBy(stack)', DOMAIN stack') = Total(SkippedBy(stack), DOMAIN stack) + fr.skipped
  BY <1>1, <1>2, SkippedPushed
<1>10. more \in {0, 1} /\ fr.skipped \in Int
  BY DEF Frames, Frame
<1>11. Total(HeldIn(slots), DOMAIN slots) \in Int
  <2>1. SlotsTyped(slots)
    BY <1>3, <1>4 DEF SlotsOK
  <2> HIDE DEF slots
  <2> QED  BY <2>1, HeldTyped
<1> QED
  <2> HIDE DEF verdict, slots, more, held
  <2> QED  BY <1>4, <1>5, <1>6, <1>7, <1>8, <1>9, <1>10, <1>11 DEF RatesInv, held, more

\* A step that touches neither the rates nor what deliveries will announce.
LEMMA RatesStill ==
    ASSUME ModulesTypeOK, RatesInv, UNCHANGED rates, SkippedKept
    PROVE  RatesInv'
<1>1. SlotsOK /\ StackOK
  BY TypeParts
<1>2. Total(SkippedBy(stack)', DOMAIN stack') = Total(SkippedBy(stack), DOMAIN stack)
  BY <1>1, SkippedSum
<1>3. UNCHANGED <<log_rate_slots, suppressed, told, forgotten>>
  BY DEF rates
<1>4. Total(HeldIn(log_rate_slots)', DOMAIN log_rate_slots') = Total(HeldIn(log_rate_slots), DOMAIN log_rate_slots)
  BY <1>3 DEF HeldIn
<1> QED  BY <1>2, <1>3, <1>4 DEF RatesInv

\* The filters go, and the slots with them.
LEMMA RatesCleared ==
    ASSUME ModulesTypeOK, RatesInv, ClearFilters, stack' = stack
    PROVE  RatesInv'
<1>1. SlotsOK /\ StackOK
  BY TypeParts
<1>2. Total(HeldIn(log_rate_slots)', DOMAIN log_rate_slots') = 0
  <2>1. PICK f : f = HeldIn(log_rate_slots)'
    OBVIOUS
  <2>2. DOMAIN log_rate_slots' = {}
    BY DEF ClearFilters
  <2> QED  BY <2>1, <2>2, TotalNone
<1>3. Pending(log_rate_slots) = Total(HeldIn(log_rate_slots), DOMAIN log_rate_slots)
  BY PendingIs
<1>4. /\ suppressed' = suppressed /\ told' = told
      /\ forgotten' = forgotten + Total(HeldIn(log_rate_slots), DOMAIN log_rate_slots)
  BY <1>3 DEF ClearFilters
<1>5. Total(SkippedBy(stack)', DOMAIN stack') = Total(SkippedBy(stack), DOMAIN stack)
  BY DEF SkippedBy
<1>6. /\ Total(HeldIn(log_rate_slots), DOMAIN log_rate_slots) \in Int
      /\ Total(SkippedBy(stack), DOMAIN stack) \in Int
  BY <1>1, SumsTyped
<1> QED  BY <1>2, <1>4, <1>5, <1>6 DEF RatesInv

\* A walk over the callbacks, and a removal, keep what a delivery will announce.
LEMMA WalkKeepsSkipped ==
    ASSUME StackOK, EnterCallback \/ SkipCallback \/ LeaveCallback
    PROVE  SkippedKept /\ UNCHANGED rates
<1>1. PICK n \in Nat : n = Len(stack)
  BY DEF StackOK
<1>2. n \in DOMAIN stack /\ DOMAIN stack = 1 .. n /\ stack[n] \in Frames /\ Top = stack[n]
  BY <1>1 DEF StackOK, Top, EnterCallback, SkipCallback, LeaveCallback
<1>3. PICK fr : stack' = [stack EXCEPT ![n] = fr] /\ fr.skipped = Top.skipped
  <2>1. CASE EnterCallback
    <3>1. PICK fr : fr = [Top EXCEPT !.inside = TRUE, !.called = Append(@, Top.cursor)]
      OBVIOUS
    <3>2. fr.skipped = Top.skipped
      BY <1>2, <3>1 DEF Frames, Frame
    <3> QED  BY <1>1, <2>1, <3>1, <3>2 DEF EnterCallback, SetTop
  <2>2. CASE SkipCallback
    <3>1. PICK fr : fr = [Top EXCEPT !.cursor = After(log_callbacks, Top.cursor)]
      OBVIOUS
    <3>2. fr.skipped = Top.skipped
      BY <1>2, <3>1 DEF Frames, Frame
    <3> QED  BY <1>1, <2>2, <3>1, <3>2 DEF SkipCallback, SetTop
  <2>3. CASE LeaveCallback
    <3>1. PICK fr : fr = [Top EXCEPT !.inside = FALSE, !.cursor = After(log_callbacks, Top.cursor)]
      OBVIOUS
    <3>2. fr.skipped = Top.skipped
      BY <1>2, <3>1 DEF Frames, Frame
    <3> QED  BY <1>1, <2>3, <3>1, <3>2 DEF LeaveCallback, SetTop
  <2> QED  BY <2>1, <2>2, <2>3
<1>4. SkippedKept
  BY <1>2, <1>3 DEF SkippedKept
<1>5. UNCHANGED rates
  BY DEF EnterCallback, SkipCallback, LeaveCallback
<1> QED  BY <1>4, <1>5

LEMMA UnlinkKeepsSkipped ==
    ASSUME StackOK, NEW id, Unsubscribed(id)
    PROVE  SkippedKept
<1>1. stack' = [i \in DOMAIN stack |-> [stack[i] EXCEPT !.linked = @ \ {id}]]
  BY DEF Unsubscribed
<1>2. DOMAIN stack' = DOMAIN stack
  BY <1>1
<1>3. ASSUME NEW i \in DOMAIN stack PROVE stack'[i].skipped = stack[i].skipped
  <2>1. stack[i] \in Frames /\ stack'[i] = [stack[i] EXCEPT !.linked = @ \ {id}]
    BY <1>1 DEF StackOK
  <2> QED  BY <2>1 DEF Frames, Frame
<1> QED  BY <1>2, <1>3 DEF SkippedKept

LEMMA RatesKept ==
    ASSUME ModulesTypeOK, RatesInv, Step
    PROVE  RatesInv'
<1>0. SlotsOK /\ StackOK /\ QueueOK
  BY TypeParts
<1>1. CASE UNCHANGED rates /\ stack' = stack
  <2>1. SkippedKept
    BY <1>1 DEF SkippedKept
  <2> QED  BY <1>1, <2>1, RatesStill
<1>2. ASSUME NEW t \in Threads, LogPush(t) PROVE RatesInv'
  BY <1>1, <1>2 DEF LogPush
<1>3. ASSUME NEW t \in Threads, NEW s \in Sources, LogSubmit(t, s) PROVE RatesInv'
  BY <1>1, <1>3 DEF LogSubmit
<1>4. ASSUME NEW s \in Sources, LogDirect(s) \/ LogNested(s) PROVE RatesInv'
  <2>1. Deliver(Record(s)) /\ issued < MaxLog
    BY <1>4 DEF LogDirect, LogNested, MayLog
  <2>2. PICK r \in Records : r = Record(s)
    BY <2>1, RecordTyped, SourceTyped
  <2> QED  BY <2>1, <2>2, DeliverAccounts
<1>5. CASE EnterCallback \/ SkipCallback \/ LeaveCallback
  BY <1>0, <1>5, WalkKeepsSkipped, RatesStill
<1>6. CASE FinishLog
  <2>1. /\ stack # <<>> /\ stack' = Front(stack) /\ told' = told + Top.skipped
        /\ UNCHANGED <<log_rate_slots, suppressed, forgotten>>
    BY <1>6 DEF FinishLog
  <2>2. /\ Top.skipped \in Int /\ Total(SkippedBy(stack)', DOMAIN stack') \in Int
        /\ Total(SkippedBy(stack), DOMAIN stack) = Total(SkippedBy(stack)', DOMAIN stack') + Top.skipped
    BY <1>0, <2>1, SkippedPopped
  <2>3. /\ Total(HeldIn(log_rate_slots), DOMAIN log_rate_slots) \in Int
        /\ Total(SkippedBy(stack), DOMAIN stack) \in Int
    BY <1>0, SumsTyped
  <2>4. Total(HeldIn(log_rate_slots)', DOMAIN log_rate_slots') = Total(HeldIn(log_rate_slots), DOMAIN log_rate_slots)
    BY <2>1 DEF HeldIn
  <2> QED  BY <2>1, <2>2, <2>3, <2>4 DEF RatesInv
<1>7. ASSUME NEW async \in BOOLEAN, LoggerInit(async) PROVE RatesInv'
  BY <1>1, <1>7 DEF LoggerInit
<1>8. CASE DrainTick \/ SlowDrain \/ TickDone \/ LoggerEnd
  BY <1>1, <1>8 DEF DrainTick, SlowDrain, TickDone, LoggerEnd
<1>9. CASE DrainOne
  <2>1. Channel!Outstanding > 0 /\ Deliver(Head(Queued))
    BY <1>9 DEF DrainOne, Channel!Deliver
  <2>2. PICK r \in Records : r = Head(Queued)
    BY <1>0, <2>1, HeadTyped
  <2> QED  BY <2>1, <2>2, DeliverAccounts
<1>10. CASE EndRelease \/ DropFilters
  BY <1>10, RatesCleared DEF EndRelease, DropFilters
<1>11. ASSUME NEW id \in Subscribers, Unsubscribe(id) PROVE RatesInv'
  BY <1>0, <1>11, UnlinkKeepsSkipped, RatesStill DEF Unsubscribe
<1>12. ASSUME NEW id \in Subscribers, NEW p \in {RAW, FILTERED}, Subscribe(id, p) PROVE RatesInv'
  BY <1>1, <1>12 DEF Subscribe
<1>13. CASE Clock \/ \E f \in Extra : AddFilter(f)
  BY <1>1, <1>13 DEF Clock, AddFilter
<1>14. ASSUME NEW n \in Names, LoadModule(n) \/ LoadFails(n) PROVE RatesInv'
  BY <1>1, <1>14 DEF LoadModule, LoadFails
<1>15. ASSUME NEW n \in Names, UnloadModule(n) PROVE RatesInv'
  <2>1. UNCHANGED rates
    BY <1>15 DEF UnloadModule
  <2>2. CASE Unsubscribed(token[File(n)])
    BY <1>0, <2>1, <2>2, UnlinkKeepsSkipped, RatesStill
  <2>3. CASE UNCHANGED <<subs, stack>>
    BY <1>1, <2>1, <2>3
  <2> QED  BY <1>15, <2>2, <2>3 DEF UnloadModule, Shutdown
<1>16. CASE LoggerNext
  <2>1. CASE \E t \in Threads : LogPush(t) \/ \E s \in Sources : LogSubmit(t, s)
    BY <1>2, <1>3, <2>1
  <2>2. CASE \E s \in Sources : LogDirect(s) \/ LogNested(s)
    BY <1>4, <2>2
  <2>3. CASE \E async \in BOOLEAN : LoggerInit(async)
    BY <1>7, <2>3
  <2>4. CASE \E id \in Subscribers : Unsubscribe(id) \/ \E p \in {RAW, FILTERED} : Subscribe(id, p)
    BY <1>11, <1>12, <2>4
  <2> QED  BY <1>5, <1>6, <1>8, <1>9, <1>10, <1>13, <1>16, <2>1, <2>2, <2>3, <2>4 DEF LoggerNext
<1> QED  BY <1>14, <1>15, <1>16 DEF Step, ModulesNext

-----------------------------------------------------------------------------
(* The invariants of the logger and the loader.                            *)

LogInv == ModulesTypeOK /\ ListInv /\ WalkInv /\ TokensOwned /\ OpenedExact /\ DrainInv

LEMMA LogStarts ==
    ASSUME LoggerStart, ModulesStart
    PROVE  LogInv /\ ArmedInv
<1> USE DEF LoggerStart, ModulesStart
<1>0. DOMAIN <<>> = {} /\ IsFiniteSet({}) /\ Cardinality({}) = 0 /\ Ids(<<>>) = {}
  BY FS_EmptySet DEF Ids
<1>1. SwitchesOK /\ IssuedOK /\ NowOK
  <2>1. MaxSession \in Nat /\ MaxLog \in Nat /\ MaxNow \in Nat
    BY LoggerAssumption
  <2>2. logger_owner_valid = FALSE /\ worker_logging_enabled = FALSE /\ drain_source = FALSE
    OBVIOUS
  <2>3. session \in 0 .. MaxSession /\ issued \in 0 .. MaxLog /\ now \in 0 .. MaxNow
    BY <2>1
  <2>4. logger_owner_valid \in BOOLEAN /\ worker_logging_enabled \in BOOLEAN /\ drain_source \in BOOLEAN
    BY <2>2, Zenon
  <2> QED  BY <2>3, <2>4 DEF SwitchesOK, IssuedOK, NowOK
<1>2. QueueOK /\ DropsOK
  BY LoggerAssumption DEF QueueOK, DropsOK
<1>3. ListOK /\ StackOK
  BY DEF ListOK, StackOK
<1>4. SlotsOK
  <2>1. 0 <= Slots
    BY LoggerAssumption
  <2> QED  BY <1>0, <2>1 DEF SlotsOK, SlotsTyped
<1>5. SubmitOK
  BY DEF SubmitOK
<1>6. OwnerOK
  BY LoggerAssumption DEF OwnerOK
<1>7. LoaderOK
  BY ModulesAssumption DEF LoaderOK
<1>8. ModulesTypeOK
  BY <1>1, <1>2, <1>3, <1>4, <1>5, <1>6, <1>7, TypeParts
<1>9. ListInv
  <2>1. loads \in 0 .. MaxLoads
    BY ModulesAssumption
  <2>2. Distinct(log_callbacks) /\ IdsKnown /\ Standing
    BY <1>0 DEF Distinct, IdsKnown, Standing
  <2>3. RawCountExact
    <3>1. {i \in DOMAIN log_callbacks : log_callbacks[i].policy = RAW} = {}
      OBVIOUS
    <3> QED  BY <1>0, <3>1 DEF RawCountExact
  <2> QED  BY <1>3, <2>1, <2>2, <2>3 DEF ListInv
<1>10. WalkInv
  BY DEF WalkInv
<1>11. TokensOwned
  BY DEF TokensOwned
<1>12. OpenedExact
  <2>1. \A f \in Files : ListedAs(modules, f) = {}
    BY DEF ListedAs
  <2> QED  BY <1>0, <2>1 DEF OpenedExact
<1>13. DrainInv
  BY DEF DrainInv
<1>14. ArmedInv
  BY <1>0 DEF ArmedInv
<1> QED  BY <1>8, <1>9, <1>10, <1>11, <1>12, <1>13, <1>14 DEF LogInv

LEMMA LogKept ==
    ASSUME LogInv, [Step]_<<loggerVars, moduleVars>>
    PROVE  LogInv'
<1>0. ModulesTypeOK /\ ListInv /\ WalkInv /\ TokensOwned /\ OpenedExact /\ DrainInv /\ LoaderOK
  BY TypeParts DEF LogInv
<1>1. CASE Step
  <2>1. ListStep /\ loads' \in 0 .. MaxLoads
    BY <1>0, <1>1, StepsOfTheList
  <2>2. ListInv' /\ WalkInv'
    BY <1>0, <2>1, ListKept, WalkKept
  <2>3. ListOK' /\ StackOK'
    BY <2>2 DEF ListInv
  <2>4. ModulesTypeOK'
    <3>1. CASE LoggerNext /\ UNCHANGED moduleVars
      BY <1>0, <2>3, <3>1, LoggerTyped
    <3>2. CASE ModulesNext
      <4>1. \A f \in Files : opened[f] > 0 \/ \A n \in modules : File(n) # f
        BY <1>0, OpenHasNames
      <4> QED  BY <1>0, <2>1, <2>3, <3>2, <4>1, LoaderTyped
    <3> QED  BY <1>1, <3>1, <3>2 DEF Step
  <2>5. TokensOwned' /\ OpenedExact' /\ DrainInv'
    BY <1>0, <1>1, TokensKept, OpenedKept, DrainKept
  <2> QED  BY <2>2, <2>4, <2>5 DEF LogInv
<1>2. CASE UNCHANGED <<loggerVars, moduleVars>>
  <2>1. /\ UNCHANGED <<log_callbacks, log_raw_subscribers, stack, loads, token, modules, opened>>
        /\ UNCHANGED <<accepted, delivered, worker_logging_enabled, drain_source, ocall>>
    BY <1>2 DEF loggerVars, moduleVars, switches, queue, subs
  <2>2. ListStep /\ loads' \in 0 .. MaxLoads
    BY <1>0, <2>1 DEF ListStep, Still, ListInv
  <2>3. ListInv' /\ WalkInv'
    BY <1>0, <2>2, ListKept, WalkKept
  <2>4. TokensOwned' /\ OpenedExact' /\ DrainInv'
    <3>1. TokensOwned'
      BY <1>0, <2>1 DEF TokensOwned, Owns
    <3>2. OpenedExact'
      BY <1>0, <2>1 DEF OpenedExact
    <3>3. DrainInv'
      BY <1>0, <2>1 DEF DrainInv
    <3> QED  BY <3>1, <3>2, <3>3
  <2>5. ModulesTypeOK'
    <3>1. /\ UNCHANGED <<switches, issued, now, log_callbacks, log_rate_slots, submitting, moduleVars>>
          /\ UNCHANGED <<accepted, delivered>> /\ UNCHANGED <<dropped, logger_drops_reported>>
          /\ UNCHANGED <<ocall, budget>> /\ UNCHANGED <<log_callbacks, stack>>
      BY <1>2 DEF loggerVars, queue, subs, rates
    <3>2. /\ SwitchesOK' /\ IssuedOK' /\ NowOK' /\ QueueOK' /\ DropsOK' /\ ListOK'
          /\ SlotsOK' /\ SubmitOK' /\ OwnerOK' /\ StackOK' /\ LoaderOK'
      BY <1>0, <3>1, TypesStay
    <3> QED  BY <3>2, TypePartsNext
  <2> QED  BY <2>3, <2>4, <2>5 DEF LogInv
<1> QED  BY <1>1, <1>2

\* The inductive invariant of the logger and the loader: the callback list has no id
\* twice, every walk of log_deliver() stands on a listed callback and has called each
\* one behind it once, tokens are those of the modules' own subscriptions, dlopen()'s
\* count is that of the loaded names, and what logger_end() has to drain is live.
THEOREM LogInvHolds == ModulesSpec => []LogInv
<1>1. LoggerStart /\ ModulesStart => LogInv
  BY LogStarts
<1>2. LogInv /\ [(LoggerNext /\ UNCHANGED moduleVars) \/ ModulesNext]_<<loggerVars, moduleVars>> => LogInv'
  BY LogKept DEF Step
<1> QED  BY <1>1, <1>2, PTL DEF ModulesSpec

\* The logger and the loader stay typed: the queue within its capacity, the rate
\* slots within their table (logger.c, log_rate_allowed), no object closed more often
\* than opened (module.c).
THEOREM LoggerAndModulesTypes == ModulesSpec => []ModulesTypeOK
<1>1. LogInv => ModulesTypeOK
  BY DEF LogInv
<1> QED  BY <1>1, LogInvHolds, PTL

\* log_raw_subscribers is the number of raw callbacks in the list, through every
\* registration, removal and logger_end() (logger.c).
THEOREM RawCountAlwaysExact == ModulesSpec => []RawCountExact
<1>1. LogInv => RawCountExact
  BY DEF LogInv, ListInv
<1> QED  BY <1>1, LogInvHolds, PTL

\* A finished walk of Log() over the callbacks has called each subscriber it found
\* at its start, and that stayed, once if it is raw or the message admitted, whatever
\* callbacks added, removed or logged meanwhile (logger.c, Log).
THEOREM SubscribersCalledOnce == ModulesSpec => []EachSubscriberOnce
<1>1. LogInv => EachSubscriberOnce
  BY WalkOver DEF LogInv
<1> QED  BY <1>1, LogInvHolds, PTL

\* When logger_end() has returned, everything queued before it cut the producers off
\* has been delivered (logger.c, logger_end).
THEOREM EndAlwaysDrains == ModulesSpec => []EndDrains
<1>1. LogInv => EndDrains
  BY DrainShows, TypeParts DEF LogInv
<1> QED  BY <1>1, LogInvHolds, PTL

\* Every message a rate limit held back is announced with the next admitted message of
\* its kind, still counted in its slot, with a delivery that will announce it, or was
\* forgotten with the filters (logger.c, log_rate_allowed), whatever the rates are and
\* however windows, full tables, nested deliveries and logger_end() meet.
THEOREM SuppressionAlwaysAccounted == ModulesSpec => []SuppressionAccounted
<1>1. LoggerStart => RatesInv
  <2> SUFFICES ASSUME LoggerStart PROVE RatesInv
    OBVIOUS
  <2>1. DOMAIN log_rate_slots = {} /\ DOMAIN stack = {} /\ suppressed = 0 /\ told = 0 /\ forgotten = 0
    BY DEF LoggerStart
  <2>2. PICK f, e : f = HeldIn(log_rate_slots) /\ e = SkippedBy(stack)
    OBVIOUS
  <2>3. Total(f, {}) = 0 /\ Total(e, {}) = 0
    BY TotalNone
  <2> QED  BY <2>1, <2>2, <2>3 DEF RatesInv
<1>2. LogInv /\ RatesInv /\ [(LoggerNext /\ UNCHANGED moduleVars) \/ ModulesNext]_<<loggerVars, moduleVars>>
      => RatesInv'
  <2> SUFFICES ASSUME LogInv, RatesInv, [Step]_<<loggerVars, moduleVars>> PROVE RatesInv'
    BY DEF Step
  <2>1. ModulesTypeOK
    BY DEF LogInv
  <2>2. CASE Step
    BY <2>1, <2>2, RatesKept
  <2>3. CASE UNCHANGED <<loggerVars, moduleVars>>
    <3>1. UNCHANGED rates /\ stack' = stack
      BY <2>3 DEF loggerVars
    <3>2. SkippedKept
      BY <3>1 DEF SkippedKept
    <3> QED  BY <2>1, <3>1, <3>2, RatesStill
  <2> QED  BY <2>2, <2>3
<1>3. RatesInv => SuppressionAccounted
  BY RatesShow
<1> QED  BY <1>1, <1>2, <1>3, LogInvHolds, PTL DEF ModulesSpec

\* No log callback points into an unmapped module (module.c, rr_unload_module), when
\* hooks remove what they registered and no object is loaded under two names.
THEOREM ArmedStaysMapped ==
    ASSUME Tidy, \A m, n \in Names : File(m) = File(n) => m = n
    PROVE  ModulesSpec => []ArmedCodeIsMapped
<1>1. LoggerStart /\ ModulesStart => LogInv /\ ArmedInv
  BY LogStarts
<1>2. LogInv /\ ArmedInv /\ [(LoggerNext /\ UNCHANGED moduleVars) \/ ModulesNext]_<<loggerVars, moduleVars>>
      => LogInv' /\ ArmedInv'
  <2> SUFFICES ASSUME LogInv, ArmedInv, [Step]_<<loggerVars, moduleVars>> PROVE LogInv' /\ ArmedInv'
    BY DEF Step
  <2>1. LogInv'
    BY LogKept
  <2>2. CASE Step
    BY <2>1, <2>2, ArmedKept DEF LogInv
  <2>3. CASE UNCHANGED <<loggerVars, moduleVars>>
    <3>1. UNCHANGED <<log_callbacks, token, opened>>
      BY <2>3 DEF loggerVars, moduleVars, subs
    <3> QED  BY <2>1, <3>1 DEF ArmedInv, Owns
  <2> QED  BY <2>2, <2>3
<1>3. ArmedInv => ArmedCodeIsMapped
  BY DEF ArmedInv, ArmedCodeIsMapped, Mapped
<1> QED  BY <1>1, <1>2, <1>3, PTL DEF ModulesSpec
=============================================================================
