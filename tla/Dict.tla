-------------------------------- MODULE Dict --------------------------------
(***************************************************************************)
(* The dictionary of dict.c: an open-addressing table with the perturbed   *)
(* probe sequence of Python's, tombstones (DUMMY_PTR) for deleted keys,    *)
(* and a table that grows when the fill counter says it is two thirds full.*)
(*                                                                         *)
(* A dictionary has one user at a time; a step is a call.  A call whose    *)
(* lookup never finds an end does not return: it sets stuck.  Failed       *)
(* allocations leave the dictionary as it was and are left out.            *)
(***************************************************************************)
EXTENDS Integers, FiniteSets, FiniteSetsExt

CONSTANTS Keys, Values,
          NoValue,      \* dict_get() finds nothing
          MinSize,      \* DICT_MIN_SZ, a power of two
          BigSize,      \* DICT_BIGSZ, from which tables grow less
          Empty, Dummy, \* slot->key == NULL, slot->key == DUMMY_PTR
          Workloads     \* how the dictionary is used: the keys with their hashes,
                        \* the values, and bounds on what is done with them

\* A workload: dict_hash() of the keys it uses, the values it stores, and bounds
\* on the keys in the dictionary at a time, the calls that change the table and
\* the enumerations.
IsWorkload(w) ==
    /\ DOMAIN w.hash \subseteq Keys /\ \A k \in DOMAIN w.hash : w.hash[k] \in Nat
    /\ w.vals \subseteq Values
    /\ w.live \in Nat /\ w.ops \in Nat /\ w.enums \in Nat

\* One is the only odd divisor of a power of two.
PowerOfTwo(n) == \A d \in 1 .. n : n % d = 0 /\ d % 2 = 1 => d = 1

Entry == [key : Keys, val : Values]

ASSUME DictAssumption ==
    /\ \A w \in Workloads : IsWorkload(w)
    /\ MinSize \in Nat \ {0} /\ PowerOfTwo(MinSize) /\ BigSize \in Nat
    /\ NoValue \notin Values
    /\ Empty # Dummy /\ Empty \notin Entry /\ Dummy \notin Entry

VARIABLES use,          \* the workload
          table,        \* d->table: slot number to Empty, Dummy or an entry
          used, fill,   \* the counters of the dictionary
          stuck,        \* some call's lookup runs forever
          rank,         \* where an enumeration is, NoRank if none is under way
          seen, owed,   \* keys an enumeration returned; keys it has to return
          ops, enums,
          content       \* history: what the calls stored under each key

counters == <<used, fill>>
cursor   == <<rank, seen, owed, enums>>
dictVars == <<use, table, counters, stuck, cursor, ops, content>>

NoRank == -1

Live(slot)    == slot \notin {Empty, Dummy}
Size(t)       == Cardinality(DOMAIN t)
LiveSlots(t)  == {i \in DOMAIN t : Live(t[i])}
KeysIn(t)     == {t[i].key : i \in LiveSlots(t)}
Blank(size)   == [i \in 0 .. size - 1 |-> Empty]

-----------------------------------------------------------------------------
(* dict_lookup().                                                          *)

\* Seven shifts clear a 32-bit perturb; from there i -> 5 * i + 1 visits each of
\* the 2^k slots once in 2^k steps.  A lookup that has gone so far has seen all.
Horizon(size) == 7 + size

\* perturb at the n-th step past the first slot: hash >> (PERTURB_SHIFT * (n - 1)).
Perturb(hash, n) ==
    IF n > 7 THEN 0 ELSE hash \div <<1, 32, 1024, 32768, 1048576, 33554432, 1073741824>>[n]

Step(i, perturb, size) == (5 * i + perturb + 1) % size

\* The slots a lookup visits, in order.
Probe(hash, size) ==
    LET at[n \in 0 .. Horizon(size)] ==
            IF n = 0 THEN hash % size ELSE Step(at[n - 1], Perturb(hash, n), size)
    IN  at

\* No slot: the lookup never ends.
NoSlot == -2

Holds(slot, k) == Live(slot) /\ slot.key = k

\* The slot dict_lookup() returns: the key's, or the first tombstone it passed
\* on the way to an empty slot, or that empty slot.
Lookup(t, k) ==
    LET at      == Probe(use.hash[k], Size(t))
        steps   == 0 .. Horizon(Size(t))
        Ends(n) == LET slot == t[at[n]] IN slot = Empty \/ Holds(slot, k)
        last    == CHOOSE n \in steps : Ends(n) /\ \A m \in 0 .. n - 1 : ~Ends(m)
        freed   == {n \in 0 .. last - 1 : t[at[n]] = Dummy}
    IN  IF \A n \in steps : ~Ends(n) THEN NoSlot
        ELSE IF t[at[last]] = Empty /\ freed # {} THEN at[Min(freed)]
        ELSE at[last]

\* What dict_get() and dict_get_type() find.
Get(t, k) ==
    LET i == Lookup(t, k) IN IF i # NoSlot /\ Live(t[i]) THEN t[i].val ELSE NoValue

-----------------------------------------------------------------------------
DictStart ==
    /\ table = Blank(MinSize)
    /\ used = 0 /\ fill = 0
    /\ stuck = FALSE
    /\ rank = NoRank /\ seen = {} /\ owed = {}
    /\ ops = 0 /\ enums = 0
    /\ use \in Workloads
    /\ content = [k \in Keys |-> NoValue]

\* The size dict_resize() arrives at for n entries, after at most n + 2 doublings.
NewSize(size, n) ==
    LET factor == IF size > BigSize THEN 2 ELSE 4
        doubled[j \in 0 .. n + 2] == IF j = 0 THEN size ELSE 2 * doubled[j - 1]
    IN  doubled[Min({j \in 0 .. n + 2 : doubled[j] > factor * n})]

\* dict_add_p() of an old table's entry.
AddP(t, slot) == [t EXCEPT ![Lookup(t, slot.key)] = slot]

\* The larger table, filled from the old one slot by slot.
Rehash(t, size) ==
    LET filled[n \in 0 .. Size(t)] ==
            IF n = 0 THEN Blank(size)
            ELSE IF Live(t[n - 1]) THEN AddP(filled[n - 1], t[n - 1])
            ELSE filled[n - 1]
    IN  filled[Size(t)]

\* dict_resize(): a table that need not grow is left alone, tombstones and all.
Resized(t) == LET size == NewSize(Size(t), used) IN IF size = Size(t) THEN t ELSE Rehash(t, size)

\* dict_store() asks for a larger table before it takes a slot.
Crowded(t) == 3 * (fill + 1) >= 2 * Size(t)

\* fill after the slot is taken: a tombstone was counted already, a replaced
\* entry is counted again.
FillAfter(t, i, f) == IF t[i] = Dummy THEN f ELSE f + 1

\* dict_store(), the body of dict_add() and its typed forms.
DictAdd(k, v) ==
    LET slot   == Lookup(table, k)
        grown  == ~Live(table[slot]) /\ Crowded(table)
        t      == IF grown THEN Resized(table) ELSE table
        i      == IF grown THEN Lookup(t, k) ELSE slot
        moved  == Size(t) # Size(table)
    IN
    /\ ~stuck
    /\ ops < use.ops
    /\ slot # NoSlot
    /\ used < use.live \/ Live(table[slot])
    /\ table' = [t EXCEPT ![i] = [key |-> k, val |-> v]]
    /\ used' = IF Live(t[i]) THEN used ELSE used + 1
    /\ fill' = FillAfter(t, i, IF moved THEN used ELSE fill)
    /\ owed' = IF moved THEN {} ELSE owed
    /\ content' = [content EXCEPT ![k] = v]
    /\ ops' = ops + 1
    /\ UNCHANGED <<use, stuck, rank, seen, enums>>

\* Mutant: a deleted key leaves an empty slot behind.
GoneEmpty == Empty

\* What dict_del() leaves in the slot.
Gone == Dummy

\* dict_del(): -1 when the key is not there, else the slot becomes a tombstone.
DictDel(k) ==
    LET i == Lookup(table, k) IN
    /\ ~stuck
    /\ ops < use.ops
    /\ i # NoSlot
    /\ Live(table[i])
    /\ table' = [table EXCEPT ![i] = Gone]
    /\ used' = used - 1
    /\ owed' = owed \ {k}
    /\ content' = [content EXCEPT ![k] = NoValue]
    /\ ops' = ops + 1
    /\ UNCHANGED <<use, fill, stuck, rank, seen, enums>>

\* A call for a key whose lookup never ends.
LookupRunsOn(k) ==
    /\ ~stuck
    /\ Lookup(table, k) = NoSlot
    /\ stuck' = TRUE
    /\ UNCHANGED <<use, table, counters, cursor, ops, content>>

-----------------------------------------------------------------------------
(* dict_enumerate() and dict_enumerate_typed(), called with rank 0 first    *)
(* and then with what the last call returned.                               *)

EnumerateStart ==
    /\ ~stuck
    /\ rank = NoRank
    /\ enums < use.enums
    /\ enums' = enums + 1
    /\ rank' = 0
    /\ seen' = {}
    /\ owed' = KeysIn(table)
    /\ UNCHANGED <<use, table, counters, stuck, ops, content>>

\* Mutant: the next call starts one slot too far.
AfterRankSkips(i) == i + 2

\* What a call that found slot i returns.
AfterRank(i) == i + 1

EnumerateNext ==
    LET left == {i \in LiveSlots(table) : i >= rank}
        i    == CHOOSE j \in left : \A m \in left : j <= m
    IN
    /\ ~stuck
    /\ rank # NoRank
    /\ left # {}
    /\ rank' = AfterRank(i)
    /\ seen' = seen \cup {table[i].key}
    /\ UNCHANGED <<use, table, counters, stuck, owed, enums, ops, content>>

\* Past the last entry: -1.
EnumerateEnd ==
    /\ ~stuck
    /\ rank # NoRank
    /\ \A i \in LiveSlots(table) : i < rank
    /\ rank' = NoRank
    /\ UNCHANGED <<use, table, counters, stuck, seen, owed, enums, ops, content>>

-----------------------------------------------------------------------------
DictNext ==
    \/ \E k \in DOMAIN use.hash :
        \/ \E v \in use.vals : DictAdd(k, v)
        \/ DictDel(k)
        \/ LookupRunsOn(k)
    \/ EnumerateStart
    \/ EnumerateNext
    \/ EnumerateEnd

DictSpec == DictStart /\ [][DictNext]_dictVars

-----------------------------------------------------------------------------
\* Types: a table of slots numbered from 0, counters within the calls made.
DictTypeOK ==
    /\ DOMAIN table = 0 .. Size(table) - 1
    /\ \A i \in DOMAIN table : table[i] \in Entry \cup {Empty, Dummy}
    /\ used \in 0 .. ops /\ fill \in 0 .. ops
    /\ stuck \in BOOLEAN
    /\ rank \in NoRank .. Size(table)
    /\ seen \subseteq Keys /\ owed \subseteq Keys
    /\ ops \in 0 .. use.ops /\ enums \in 0 .. use.enums

\* dict_get() finds under every key what the last call for that key left there:
\* neither the tombstones of deletions nor the moves of a resize cut a probe
\* sequence, and no older entry shadows a newer one.
FindsWhatWasStored == \A k \in DOMAIN use.hash : Get(table, k) = content[k]

\* "If the key is not found, defval is returned" (dict.h): every lookup ends.
LookupsEnd == ~stuck

\* An enumeration that ran to its end returned every key that was there from its
\* start to its end, whatever was deleted or added without a resize meanwhile.
EnumerationIsComplete == rank = NoRank => owed \subseteq seen
=============================================================================
