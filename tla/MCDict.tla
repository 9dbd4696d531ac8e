------------------------------- MODULE MCDict -------------------------------
(* Workloads of a dictionary, with chosen hashes.                           *)
EXTENDS Dict

\* a, b, c and d share a home slot in a table of eight; b and c also share one in
\* a table of 16, and a and d have the same hash.  e is alone.
CollidingHash ==
    [k \in {"a", "b", "c", "d", "e"} |->
        CASE k = "a" -> 3 [] k = "b" -> 43 [] k = "c" -> 11 [] k = "d" -> 3 [] OTHER -> 5]

\* One key at home in each slot of a table of eight.
SpreadHash ==
    [k \in {"a", "b", "c", "d", "e", "f", "g", "h"} |->
        CASE k = "a" -> 0 [] k = "b" -> 1 [] k = "c" -> 2 [] k = "d" -> 3
          [] k = "e" -> 4 [] k = "f" -> 5 [] k = "g" -> 6 [] OTHER -> 7]

Only(h, ks) == [k \in ks |-> h[k]]

\* The table grows and tombstones are reused.
Growing == [hash |-> CollidingHash, vals |-> {"v1"}, live |-> 5, ops |-> 8, enums |-> 0]

\* Entries are overwritten, which raises fill, and the table grows.
Overwriting == [hash |-> Only(CollidingHash, {"a", "b", "c", "e"}), vals |-> {"v1", "v2"},
                live |-> 4, ops |-> 7, enums |-> 0]

\* Deletions and additions between the calls of an enumeration.
Enumerating == [hash |-> Only(CollidingHash, {"a", "b", "c"}), vals |-> {"v1"},
                live |-> 3, ops |-> 7, enums |-> 1]

\* One key after another comes and goes until tombstones fill the table.
Churning == [hash |-> SpreadHash, vals |-> {"v1"}, live |-> 1, ops |-> 15, enums |-> 0]

AllWorkloads  == {Growing, Overwriting, Enumerating, Churning}
OnlyChurning  == {Churning}
=============================================================================
