---------------------------- MODULE FifoChannel ----------------------------
(***************************************************************************)
(* What the worker log queue promises its users: a record is either        *)
(* refused at submission or delivered exactly once, in submission order,   *)
(* and at most Bound accepted records are outstanding at any time.         *)
(***************************************************************************)
EXTENDS Naturals, Sequences

CONSTANTS Data,     \* what may be submitted
          Bound     \* accepted records that may be outstanding

VARIABLES accepted,   \* everything accepted so far, in order
          delivered   \* everything delivered so far, in order

Outstanding == Len(accepted) - Len(delivered)

Init == accepted = <<>> /\ delivered = <<>>

Accept(d) ==
    /\ Outstanding < Bound
    /\ accepted' = Append(accepted, d)
    /\ UNCHANGED delivered

Deliver ==
    /\ Outstanding > 0
    /\ delivered' = Append(delivered, accepted[Len(delivered) + 1])
    /\ UNCHANGED accepted

Next == Deliver \/ \E d \in Data : Accept(d)

Spec == Init /\ [][Next]_<<accepted, delivered>>
=============================================================================
