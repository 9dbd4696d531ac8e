\* Two producers on a ring of two: contention, a full ring and wrap-around.
CONSTANTS
    Producers = {p1, p2}
    Owner = owner
    Free = free
    Capacity = 2
    DrainLimits = {1, 512}
    MaxPush = 2
SPECIFICATION FairSpec
INVARIANTS TypeOK RingHoldsUndelivered DropAccounting PushNeverWaits
PROPERTIES ImplementsChannel StoredIsDelivered
CHECK_DEADLOCK TRUE
