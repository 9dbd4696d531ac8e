------------------------------- MODULE Logger -------------------------------
(***************************************************************************)
(* logger.c: Log() on any thread, the worker queue it submits to, the      *)
(* timer that drains the queue on the owner, the filters and rate limits   *)
(* applied at delivery, and the callbacks a delivery walks through.        *)
(*                                                                         *)
(* The queue is the FIFO channel that LogQueue is shown to implement.      *)
(* Deliveries form a stack, because a callback may call Log() itself.      *)
(***************************************************************************)
EXTENDS Integers, Sequences, FiniteSets, SequencesExt

CONSTANTS Workers, Owner,   \* threads; Owner calls logger_init() and runs the timer
          Idle, None,       \* no record in a thread's hands; the end of a list
          Capacity,         \* records the queue holds
          DrainMax,         \* records one tick delivers
          Subscribers,      \* who may register a log callback
          Sources,          \* messages logged: <<subsystem, priority>>
          Rules,            \* the log.level rules of the configuration, in order
          Extra,            \* filters added at run time
          Slots,            \* entries of log_rate_slots
          MaxLog, MaxNest, MaxSession, MaxNow, MaxFilters   \* bounds

ASSUME LoggerAssumption ==
    /\ Owner \notin Workers
    /\ {Capacity, DrainMax, Slots, MaxLog, MaxNest, MaxSession, MaxNow, MaxFilters} \subseteq Nat
    /\ Capacity > 0 /\ DrainMax > 0
    /\ \A s \in Sources : s[2] \in Int

VARIABLES logger_owner_valid, worker_logging_enabled,
          drain_source,         \* the timer is attached
          session,              \* logger_init() calls that enabled the queue
          accepted, delivered,  \* the queue, as a channel
          dropped, logger_drops_reported,
          log_callbacks,        \* the list, oldest first
          log_raw_subscribers,
          log_filters,          \* the list, newest first
          log_rate_slots,
          now,
          submitting,           \* what each thread has formatted and not pushed yet
          issued,               \* records numbered so far
          ocall, budget,        \* the owner's call (idle, tick, report or end), and what it may deliver
          stack,                \* Log() calls that deliver, innermost last
          suppressed, told, forgotten   \* history: messages held back by rates, announced, and forgotten

queue    == <<accepted, delivered, dropped, logger_drops_reported>>
switches == <<logger_owner_valid, worker_logging_enabled, drain_source, session>>
subs     == <<log_callbacks, log_raw_subscribers>>
rates    == <<log_rate_slots, suppressed, told, forgotten>>
loggerVars == <<switches, queue, subs, log_filters, rates, now, submitting, issued, ocall, budget, stack>>

Threads == Workers \cup {Owner}

\* enum LogPriority: the ones the code singles out.
LOG_NONE == -1
AUDIT == 1
WARN  == 2
DEBUG == 4
CRAZY == 5

\* enum log_callback_policy
RAW      == "raw"
FILTERED == "filtered"

Channel == INSTANCE FifoChannel WITH Data <- {}, Bound <- Capacity
Queued  == SubSeq(accepted, Len(delivered) + 1, Len(accepted))

-----------------------------------------------------------------------------
(* Filters *)

\* fnmatch() on the patterns in use: a name, a name with .*, or a lone star.
Matches(pattern, subsys) ==
    \/ pattern = "*"
    \/ pattern = subsys
    \/ pattern = "bus.*" /\ subsys = "bus.rx"

Length(pattern) == CASE pattern = "*" -> 1 [] pattern \in {"bus", "gui"} -> 3 [] OTHER -> 5

\* log_matching_filter(): the longest pattern that matches; of several, the newest.
MatchingFilters(subsys) ==
    {i \in DOMAIN log_filters :
        /\ Matches(log_filters[i].pattern, subsys)
        /\ \A j \in DOMAIN log_filters :
              Matches(log_filters[j].pattern, subsys) =>
                 \/ Length(log_filters[j].pattern) < Length(log_filters[i].pattern)
                 \/ /\ Length(log_filters[j].pattern) = Length(log_filters[i].pattern)
                    /\ j >= i}

\* debug_filter(): is the message below the verbosity asked for?
Filtered(subsys, prio) ==
    LET level == IF MatchingFilters(subsys) = {} THEN DEBUG
                 ELSE log_filters[CHOOSE i \in MatchingFilters(subsys) : TRUE].level
    IN  prio > level

\* load_log_filters_from_config(): rules with an unreadable rate or level are
\* skipped, and a name with .* is also added without it.
LoadFilters(filters) ==
    LET usable   == SelectSeq(Rules, LAMBDA r : r.count # LOG_NONE /\ r.level # LOG_NONE)
        Added(r) == IF r.pattern = "bus.*" THEN <<r, [r EXCEPT !.pattern = "bus"]>> ELSE <<r>>
    IN  FoldLeft(LAMBDA acc, r : Added(r) \o acc, filters, usable)

(* Rates *)

RateKeys == DOMAIN log_rate_slots

\* Mutant: a new window forgets how many messages the last one held back.
HeldBackForgotten(slot, elapsed) == 0

\* *skipped: what a window that has passed held back.
HeldBack(slot, elapsed) == IF elapsed THEN slot.suppressed ELSE 0

\* log_rate_allowed(): the verdict, how many messages the closed window held
\* back, and the slots afterwards.  A full table lets everything pass.
RateVerdict(subsys, prio, count, seconds) ==
    LET key     == <<subsys, prio>>
        fresh   == [emitted |-> 0, suppressed |-> 0, start |-> now]
        slot    == IF key \in RateKeys THEN log_rate_slots[key] ELSE fresh
        elapsed == now - slot.start >= seconds
        open    == IF elapsed THEN fresh ELSE slot
    IN  IF \/ count = 0 \/ prio <= AUDIT
           \/ key \notin RateKeys /\ Cardinality(RateKeys) = Slots
        THEN [ok |-> TRUE, skipped |-> 0, slots |-> log_rate_slots]
        ELSE [ok |-> open.emitted < count, skipped |-> HeldBack(slot, elapsed),
              slots |-> [k \in RateKeys \cup {key} |->
                           IF k # key THEN log_rate_slots[k]
                           ELSE IF open.emitted < count THEN [open EXCEPT !.emitted = @ + 1]
                           ELSE [open EXCEPT !.suppressed = @ + 1]]]

\* The slots of a table, summed up.
Pending(slots) == SumFunction([k \in DOMAIN slots |-> slots[k].suppressed])

-----------------------------------------------------------------------------
(* Delivery: the second half of Log(), on the thread that drains *)

Ids(callbacks)  == {callbacks[i].id : i \in DOMAIN callbacks}
Position(callbacks, id) == CHOOSE i \in DOMAIN callbacks : callbacks[i].id = id
First(callbacks) == IF callbacks = <<>> THEN None ELSE callbacks[1].id

\* cb->next, read after the callback returned.
After(callbacks, id) ==
    LET i == Position(callbacks, id) IN IF i = Len(callbacks) THEN None ELSE callbacks[i + 1].id

Top == stack[Len(stack)]
SetTop(frame) == [stack EXCEPT ![Len(stack)] = frame]

\* Log() of a record that is being delivered, up to the loop over the callbacks:
\* verbosity, then the rate of the matching filter, then the head of the list
\* unless the priority is LOG_CRAZY.
Deliver(record) ==
    LET matching == MatchingFilters(record.subsys)
        filter   == log_filters[CHOOSE i \in matching : TRUE]
        visible  == ~Filtered(record.subsys, record.prio)
        verdict  == IF visible /\ matching # {}
                    THEN RateVerdict(record.subsys, record.prio, filter.count, filter.seconds)
                    ELSE [ok |-> TRUE, skipped |-> 0, slots |-> log_rate_slots]
    IN  /\ stack' = Append(stack, [record  |-> record,
                                   allowed |-> visible /\ verdict.ok,
                                   skipped |-> verdict.skipped,
                                   cursor  |-> IF record.prio = CRAZY THEN None ELSE First(log_callbacks),
                                   inside  |-> FALSE,
                                   linked  |-> Ids(log_callbacks),
                                   called  |-> <<>>])
        /\ log_rate_slots' = verdict.slots
        /\ suppressed' = suppressed + IF verdict.ok THEN 0 ELSE 1
        /\ UNCHANGED <<told, forgotten>>

\* Mutant: raw subscribers are filtered too.
WantedIfAllowed(frame, callback) == frame.allowed

Wanted(frame, callback) == callback.policy = RAW \/ frame.allowed

\* cb->callback(): the subscriber's code runs.
EnterCallback ==
    /\ stack # <<>> /\ ~Top.inside /\ Top.cursor # None
    /\ Wanted(Top, log_callbacks[Position(log_callbacks, Top.cursor)])
    /\ stack' = SetTop([Top EXCEPT !.inside = TRUE, !.called = Append(@, Top.cursor)])
    /\ UNCHANGED <<switches, queue, subs, log_filters, rates, now, submitting, issued, ocall, budget>>

\* A filtered subscriber is passed over.
SkipCallback ==
    /\ stack # <<>> /\ ~Top.inside /\ Top.cursor # None
    /\ ~Wanted(Top, log_callbacks[Position(log_callbacks, Top.cursor)])
    /\ stack' = SetTop([Top EXCEPT !.cursor = After(log_callbacks, Top.cursor)])
    /\ UNCHANGED <<switches, queue, subs, log_filters, rates, now, submitting, issued, ocall, budget>>

LeaveCallback ==
    /\ stack # <<>> /\ Top.inside
    /\ stack' = SetTop([Top EXCEPT !.inside = FALSE, !.cursor = After(log_callbacks, Top.cursor)])
    /\ UNCHANGED <<switches, queue, subs, log_filters, rates, now, submitting, issued, ocall, budget>>

\* The rest of Log(): an admitted message is written with the number of messages
\* the rate held back before it.
FinishLog ==
    /\ stack # <<>> /\ Top.cursor = None
    /\ stack' = Front(stack)
    /\ told' = told + Top.skipped
    /\ UNCHANGED <<switches, queue, subs, log_filters, log_rate_slots, suppressed, forgotten,
                   now, submitting, issued, ocall, budget>>
-----------------------------------------------------------------------------
(* Log() on any thread *)

\* A thread that may call Log() from outside a delivery.
MayLog(t) ==
    /\ submitting[t] = Idle
    /\ issued < MaxLog
    /\ t = Owner => ocall = "idle" /\ stack = <<>>

Record(source) == [n |-> issued + 1, subsys |-> source[1], prio |-> source[2],
                   session |-> session, live |-> TRUE]

\* The routing test of an ordinary Log() call.
WorthQueueing(source) ==
    /\ worker_logging_enabled
    /\ ~Filtered(source[1], source[2]) \/ log_raw_subscribers > 0

\* Once an owner is known every ordinary call is formatted for the queue or discarded.
LogSubmit(t, source) ==
    /\ MayLog(t) /\ logger_owner_valid
    /\ WorthQueueing(source)
    /\ submitting' = [submitting EXCEPT ![t] = Record(source)]
    /\ issued' = issued + 1
    /\ UNCHANGED <<switches, queue, subs, log_filters, rates, now, ocall, budget, stack>>

\* Another thread is inside the queue, so that the try-lock may fail.
Contended(t) == ocall \in {"tick", "end"} \/ \E u \in Threads \ {t} : submitting[u] # Idle

\* ra_log_queue_push(), possibly long after the test: stored if there is room.
LogPush(t) ==
    /\ submitting[t] # Idle
    /\ submitting' = [submitting EXCEPT ![t] = Idle]
    /\ \/ /\ Channel!Accept([submitting[t] EXCEPT !.live = worker_logging_enabled])
          /\ UNCHANGED dropped
       \/ /\ Channel!Outstanding = Capacity \/ Contended(t)
          /\ dropped' = dropped + 1
          /\ UNCHANGED <<accepted, delivered>>
    /\ UNCHANGED <<logger_drops_reported, switches, subs, log_filters, rates, now, issued, ocall, budget, stack>>

\* Before the first logger_init() a call delivers at once, on its own thread; here
\* that is the owner, which initialises the logger before it starts another thread.
LogDirect(source) ==
    /\ MayLog(Owner) /\ ~logger_owner_valid
    /\ Deliver(Record(source))
    /\ issued' = issued + 1
    /\ UNCHANGED <<switches, queue, subs, log_filters, now, submitting, ocall, budget>>

\* A callback that logs: delivery_active is set, so the call delivers at once.
LogNested(source) ==
    /\ stack # <<>> /\ Top.inside
    /\ Len(stack) <= MaxNest /\ issued < MaxLog
    /\ Deliver(Record(source))
    /\ issued' = issued + 1
    /\ UNCHANGED <<switches, queue, subs, log_filters, now, submitting, ocall, budget>>

-----------------------------------------------------------------------------
(* The owner *)

Resting == ocall = "idle" /\ stack = <<>> /\ submitting[Owner] = Idle

\* logger_init(): with asynchronous workers and a disabled queue the caller becomes
\* the owner, earlier losses count as reported and the timer is attached; the rules
\* of the configuration are added to the filters in force.
LoggerInit(async) ==
    /\ Resting
    /\ Len(log_filters) < MaxFilters
    /\ IF async /\ ~worker_logging_enabled
       THEN /\ session < MaxSession
            /\ session' = session + 1
            /\ logger_owner_valid' = TRUE
            /\ worker_logging_enabled' = TRUE
            /\ drain_source' = TRUE
            /\ logger_drops_reported' = dropped
       ELSE UNCHANGED <<switches, logger_drops_reported>>
    /\ log_filters' = LoadFilters(log_filters)
    /\ UNCHANGED <<accepted, delivered, dropped, subs, rates, now, submitting, issued, ocall, budget, stack>>

\* The timer: at most DrainMax records.
DrainTick ==
    /\ Resting /\ drain_source
    /\ ocall' = "tick" /\ budget' = DrainMax
    /\ UNCHANGED <<switches, queue, subs, log_filters, rates, now, submitting, issued, stack>>

\* One turn of ra_log_queue_drain(); the end drains without a limit.
DrainOne ==
    /\ ocall \in {"tick", "end"} /\ stack = <<>>
    /\ ocall = "tick" => budget > 0
    /\ Channel!Deliver
    /\ Deliver(Head(Queued))
    /\ budget' = IF ocall = "tick" THEN budget - 1 ELSE budget
    /\ UNCHANGED <<dropped, logger_drops_reported, switches, subs, log_filters, now, submitting, issued, ocall>>

\* ra_log_queue_drain() has returned to the timer.
Drained == ocall = "tick" /\ stack = <<>> /\ (budget = 0 \/ Channel!Outstanding = 0)

\* The logger's own warnings go through Log(), and so through the queue.
Warning == <<"logger", WARN>>
CanWarn == WorthQueueing(Warning) /\ issued < MaxLog

\* A drain that took more than 40 ms is reported.
SlowDrain ==
    /\ Drained /\ CanWarn
    /\ ocall' = "report"
    /\ submitting' = [submitting EXCEPT ![Owner] = Record(Warning)]
    /\ issued' = issued + 1
    /\ UNCHANGED <<switches, queue, subs, log_filters, rates, now, budget, stack>>

\* The tick ends by reporting losses it has not reported yet.
TickDone ==
    /\ Drained \/ (ocall = "report" /\ submitting[Owner] = Idle)
    /\ ocall' = "idle"
    /\ logger_drops_reported' = dropped
    /\ IF dropped # logger_drops_reported /\ CanWarn
       THEN /\ submitting' = [submitting EXCEPT ![Owner] = Record(Warning)]
            /\ issued' = issued + 1
       ELSE UNCHANGED <<submitting, issued>>
    /\ UNCHANGED <<accepted, delivered, dropped, switches, subs, log_filters, rates, now, budget, stack>>

\* logger_end() up to its drain: producers are cut off and the timer destroyed.
LoggerEnd ==
    /\ Resting
    /\ worker_logging_enabled' = FALSE
    /\ drain_source' = FALSE
    /\ ocall' = "end"
    /\ UNCHANGED <<logger_owner_valid, session, queue, subs, log_filters, rates, now, submitting, issued, budget, stack>>

ClearFilters ==
    /\ log_filters' = <<>>
    /\ log_rate_slots' = <<>>
    /\ forgotten' = forgotten + Pending(log_rate_slots)
    /\ UNCHANGED <<suppressed, told>>

\* Mutant: callbacks are released while records wait.
EndReleaseEarly ==
    /\ ocall = "end" /\ stack = <<>>
    /\ ocall' = "idle"
    /\ log_callbacks' = <<>> /\ log_raw_subscribers' = 0
    /\ ClearFilters
    /\ UNCHANGED <<switches, queue, now, submitting, issued, budget, stack>>

\* Mutant: the raw subscribers are still counted afterwards.
EndReleaseKeepsCount ==
    /\ ocall = "end" /\ stack = <<>>
    /\ Channel!Outstanding = 0
    /\ ocall' = "idle"
    /\ log_callbacks' = <<>>
    /\ ClearFilters
    /\ UNCHANGED <<log_raw_subscribers, switches, queue, now, submitting, issued, budget, stack>>

\* The rest of logger_end(): callbacks and filters are released.
EndRelease ==
    /\ ocall = "end" /\ stack = <<>>
    /\ Channel!Outstanding = 0
    /\ ocall' = "idle"
    /\ log_callbacks' = <<>> /\ log_raw_subscribers' = 0
    /\ ClearFilters
    /\ UNCHANGED <<switches, queue, now, submitting, issued, budget, stack>>

-----------------------------------------------------------------------------
(* Subscriptions and filters, from the owner's thread or from a callback on it *)

AtRest == Resting \/ (stack # <<>> /\ Top.inside)

\* A node some delivery stands on: unlinking it would leave cb->next dangling.
Iterated(id) == \E i \in DOMAIN stack : stack[i].cursor = id

\* log_add_callback_token(): appended, and counted if raw.
Subscribed(id, policy) ==
    /\ log_callbacks' = Append(log_callbacks, [id |-> id, policy |-> policy])
    /\ log_raw_subscribers' = log_raw_subscribers + IF policy = RAW THEN 1 ELSE 0

Unlink(callbacks, id) == RemoveAt(callbacks, Position(callbacks, id))

\* log_remove_callback() of a registered token.  Deliveries in progress no longer
\* owe it a call.
Unsubscribed(id) ==
    /\ log_callbacks' = Unlink(log_callbacks, id)
    /\ log_raw_subscribers' = log_raw_subscribers -
          IF log_callbacks[Position(log_callbacks, id)].policy = RAW THEN 1 ELSE 0
    /\ stack' = [i \in DOMAIN stack |-> [stack[i] EXCEPT !.linked = @ \ {id}]]

Subscribe(id, policy) ==
    /\ AtRest /\ id \notin Ids(log_callbacks)
    /\ Subscribed(id, policy)
    /\ UNCHANGED <<switches, queue, log_filters, rates, now, submitting, issued, ocall, budget, stack>>

Unsubscribe(id) ==
    /\ AtRest /\ id \in Ids(log_callbacks) /\ ~Iterated(id)
    /\ Unsubscribed(id)
    /\ UNCHANGED <<switches, queue, log_filters, rates, now, submitting, issued, ocall, budget>>

\* log_add_filter(): the newest filter is first.
AddFilter(filter) ==
    /\ Resting /\ Len(log_filters) < MaxFilters
    /\ log_filters' = <<filter>> \o log_filters
    /\ UNCHANGED <<switches, queue, subs, rates, now, submitting, issued, ocall, budget, stack>>

\* log_clear_filters()
DropFilters ==
    /\ Resting /\ log_filters # <<>>
    /\ ClearFilters
    /\ UNCHANGED <<switches, queue, subs, now, submitting, issued, ocall, budget, stack>>

\* The monotonic clock the rate windows are measured with.
Clock ==
    /\ now < MaxNow
    /\ now' = now + 1
    /\ UNCHANGED <<switches, queue, subs, log_filters, rates, submitting, issued, ocall, budget, stack>>

LoggerStart ==
    /\ logger_owner_valid = FALSE /\ worker_logging_enabled = FALSE /\ drain_source = FALSE /\ session = 0
    /\ accepted = <<>> /\ delivered = <<>> /\ dropped = 0 /\ logger_drops_reported = 0
    /\ log_callbacks = <<>> /\ log_raw_subscribers = 0
    /\ log_filters = <<>> /\ log_rate_slots = <<>> /\ now = 0
    /\ submitting = [t \in Threads |-> Idle] /\ issued = 0
    /\ ocall = "idle" /\ budget = 0 /\ stack = <<>>
    /\ suppressed = 0 /\ told = 0 /\ forgotten = 0

LoggerNext ==
    \/ \E t \in Threads : LogPush(t) \/ \E s \in Sources : LogSubmit(t, s)
    \/ \E s \in Sources : LogDirect(s) \/ LogNested(s)
    \/ EnterCallback \/ SkipCallback \/ LeaveCallback \/ FinishLog
    \/ \E async \in BOOLEAN : LoggerInit(async)
    \/ DrainTick \/ DrainOne \/ SlowDrain \/ TickDone \/ LoggerEnd \/ EndRelease
    \/ \E id \in Subscribers : Unsubscribe(id) \/ \E p \in {RAW, FILTERED} : Subscribe(id, p)
    \/ DropFilters \/ Clock \/ \E f \in Extra : AddFilter(f)

-----------------------------------------------------------------------------
\* Who logs: the program's subsystems and the logger itself.
Subsystems == {s[1] : s \in Sources} \cup {"logger"}

Records  == [n : 1 .. MaxLog, subsys : Subsystems, prio : Int, session : 0 .. MaxSession, live : BOOLEAN]
RateSlot == [emitted : Nat, suppressed : Nat, start : Nat]

\* A callback registered under one of ids, and a delivery over such callbacks.
Callback(ids) == [id : ids, policy : {RAW, FILTERED}]
Frame(ids) == [record : Records, allowed : BOOLEAN, skipped : Nat, cursor : ids \cup {None},
               inside : BOOLEAN, linked : SUBSET ids, called : Seq(ids)]

\* Types of the logger's state, when callbacks are registered under ids: the queue
\* within its capacity, the rate slots within their table, deliveries that stand on
\* registered callbacks.
LoggerTypes(ids) ==
    /\ logger_owner_valid \in BOOLEAN /\ worker_logging_enabled \in BOOLEAN /\ drain_source \in BOOLEAN
    /\ session \in 0 .. MaxSession /\ issued \in 0 .. MaxLog /\ now \in 0 .. MaxNow
    /\ accepted \in Seq(Records) /\ delivered \in Seq(Records)
    /\ Len(delivered) <= Len(accepted) /\ Len(accepted) <= Len(delivered) + Capacity
    /\ dropped \in Nat /\ logger_drops_reported \in 0 .. dropped
    /\ log_callbacks \in Seq(Callback(ids))
    /\ IsFiniteSet(RateKeys) /\ Cardinality(RateKeys) <= Slots
    /\ \A k \in RateKeys : log_rate_slots[k] \in RateSlot
    /\ submitting \in [Threads -> Records \cup {Idle}]
    /\ ocall \in {"idle", "tick", "report", "end"} /\ budget \in 0 .. DrainMax
    /\ stack \in Seq(Frame(ids))
    /\ \A i \in DOMAIN stack : stack[i].cursor \in Ids(log_callbacks) \cup {None}

\* logger_end() delivers what was queued before it cut the producers off: once it
\* has returned, the queue holds only records pushed after the cut, by threads
\* that had passed the routing test earlier.
EndDrains ==
    ~worker_logging_enabled /\ ocall = "idle" => \A i \in DOMAIN Queued : ~Queued[i].live

\* A delivery whose walk over the callbacks is over called every subscriber that was
\* registered when it began and not removed since, exactly once, if it is raw or the
\* message was admitted; subscriptions and removals made by callbacks on the way
\* change nothing of that (LOG_CRAZY is never given to callbacks).
EachSubscriberOnce ==
    \A i \in DOMAIN stack :
        LET frame == stack[i]
            Calls(id) == Cardinality({j \in DOMAIN frame.called : frame.called[j] = id})
        IN  frame.cursor = None /\ frame.record.prio # CRAZY =>
                \A id \in frame.linked :
                    /\ id \in Ids(log_callbacks)
                    /\ LET policy == log_callbacks[Position(log_callbacks, id)].policy
                       IN  Calls(id) = IF policy = RAW \/ frame.allowed THEN 1 ELSE 0

\* log_raw_subscribers, which lets producers queue what the filters would hide, is
\* the number of raw callbacks in the list.
RawCountExact ==
    log_raw_subscribers = Cardinality({i \in DOMAIN log_callbacks : log_callbacks[i].policy = RAW})

\* Every message a rate held back is announced with the next admitted message of its
\* kind, is still counted in its slot, or was forgotten with the filters.
SuppressionAccounted ==
    suppressed = told + forgotten + Pending(log_rate_slots)
                 + SumFunction([i \in DOMAIN stack |-> stack[i].skipped])

\* Violated: records submitted before logger_end() are delivered in their own session
\* or discarded ("After logger_end, late producer logs are discarded").
LateRecordsDiscarded ==
    \A i \in DOMAIN stack : stack[i].record.session = session
=============================================================================
