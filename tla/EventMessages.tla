--------------------------- MODULE EventMessages ---------------------------
(***************************************************************************)
(* Owned-message listeners of event-bus.c: tokens, named domains, the emit *)
(* snapshot, deliver_message() and event_message_token_drain().            *)
(*                                                                         *)
(* Every section under event_lock is one step, as is the unlocked read of  *)
(* token->active in event_off_token().  A thread is a bounded stack of the *)
(* calls it is in, so a callback may use the bus again.  Dispatchers are   *)
(* external: each loop is a thread that runs what was dispatched to it, in *)
(* any order.                                                              *)
(*                                                                         *)
(* message_listeners is a list that grows at its head and tokens are       *)
(* numbered in the order they are issued, so the list is the set of its    *)
(* tokens read from the largest number down.                               *)
(***************************************************************************)
EXTENDS Integers, FiniteSets

CONSTANTS Threads,      \* threads using the bus, loop threads included
          Loops,        \* threads that run a dispatcher's queue
          Inline,       \* dispatch == NULL: deliver on the emitting thread
          Names,        \* message names
          Domains,      \* domain names
          None,         \* no domain, no dispatcher, no name
          MaxTokens,    \* bound: tokens ever issued
          MaxDepth,     \* bound: nested calls of one thread
          MaxEmit,      \* bound: event_emit_message() calls
          DrainInCallback  \* may a callback drain another listener's token?

ASSUME EventMessagesAssumption ==
    /\ IsFiniteSet(Threads)
    /\ Loops \subseteq Threads
    /\ Inline \notin Loops /\ None \notin Loops \cup {Inline}
    /\ None \notin Domains /\ None \notin Names
    /\ MaxTokens \in Nat /\ MaxDepth \in Nat /\ MaxEmit \in Nat
    /\ DrainInCallback \in BOOLEAN

VARIABLES up,         \* event_store # NULL
          domains,    \* dispatcher of each registered domain, else None
          issued,     \* tokens issued so far
          reg,        \* what each token was issued for: name, dispatcher, domain
          active,     \* token->active
          executing,  \* token->executing
          listeners,  \* tokens on the message_listeners list
          pending,    \* deliveries each loop still has to run, per token
          frame,      \* the calls each thread is in, by level
          depth,      \* how many
          emits,      \* calls of event_emit_message()
          quiet       \* history: tokens a drain returned for once inactive

registry == <<up, domains, issued, reg, active, listeners>>
stacks   == <<frame, depth>>
vars     == <<registry, executing, pending, stacks, emits, quiet>>

Tokens == 1 .. MaxTokens
Levels == 1 .. MaxDepth
Places == Threads \X Levels      \* a call in progress
Work   == Loops \X Tokens        \* a delivery a loop was given

\* A call in progress: none, event_emit_message() with the targets it has left,
\* a message callback, event_off_token() past its check, or a drain that waits
\* on event_idle_cond or was woken from it.
Frame  == [op : {"none", "emit", "cb", "off", "wait", "woken"},
           tok : Tokens \cup {0}, targets : SUBSET Tokens]
Nothing == [op |-> "none", tok |-> 0, targets |-> {}]
Call(op, t) == [op |-> op, tok |-> t, targets |-> {}]
Emission(ts) == [op |-> "emit", tok |-> 0, targets |-> ts]

Top(th)    == <<th, depth[th]>>
In(th, op) == depth[th] > 0 /\ frame[Top(th)].op = op

\* Callbacks and threads in no call may call the bus.
CanCall(th) == depth[th] = 0 \/ In(th, "cb")
CanNest(th) == CanCall(th) /\ depth[th] < MaxDepth

PushFrame(th, f) ==
    /\ depth' = [depth EXCEPT ![th] = @ + 1]
    /\ frame' = [frame EXCEPT ![<<th, depth[th] + 1>>] = f]

PopFrame(th) ==
    /\ depth' = [depth EXCEPT ![th] = @ - 1]
    /\ frame' = [frame EXCEPT ![Top(th)] = Nothing]

\* The callbacks of a token being executed.
Running(t) == {c \in Places : frame[c].op = "cb" /\ frame[c].tok = t}

-----------------------------------------------------------------------------
Init ==
    /\ up = FALSE
    /\ domains = [d \in Domains |-> None]
    /\ issued = 0
    /\ reg = [t \in Tokens |-> [name |-> None, loop |-> None, domain |-> None]]
    /\ active = [t \in Tokens |-> FALSE]
    /\ executing = [t \in Tokens |-> 0]
    /\ listeners = {}
    /\ pending = [w \in Work |-> 0]
    /\ frame = [c \in Places |-> Nothing]
    /\ depth = [th \in Threads |-> 0]
    /\ emits = 0
    /\ quiet = {}

EventInit(th) ==
    /\ CanCall(th)
    /\ up' = TRUE
    /\ UNCHANGED <<domains, issued, reg, active, listeners, executing, pending, stacks, emits, quiet>>

EventShutdown(th) ==
    /\ CanCall(th)
    /\ up
    /\ up' = FALSE
    /\ domains' = [d \in Domains |-> None]
    /\ active' = [t \in Tokens |-> active[t] /\ t \notin listeners]
    /\ listeners' = {}
    /\ UNCHANGED <<issued, reg, executing, pending, stacks, emits, quiet>>

\* event_domain_register(): one dispatcher per name.
DomainRegister(th, d, l) ==
    /\ CanCall(th)
    /\ up
    /\ domains[d] = None
    /\ domains' = [domains EXCEPT ![d] = l]
    /\ UNCHANGED <<up, issued, reg, active, listeners, executing, pending, stacks, emits, quiet>>

\* Mutant: nobody asks whether the domain is in use.
UsesDomainNever(t, d) == FALSE

UsesDomain(t, d) == reg[t].domain = d

\* event_domain_unregister(): refused while a message listener names the domain.
DomainUnregister(th, d) ==
    /\ CanCall(th)
    /\ domains[d] # None
    /\ \A t \in listeners : ~UsesDomain(t, d)
    /\ domains' = [domains EXCEPT ![d] = None]
    /\ UNCHANGED <<up, issued, reg, active, listeners, executing, pending, stacks, emits, quiet>>

\* The part common to both registrations: a fresh active token at the head of
\* the list.
Register(name, loop, domain) ==
    LET t == issued + 1 IN
    /\ issued < MaxTokens
    /\ issued' = t
    /\ reg' = [reg EXCEPT ![t] = [name |-> name, loop |-> loop, domain |-> domain]]
    /\ active' = [active EXCEPT ![t] = TRUE]
    /\ listeners' = listeners \cup {t}
    /\ UNCHANGED <<up, domains, executing, pending, stacks, emits, quiet>>

OnMessage(th, name, loop) ==
    /\ CanCall(th)
    /\ up
    /\ Register(name, loop, None)

OnMessageDomain(th, name, d) ==
    /\ CanCall(th)
    /\ up
    /\ domains[d] # None
    /\ Register(name, domains[d], d)

-----------------------------------------------------------------------------
\* event_emit_message() up to the unlock: snapshot the matching listeners.  An
\* emission starts where the level bound leaves room for its callbacks.
EmitSnapshot(th, name) ==
    /\ CanCall(th)
    /\ depth[th] + 1 < MaxDepth
    /\ emits < MaxEmit
    /\ emits' = emits + 1
    /\ PushFrame(th, Emission({t \in listeners : reg[t].name = name}))
    /\ UNCHANGED <<registry, executing, pending, quiet>>

MayRun(t) == active[t]

\* The next target of an emission: the newest listener left.
Newest(ts) == {t \in ts : \A u \in ts : u <= t}

\* A target with a dispatcher: the delivery is handed to its loop.
EmitDispatch(th) ==
    /\ In(th, "emit")
    /\ \E t \in Newest(frame[Top(th)].targets) :
        /\ reg[t].loop # Inline
        /\ pending' = [pending EXCEPT ![<<reg[t].loop, t>>] = @ + 1]
        /\ frame' = [frame EXCEPT ![Top(th)] = Emission(@.targets \ {t})]
    /\ UNCHANGED <<registry, executing, depth, emits, quiet>>

\* deliver_message() up to its first unlock, for a target without a dispatcher.
EmitInline(th) ==
    /\ In(th, "emit")
    /\ \E t \in Newest(frame[Top(th)].targets) :
        LET left == [frame EXCEPT ![Top(th)] = Emission(@.targets \ {t})] IN
        /\ reg[t].loop = Inline
        /\ \/ /\ MayRun(t)
              /\ depth[th] < MaxDepth
              /\ executing' = [executing EXCEPT ![t] = @ + 1]
              /\ depth' = [depth EXCEPT ![th] = @ + 1]
              /\ frame' = [left EXCEPT ![<<th, depth[th] + 1>>] = Call("cb", t)]
           \/ /\ ~MayRun(t)
              /\ frame' = left
              /\ UNCHANGED <<executing, depth>>
    /\ UNCHANGED <<registry, pending, emits, quiet>>

EmitReturn(th) ==
    /\ In(th, "emit")
    /\ frame[Top(th)].targets = {}
    /\ PopFrame(th)
    /\ UNCHANGED <<registry, executing, pending, emits, quiet>>

\* Mutant: a dispatched delivery is not counted while it runs.
LoopDeliverUncounted(l, t) ==
    /\ depth[l] = 0 /\ MaxDepth > 0
    /\ pending[<<l, t>>] > 0
    /\ pending' = [pending EXCEPT ![<<l, t>>] = @ - 1]
    /\ \/ MayRun(t) /\ PushFrame(l, Call("cb", t))
       \/ ~MayRun(t) /\ UNCHANGED stacks
    /\ UNCHANGED <<registry, executing, emits, quiet>>

\* The loop runs one dispatched deliver_message() up to its first unlock.
LoopDeliver(l, t) ==
    /\ depth[l] = 0 /\ MaxDepth > 0
    /\ pending[<<l, t>>] > 0
    /\ pending' = [pending EXCEPT ![<<l, t>>] = @ - 1]
    /\ \/ /\ MayRun(t)
          /\ executing' = [executing EXCEPT ![t] = @ + 1]
          /\ PushFrame(l, Call("cb", t))
       \/ /\ ~MayRun(t)
          /\ UNCHANGED <<executing, stacks>>
    /\ UNCHANGED <<registry, emits, quiet>>

\* Mutant: the last callback to return does not broadcast.
WakeNobody(f) == f

\* pthread_cond_broadcast(): every waiter of the one condition variable wakes.
Wake(f) == [c \in Places |-> IF f[c].op = "wait" THEN [f[c] EXCEPT !.op = "woken"] ELSE f[c]]

\* The callback returns: the rest of deliver_message().
CallbackReturn(th) ==
    /\ In(th, "cb")
    /\ LET t == frame[Top(th)].tok
           popped == [frame EXCEPT ![Top(th)] = Nothing]
       IN /\ executing' = [executing EXCEPT ![t] = @ - 1]
          /\ frame' = IF executing[t] = 1 THEN Wake(popped) ELSE popped
    /\ depth' = [depth EXCEPT ![th] = @ - 1]
    /\ UNCHANGED <<registry, pending, emits, quiet>>

-----------------------------------------------------------------------------
\* event_off_token(): token->active is read before the lock is taken.
OffCheck(th, t) ==
    /\ CanNest(th)
    /\ t <= issued
    /\ active[t]
    /\ PushFrame(th, Call("off", t))
    /\ UNCHANGED <<registry, executing, pending, emits, quiet>>

\* Mutant: the listener is unlinked and the token stays active.
OffLockedKeepsActive(th) ==
    /\ In(th, "off")
    /\ listeners' = listeners \ {frame[Top(th)].tok}
    /\ PopFrame(th)
    /\ UNCHANGED <<up, domains, issued, reg, active, executing, pending, emits, quiet>>

OffLocked(th) ==
    /\ In(th, "off")
    /\ LET t == frame[Top(th)].tok IN
       /\ listeners' = listeners \ {t}
       /\ active' = [active EXCEPT ![t] = FALSE]
    /\ PopFrame(th)
    /\ UNCHANGED <<up, domains, issued, reg, executing, pending, emits, quiet>>

\* A drain of t may leave its loop.
Idle(t) == executing[t] = 0

Quiet(t) == IF active[t] THEN quiet ELSE quiet \cup {t}

\* The caller's side of the contract: never from inside that listener, and by
\* default from no callback at all.
MayDrain(th, t) ==
    IF DrainInCallback THEN \A i \in Levels : <<th, i>> \notin Running(t)
                       ELSE depth[th] = 0

\* event_message_token_drain(): nothing runs, or wait on event_idle_cond.
DrainCall(th, t) ==
    /\ CanNest(th)
    /\ t <= issued
    /\ MayDrain(th, t)
    /\ \/ Idle(t) /\ quiet' = Quiet(t) /\ UNCHANGED stacks
       \/ ~Idle(t) /\ PushFrame(th, Call("wait", t)) /\ UNCHANGED quiet
    /\ UNCHANGED <<registry, executing, pending, emits>>

\* Mutant: a wake-up is taken for the end of the wait (if instead of while).
DrainWokenReturns(th) ==
    /\ In(th, "woken")
    /\ quiet' = Quiet(frame[Top(th)].tok)
    /\ PopFrame(th)
    /\ UNCHANGED <<registry, executing, pending, emits>>

\* while (token->executing): test again, return or wait again.
DrainWoken(th) ==
    /\ In(th, "woken")
    /\ LET t == frame[Top(th)].tok IN
       \/ /\ Idle(t)
          /\ quiet' = Quiet(t)
          /\ PopFrame(th)
       \/ /\ ~Idle(t)
          /\ frame' = [frame EXCEPT ![Top(th)] = Call("wait", t)]
          /\ UNCHANGED <<depth, quiet>>
    /\ UNCHANGED <<registry, executing, pending, emits>>

-----------------------------------------------------------------------------
\* What a thread does in the call it is in.
Proceed(th) ==
    \/ EmitDispatch(th)
    \/ EmitInline(th)
    \/ EmitReturn(th)
    \/ CallbackReturn(th)
    \/ OffLocked(th)
    \/ DrainWoken(th)

LoopStep(l) == \E t \in Tokens : LoopDeliver(l, t)

\* What a thread, or the callback it runs, may ask of the bus.
Request(th) ==
    \/ EventInit(th)
    \/ EventShutdown(th)
    \/ \E d \in Domains, l \in Loops : DomainRegister(th, d, l)
    \/ \E d \in Domains : DomainUnregister(th, d)
    \/ \E n \in Names, l \in Loops \cup {Inline} : OnMessage(th, n, l)
    \/ \E n \in Names, d \in Domains : OnMessageDomain(th, n, d)
    \/ \E n \in Names : EmitSnapshot(th, n)
    \/ \E t \in Tokens : OffCheck(th, t) \/ DrainCall(th, t)

Next ==
    \/ \E th \in Threads : Proceed(th) \/ Request(th)
    \/ \E l \in Loops : LoopStep(l)

Spec == Init /\ [][Next]_vars

\* Threads keep running the call they are in, callbacks return, and a loop
\* that is in no call runs what was dispatched to it.
FairSpec ==
    /\ Spec
    /\ \A th \in Threads : WF_vars(Proceed(th))
    /\ \A l \in Loops : WF_vars(LoopStep(l))

-----------------------------------------------------------------------------
\* Types of the registry, the token counters and the call stacks of event-bus.c.
TypeOK ==
    /\ up \in BOOLEAN
    /\ domains \in [Domains -> Loops \cup {None}]
    /\ issued \in 0 .. MaxTokens
    /\ reg \in [Tokens -> [name : Names \cup {None}, loop : Loops \cup {Inline, None}, domain : Domains \cup {None}]]
    /\ active \in [Tokens -> BOOLEAN]
    /\ executing \in [Tokens -> Nat]
    /\ listeners \subseteq 1 .. issued
    /\ pending \in [Work -> Nat]
    /\ frame \in [Places -> Frame]
    /\ depth \in [Threads -> 0 .. MaxDepth]
    /\ emits \in 0 .. MaxEmit
    /\ quiet \subseteq 1 .. issued

\* token->executing counts exactly the callbacks of that token running on any
\* thread, nested ones too: the counter the drain trusts never drifts.
ExecutingIsExact == \A t \in Tokens : executing[t] = Cardinality(Running(t))

\* The list and the active flags agree: off, a second concurrent off and
\* shutdown leave no active token without a listener and no listener that
\* deliveries would refuse.
ListenersAreActive == \A t \in Tokens : t \in listeners <=> active[t]

\* Once event_message_token_drain() has returned for a token that was off, none
\* of its callbacks runs on any thread, ever again, although deliveries may
\* still be queued or about to be dispatched: its module may be unloaded.
NothingRunsAfterDrain == \A t \in quiet : Running(t) = {}

\* A registered listener's domain is still registered with the dispatcher the
\* listener was given: event_domain_unregister() never pulls it away.
DomainOutlivesListeners ==
    \A t \in listeners : reg[t].domain # None => domains[reg[t].domain] = reg[t].loop

\* A drain started by a thread outside callbacks returns: no wake-up of the one
\* condition variable shared by all tokens is lost.
DrainReturns ==
    \A th \in Threads : In(th, "wait") \/ In(th, "woken") ~> depth[th] = 0
============================================================================
