------------------------------ MODULE EventBus ------------------------------
(***************************************************************************)
(* Text and binary listeners of event-bus.c: registration with and without *)
(* tokens, named domains, wildcard removal, tokens, the emit snapshots and *)
(* the NOMATCH fallback.                                                   *)
(*                                                                         *)
(* A step is a section under event_lock, the unlocked test at the top of   *)
(* event_off_token(), or the firing of one snapshot listener.  The bus has *)
(* no per-thread state, so what a callback does to the bus while an emit   *)
(* is under way is what another thread does in between.                    *)
(*                                                                         *)
(* Each registration gets a number, id, that the program does not have; it *)
(* tells listeners with equal fields apart in the properties.  Listeners   *)
(* are appended and removals keep their order, so an array is the set of   *)
(* its listeners and its order is that of their ids.                       *)
(***************************************************************************)
EXTENDS Integers, Sequences

CONSTANTS Threads,
          Events, NOMATCH,   \* event names; the fallback is one of them
          Kinds,             \* which of "text" and "binary" are used
          Cbs, Users,        \* callback and user pointers
          Null,              \* the NULL pointer: user, wildcard, connection
          Conn,              \* the connection an emit passes along
          Sync, Dispatchers, \* dispatch == NULL, and (dispatch, user) pairs
          Domains, None,     \* domain names; no domain
          Absent,            \* no entry in event_store
          MaxReg,            \* bound: registrations
          MaxEmit,           \* bound: emits
          FreshTriples       \* registrations never repeat event, cb and user of an earlier token

ASSUME EventBusAssumption ==
    /\ NOMATCH \in Events
    /\ Kinds \subseteq {"text", "binary"}
    /\ Null \in Users /\ Null \notin Cbs /\ Conn # Null
    /\ Sync \notin Dispatchers
    /\ None \notin Domains \cup Dispatchers
    /\ MaxReg \in Nat /\ MaxEmit \in Nat
    /\ FreshTriples \in BOOLEAN

VARIABLES store,    \* event_store: entry of each event, or Absent
          up,       \* event_store # NULL
          domains,  \* dispatcher of each registered domain, or None
          tokens,   \* every token ever issued, oldest first
          regs,     \* registrations so far
          queued,   \* what dispatchers still have to run
          call,     \* the call each thread is in
          emits,    \* emits so far
          heard     \* history: which listeners an emit went to

registry == <<store, up, domains, tokens, regs>>
vars     == <<registry, queued, call, emits, heard>>

Idle      == [op |-> "idle"]
NewEntry  == [generation |-> 0, text |-> {}, binary |-> {}]

\* The listener arrays of an event, empty when it has no entry.
Listeners(e, k) == IF store[e] = Absent THEN {} ELSE store[e][k]

\* The listener that comes first in an array.
First(ls) == CHOOSE l \in ls : \A m \in ls : l.id <= m.id

Ids(ls) == {l.id : l \in ls}

AllListeners == UNION {Listeners(e, k) : e \in Events, k \in {"text", "binary"}}

-----------------------------------------------------------------------------
Init ==
    /\ store = [e \in Events |-> Absent]
    /\ up = FALSE
    /\ domains = [d \in Domains |-> None]
    /\ tokens = <<>>
    /\ regs = 0
    /\ queued = {}
    /\ call = [th \in Threads |-> Idle]
    /\ emits = 0
    /\ heard = {}

EventInit(th) ==
    /\ call[th] = Idle
    /\ ~up
    /\ up' = TRUE
    /\ UNCHANGED <<store, domains, tokens, regs, queued, call, emits, heard>>

\* event_shutdown(): entries and domains go, text and binary tokens stay active.
EventShutdown(th) ==
    /\ call[th] = Idle
    /\ up
    /\ up' = FALSE
    /\ store' = [e \in Events |-> Absent]
    /\ domains' = [d \in Domains |-> None]
    /\ UNCHANGED <<tokens, regs, queued, call, emits, heard>>

DomainRegister(th, d, disp) ==
    /\ call[th] = Idle
    /\ up
    /\ domains[d] = None
    /\ domains' = [domains EXCEPT ![d] = disp]
    /\ UNCHANGED <<store, up, tokens, regs, queued, call, emits, heard>>

\* A listener of either kind uses the dispatcher.
InUse(disp) == \E l \in AllListeners : l.disp = disp

DomainUnregister(th, d) ==
    /\ call[th] = Idle
    /\ domains[d] # None
    /\ ~InUse(domains[d])
    /\ domains' = [domains EXCEPT ![d] = None]
    /\ UNCHANGED <<store, up, tokens, regs, queued, call, emits, heard>>

-----------------------------------------------------------------------------
(* Registration.                                                           *)

\* event_get_or_create_locked()
GetOrCreate(e) == IF store[e] = Absent THEN NewEntry ELSE store[e]

\* The caller's pointers are not those of an earlier token or a live listener.
Fresh(k, e, cb, u) ==
    /\ \A i \in DOMAIN tokens :
         tokens[i].event = e /\ tokens[i].kind = k /\ tokens[i].cb = cb => tokens[i].user # u
    /\ \A l \in Listeners(e, k) : l.cb = cb => l.user # u

\* Append a listener to the event's array; bump says whether the generation moves.
Add(k, e, cb, u, disp, dom, bump) ==
    LET entry    == GetOrCreate(e)
        listener == [id |-> regs + 1, cb |-> cb, user |-> u, disp |-> disp,
                     domain_delivery |-> FALSE, domain |-> dom]
    IN /\ regs < MaxReg
       /\ FreshTriples => Fresh(k, e, cb, u)
       /\ regs' = regs + 1
       /\ store' = [store EXCEPT ![e] =
                     [entry EXCEPT ![k] = @ \cup {listener},
                                   !.generation = IF bump THEN @ + 1 ELSE @]]

Token(k, e, cb, u) ==
    [event |-> e, kind |-> k, cb |-> cb, user |-> u, active |-> TRUE,
     generation |-> store'[e].generation, id |-> regs + 1]

\* event_on_dispatch(), event_on_binary_dispatch() and their synchronous forms;
\* the binary one leaves the generation alone.
EventOn(th, k, e, cb, u, disp) ==
    /\ call[th] = Idle
    /\ up
    /\ Add(k, e, cb, u, disp, None, k = "text")
    /\ UNCHANGED <<up, domains, tokens, queued, call, emits, heard>>

\* event_on_token_dispatch(), event_on_binary_token_dispatch() and their
\* synchronous forms.
EventOnToken(th, k, e, cb, u, disp) ==
    /\ call[th] = Idle
    /\ up
    /\ Add(k, e, cb, u, disp, None, TRUE)
    /\ tokens' = Append(tokens, Token(k, e, cb, u))
    /\ UNCHANGED <<up, domains, queued, call, emits, heard>>

\* event_on_domain_token() and event_on_binary_domain_token(): the dispatcher of
\* the domain is read in a section of its own.
DomainOnLookup(th, k, e, cb, u, d) ==
    /\ call[th] = Idle
    /\ domains[d] # None
    /\ call' = [call EXCEPT ![th] = [op |-> "register", kind |-> k, event |-> e, cb |-> cb,
                                     user |-> u, disp |-> domains[d], domain |-> d]]
    /\ UNCHANGED <<registry, queued, emits, heard>>

\* The registration itself; a bus shut down meanwhile yields no token.
DomainOnRegister(th) ==
    LET c == call[th] IN
    /\ c.op = "register"
    /\ \/ /\ ~up
          /\ call' = [call EXCEPT ![th] = Idle]
          /\ UNCHANGED <<store, tokens, regs>>
       \/ /\ up
          /\ Add(c.kind, c.event, c.cb, c.user, c.disp, c.domain, TRUE)
          /\ tokens' = Append(tokens, Token(c.kind, c.event, c.cb, c.user))
          /\ call' = [call EXCEPT ![th] = IF c.kind = "text" THEN [@ EXCEPT !.op = "mark"] ELSE Idle]
    /\ UNCHANGED <<up, domains, queued, emits, heard>>

\* Mutant: the marking tests the callback and the dispatcher only.
MarkedLoosely(l, c) == l.cb = c.cb /\ l.disp = c.disp

Marked(l, c) == l.cb = c.cb /\ l.user = c.user /\ l.disp = c.disp

\* The marking: every text listener with these pointers becomes a domain
\* delivery, in an entry created if it is gone.
DomainOnMark(th) ==
    LET c == call[th] IN
    /\ c.op = "mark"
    /\ store' = IF ~up THEN store
                ELSE [store EXCEPT ![c.event] =
                        [GetOrCreate(c.event) EXCEPT !.text =
                            {IF Marked(l, c) THEN [l EXCEPT !.domain_delivery = TRUE] ELSE l :
                                l \in Listeners(c.event, "text")}]]
    /\ call' = [call EXCEPT ![th] = Idle]
    /\ UNCHANGED <<up, domains, tokens, regs, queued, emits, heard>>

-----------------------------------------------------------------------------
(* Removal.                                                                *)

\* event_remove_if_empty_locked()
RemoveIfEmpty(entry, k) ==
    IF entry.text = {} /\ entry.binary = {} THEN Absent ELSE entry

\* event_off() and event_off_binary(): NULL matches any callback, any user.
EventOff(th, k, e, cb, u) ==
    LET Matches(l) == (cb = Null \/ l.cb = cb) /\ (u = Null \/ l.user = u)
        kept       == {l \in Listeners(e, k) : ~Matches(l)}
    IN
    /\ call[th] = Idle
    /\ up
    /\ store[e] # Absent
    /\ store' = [store EXCEPT ![e] = RemoveIfEmpty([store[e] EXCEPT ![k] = kept], k)]
    /\ UNCHANGED <<up, domains, tokens, regs, queued, call, emits, heard>>

\* event_off_token() reads token->active before it takes the lock.
OffCheck(th, t) ==
    /\ call[th] = Idle
    /\ tokens[t].active
    /\ call' = [call EXCEPT ![th] = [op |-> "off", tok |-> t]]
    /\ UNCHANGED <<registry, queued, emits, heard>>

\* Mutant: the token's user pointer is not compared.
OwnedByCallback(l, tok) == l.cb = tok.cb

\* How a token finds its listener: callback and user, not the generation.
Owned(l, tok) == l.cb = tok.cb /\ l.user = tok.user

\* The rest of event_off_token(): the first listener that matches is dropped.
OffLocked(th) ==
    LET t   == call[th].tok
        tok == tokens[t]
        ls  == Listeners(tok.event, tok.kind)
        own == {l \in ls : Owned(l, tok)}
        entry == store[tok.event]
    IN
    /\ call[th].op = "off"
    /\ \/ /\ entry = Absent
          /\ UNCHANGED store
       \/ /\ entry # Absent
          /\ store' = [store EXCEPT ![tok.event] =
                RemoveIfEmpty(
                    IF own = {} THEN entry
                    ELSE [entry EXCEPT ![tok.kind] = ls \ {First(own)},
                                       !.generation = entry.generation + 1],
                    tok.kind)]
    /\ tokens' = [tokens EXCEPT ![t].active = FALSE]
    /\ call' = [call EXCEPT ![th] = Idle]
    /\ UNCHANGED <<up, domains, regs, queued, emits, heard>>

-----------------------------------------------------------------------------
(* Emission.                                                               *)

\* Mutant: NOMATCH is asked although the event has listeners.
AfterSnapshotAlways(ls, k) == IF k = "text" THEN "nomatch" ELSE "fire"

\* What follows the snapshot: text events without a listener fall back.
AfterSnapshot(ls, k) == IF ls = {} /\ k = "text" THEN "nomatch" ELSE "fire"

\* event_emit() and event_emit_binary() up to the first unlock.
EmitSnapshot(th, k, e) ==
    LET ls == Listeners(e, k) IN
    /\ call[th] = Idle
    /\ emits < MaxEmit
    /\ emits' = emits + 1
    /\ call' = [call EXCEPT ![th] = [op |-> AfterSnapshot(ls, k), kind |-> k, event |-> e,
                                     n |-> emits + 1, route |-> "own", rest |-> ls]]
    /\ UNCHANGED <<registry, queued, heard>>

\* The second snapshot of event_emit(), after the listeners of the event itself.
EmitNomatch(th) ==
    /\ call[th].op = "nomatch"
    /\ call[th].rest = {}
    /\ call' = [call EXCEPT ![th].op = "fire", ![th].route = "nomatch",
                            ![th].rest = Listeners(NOMATCH, "text")]
    /\ UNCHANGED <<registry, queued, emits, heard>>

\* The connection a dispatched listener is handed.
Handed(l, k) == IF k = "text" /\ l.domain_delivery THEN Null ELSE Conn

\* event_fire_listener() and event_fire_binary_listener(): call the next
\* listener of the snapshot, or hand its delivery to the dispatcher.
EmitFire(th) ==
    LET c == call[th]
        l == First(c.rest)
    IN
    /\ c.op \in {"fire", "nomatch"}
    /\ c.rest # {}
    /\ heard' = heard \cup {<<c.n, c.route>>}
    /\ queued' = IF l.disp = Sync THEN queued
                 ELSE queued \cup {[n |-> c.n, id |-> l.id, disp |-> l.disp, kind |-> c.kind,
                                    domain |-> l.domain, cptr |-> Handed(l, c.kind)]}
    /\ call' = [call EXCEPT ![th].rest = @ \ {l}]
    /\ UNCHANGED <<registry, emits>>

EmitReturn(th) ==
    /\ call[th].op = "fire"
    /\ call[th].rest = {}
    /\ call' = [call EXCEPT ![th] = Idle]
    /\ UNCHANGED <<registry, queued, emits, heard>>

\* event_dispatch_run() and event_dispatch_binary_run(), on the dispatcher's loop.
DispatchRun(q) ==
    /\ queued' = queued \ {q}
    /\ UNCHANGED <<registry, call, emits, heard>>

-----------------------------------------------------------------------------
Registering(th) ==
    \E k \in Kinds, e \in Events, cb \in Cbs, u \in Users :
        \/ \E disp \in Dispatchers \cup {Sync} :
              EventOn(th, k, e, cb, u, disp) \/ EventOnToken(th, k, e, cb, u, disp)
        \/ \E d \in Domains : DomainOnLookup(th, k, e, cb, u, d)

Removing(th) ==
    \/ \E k \in Kinds, e \in Events, cb \in Cbs \cup {Null}, u \in Users : EventOff(th, k, e, cb, u)
    \/ \E t \in DOMAIN tokens : OffCheck(th, t)

Administering(th) ==
    \/ EventInit(th)
    \/ EventShutdown(th)
    \/ \E d \in Domains, disp \in Dispatchers : DomainRegister(th, d, disp)
    \/ \E d \in Domains : DomainUnregister(th, d)

Proceeding(th) ==
    \/ DomainOnRegister(th)
    \/ DomainOnMark(th)
    \/ OffLocked(th)
    \/ EmitNomatch(th)
    \/ EmitFire(th)
    \/ EmitReturn(th)

Next ==
    \/ \E th \in Threads :
        \/ Administering(th) \/ Registering(th) \/ Removing(th) \/ Proceeding(th)
        \/ \E k \in Kinds, e \in Events : EmitSnapshot(th, k, e)
    \/ \E q \in queued : DispatchRun(q)

Spec == Init /\ [][Next]_vars

-----------------------------------------------------------------------------
Listener == [id : 1 .. MaxReg, cb : Cbs, user : Users, disp : Dispatchers \cup {Sync},
             domain_delivery : BOOLEAN, domain : Domains \cup {None}]

Entry == [generation : Nat, text : SUBSET Listener, binary : SUBSET Listener]

ASSUME AbsentAssumption == Absent \notin Entry

Issued == [event : Events, kind : Kinds, cb : Cbs, user : Users, active : BOOLEAN,
           generation : Nat, id : 1 .. MaxReg]

\* A call in progress: in event_on_domain_token(), event_off_token() or an emit.
RegisterCalls == [op : {"register", "mark"}, kind : Kinds, event : Events, cb : Cbs, user : Users,
                  disp : Dispatchers, domain : Domains]
OffCalls      == [op : {"off"}, tok : Nat]
EmitCalls     == [op : {"fire", "nomatch"}, kind : Kinds, event : Events, n : 1 .. MaxEmit,
                  route : {"own", "nomatch"}, rest : SUBSET Listener]
Calls         == RegisterCalls \cup OffCalls \cup EmitCalls

\* Types: entries and domains only while the bus is up, tokens of registrations,
\* calls in progress, and queued deliveries of event-bus.c.
TypeOK ==
    /\ up \in BOOLEAN /\ regs \in 0 .. MaxReg /\ emits \in 0 .. MaxEmit
    /\ store \in [Events -> Entry \cup {Absent}] /\ \A e \in Events : store[e] # Absent => up
    /\ domains \in [Domains -> Dispatchers \cup {None}] /\ \A d \in Domains : domains[d] # None => up
    /\ tokens \in Seq(Issued)
    /\ call \in [Threads -> Calls \cup {Idle}]
    /\ \A q \in queued : q.cptr \in {Null, Conn} /\ q.disp \in Dispatchers

\* The registrations a step removes from the arrays of one kind of one event.
Dropped(e, k) == Ids(Listeners(e, k)) \ Ids(Listeners(e, k)')

\* event_off_token() drops the registration its token was issued for or none,
\* whatever other listeners share its callback, and whatever wildcard removals,
\* shutdowns or other threads did since.
TokenDropsOwn ==
    [][\A th \in Threads : call[th].op = "off" /\ call'[th] = Idle =>
          \A e \in Events, k \in {"text", "binary"} : Dropped(e, k) \subseteq {tokens[call[th].tok].id}]_vars

\* A retired token's registration is gone from every array: event_off_token()
\* never retires a token by removing somebody else's listener.
RetiredIsGone ==
    \A i \in DOMAIN tokens : ~tokens[i].active => \A l \in AllListeners : l.id # tokens[i].id

\* NOMATCH listeners hear an event only when nobody else did.
NomatchIsFallback == \A n \in 1 .. emits : ~({<<n, "own">>, <<n, "nomatch">>} \subseteq heard)

\* Only listeners subscribed to in a named domain are marked as such, and once
\* event_on_domain_token() has returned its text listener is marked, so emits
\* that start from then on hide the connection, whatever other threads
\* registered or removed between its registration and its marking.
MarksExactly ==
    /\ \A l \in AllListeners : l.domain_delivery => l.domain # None
    /\ \A e \in Events : \A l \in Listeners(e, "text") :
         l.domain # None /\ (\A th \in Threads : call[th].op # "mark") => l.domain_delivery

\* "rrconn_t * is always NULL on the receiving thread" of a text event
\* subscribed to in a named domain.
DomainHidesConnection ==
    \A q \in queued : q.kind = "text" /\ q.domain # None => q.cptr = Null
=============================================================================
