--------------------------- MODULE EventBusProofs ---------------------------
(***************************************************************************)
(* Proofs about text and binary events, for any threads, events, domains   *)
(* and listeners.  What tokens and marks promise holds while no            *)
(* registration repeats the event, callback and user of an earlier token.  *)
(***************************************************************************)
EXTENDS EventBus, WellFoundedInduction, TLAPS

Arrays == {"text", "binary"}
Stores == [Events -> Entry \cup {Absent}]

-----------------------------------------------------------------------------
(* The store, seen through its arrays.                                     *)

LEMMA NonemptyHasLeast ==
    ASSUME NEW T, T \subseteq Nat, T # {}
    PROVE  \E x \in T : \A y \in T : x <= y
<1>1. PICK x \in T : \A y \in T : ~(<<y, x>> \in OpToRel(<, Nat))
  BY NatLessThanWellFounded, WFMin
<1>2. \A y \in T : ~(y < x)
  BY <1>1 DEF OpToRel
<1> QED  BY <1>2

\* A nonempty array has a first listener.
LEMMA FirstIsOne ==
    ASSUME NEW ls \in SUBSET Listener, ls # {}
    PROVE  First(ls) \in ls
<1>1. {l.id : l \in ls} \subseteq Nat /\ {l.id : l \in ls} # {}
  BY EventBusAssumption DEF Listener
<1>2. PICK x \in {l.id : l \in ls} : \A y \in {l.id : l \in ls} : x <= y
  BY <1>1, NonemptyHasLeast
<1>3. \E l \in ls : \A m \in ls : l.id <= m.id
  BY <1>2
<1> QED  BY <1>3 DEF First

LEMMA KindsAreArrays == Kinds \subseteq Arrays
BY EventBusAssumption DEF Arrays

LEMMA TokenTyped ==
    ASSUME tokens \in Seq(Issued), NEW i \in DOMAIN tokens
    PROVE  tokens[i] \in Issued /\ tokens[i].event \in Events /\ tokens[i].kind \in Arrays
<1>1. tokens[i] \in Issued
  OBVIOUS
<1> QED  BY <1>1, KindsAreArrays DEF Issued

LEMMA ListenersTyped ==
    ASSUME TypeOK, NEW e \in Events, NEW k \in Arrays
    PROVE  Listeners(e, k) \subseteq Listener
<1>1. CASE store[e] = Absent
  BY <1>1 DEF Listeners
<1>2. CASE store[e] \in Entry
  BY <1>2 DEF Listeners, Entry, Arrays
<1> QED  BY <1>1, <1>2 DEF TypeOK

\* The store after one array of an event changed, its entry removed if it is empty.
LEMMA StoreReplaced ==
    ASSUME TypeOK, NEW e \in Events, NEW k \in Arrays, NEW t \in Entry,
           \A h \in Arrays \ {k} : t[h] = Listeners(e, h),
           store'[e] = t \/ (store'[e] = Absent /\ \A h \in Arrays : t[h] = {}),
           \A f \in Events \ {e} : store'[f] = store[f]
    PROVE  /\ Listeners(e, k)' = t[k]
           /\ \A f \in Events, h \in Arrays : f # e \/ h # k => Listeners(f, h)' = Listeners(f, h)
<1>1. \A f \in Events \ {e} : \A h \in Arrays : Listeners(f, h)' = Listeners(f, h)
  BY DEF Listeners
<1>2. \A h \in Arrays : Listeners(e, h)' = t[h]
  BY AbsentAssumption DEF Listeners
<1> QED  BY <1>1, <1>2

\* event_get_or_create_locked(): the arrays of the entry are the event's.
LEMMA EntryTaken ==
    ASSUME TypeOK, NEW e \in Events
    PROVE  /\ GetOrCreate(e) \in Entry
           /\ \A h \in Arrays : GetOrCreate(e)[h] = Listeners(e, h)
<1>1. CASE store[e] = Absent
  BY <1>1 DEF GetOrCreate, NewEntry, Entry, Listeners, Arrays
<1>2. CASE store[e] # Absent
  BY <1>2 DEF GetOrCreate, TypeOK, Listeners
<1> QED  BY <1>1, <1>2

-----------------------------------------------------------------------------
(* What is true of the arrays and the tokens.                              *)

UniqueIds == \A e \in Events, k \in Arrays : \A l, m \in Listeners(e, k) : l.id = m.id => l = m

IdsIssued ==
    /\ \A e \in Events, k \in Arrays : \A l \in Listeners(e, k) : l.id <= regs
    /\ \A i \in DOMAIN tokens : tokens[i].id <= regs

\* The listener a token was issued for has its event, kind, callback and user.
TokenFits ==
    \A i \in DOMAIN tokens, e \in Events, k \in Arrays : \A l \in Listeners(e, k) :
        l.id = tokens[i].id =>
            /\ tokens[i].event = e /\ tokens[i].kind = k
            /\ tokens[i].cb = l.cb /\ tokens[i].user = l.user

\* And nobody else has.
TokenOwns ==
    \A i \in DOMAIN tokens, e \in Events, k \in Arrays : \A l \in Listeners(e, k) :
        tokens[i].event = e /\ tokens[i].kind = k /\ Owned(l, tokens[i]) => l.id = tokens[i].id

TokenInv == UniqueIds /\ IdsIssued /\ TokenFits /\ TokenOwns /\ RetiredIsGone

\* A thread that is about to mark has issued a token, and what it will mark was
\* subscribed to in a domain.
MarkerHasToken ==
    \A th \in Threads : call[th].op = "mark" =>
        /\ call[th].kind = "text"
        /\ \E i \in DOMAIN tokens : /\ tokens[i].event = call[th].event /\ tokens[i].kind = "text"
                                   /\ tokens[i].cb = call[th].cb /\ tokens[i].user = call[th].user
        /\ \A e \in Events : \A l \in Listeners(e, "text") :
              call[th].event = e /\ l.cb = call[th].cb /\ l.user = call[th].user => l.domain # None

\* A text listener of a domain that is not marked yet has its thread on the way.
MarkIsComing ==
    \A e \in Events : \A l \in Listeners(e, "text") :
        l.domain # None /\ ~l.domain_delivery =>
            \E th \in Threads : call[th].op = "mark" /\ call[th].event = e /\ Marked(l, call[th])

OnlyDomainsMarked ==
    \A e \in Events, k \in Arrays : \A l \in Listeners(e, k) : l.domain_delivery => l.domain # None

MarkInv == MarkerHasToken /\ MarkIsComing /\ OnlyDomainsMarked

OffHasToken == \A th \in Threads : call[th].op = "off" => call[th].tok \in DOMAIN tokens

LEMMA AllListenersAre ==
    \A l : l \in AllListeners <=> \E e \in Events, k \in Arrays : l \in Listeners(e, k)
BY DEF AllListeners, Arrays

\* What tokens rest on survives the loss of listeners.
LEMMA LossKeepsTokens ==
    ASSUME TokenInv, regs' = regs,
           \A e \in Events, k \in Arrays : Listeners(e, k)' \subseteq Listeners(e, k),
           tokens' = tokens
    PROVE  TokenInv'
<1>1. UniqueIds' /\ IdsIssued' /\ TokenFits'
  BY DEF TokenInv, UniqueIds, IdsIssued, TokenFits
<1>3. TokenOwns'
  BY DEF TokenInv, TokenOwns, Owned
<1>4. RetiredIsGone'
  BY AllListenersAre DEF TokenInv, RetiredIsGone, AllListeners, Arrays
<1> QED  BY <1>1, <1>3, <1>4 DEF TokenInv

-----------------------------------------------------------------------------
(* Registration.                                                           *)

NewListener(cb, u, disp, dom) ==
    [id |-> regs + 1, cb |-> cb, user |-> u, disp |-> disp, domain_delivery |-> FALSE, domain |-> dom]

LEMMA AddEffect ==
    ASSUME TypeOK, NEW k \in Kinds, NEW e \in Events, NEW cb \in Cbs, NEW u \in Users,
           NEW disp \in Dispatchers \cup {Sync}, NEW dom \in Domains \cup {None}, NEW bump \in BOOLEAN,
           Add(k, e, cb, u, disp, dom, bump)
    PROVE  /\ regs' = regs + 1 /\ regs' \in 0 .. MaxReg
           /\ NewListener(cb, u, disp, dom) \in Listener
           /\ store' \in Stores /\ store'[e].generation \in Nat
           /\ \A f \in Events \ {e} : store'[f] = store[f]
           /\ Listeners(e, k)' = Listeners(e, k) \cup {NewListener(cb, u, disp, dom)}
           /\ \A f \in Events, h \in Arrays : f # e \/ h # k => Listeners(f, h)' = Listeners(f, h)
<1> DEFINE new == NewListener(cb, u, disp, dom)
           entry == GetOrCreate(e)
           ls == entry[k] \cup {new}
           n == IF bump THEN entry.generation + 1 ELSE entry.generation
           t == [entry EXCEPT ![k] = ls, !.generation = n]
<1>1. regs' = regs + 1 /\ regs' \in 0 .. MaxReg /\ regs + 1 \in 1 .. MaxReg
  <2>1. regs < MaxReg /\ regs' = regs + 1
    BY DEF Add
  <2>2. regs \in 0 .. MaxReg /\ MaxReg \in Nat
    BY EventBusAssumption DEF TypeOK
  <2> QED  BY <2>1, <2>2
<1>2. new \in Listener
  BY <1>1 DEF NewListener, Listener
<1>3. k \in Arrays /\ entry \in Entry /\ \A h \in Arrays : entry[h] = Listeners(e, h)
  BY KindsAreArrays, EntryTaken
<1>4. ls \in SUBSET Listener /\ n \in Nat
  <2>1. entry[k] \subseteq Listener
    BY <1>3, ListenersTyped
  <2>2. entry.generation \in Nat
    BY <1>3 DEF Entry
  <2> QED  BY <1>2, <2>1, <2>2
<1>5. store' = [store EXCEPT ![e] = t]
  BY DEF Add, NewListener
<1>6. /\ t \in Entry /\ t.generation = n /\ t[k] = ls
      /\ \A h \in Arrays \ {k} : t[h] = entry[h]
  <2> HIDE DEF entry, ls, n
  <2> QED  BY <1>3, <1>4 DEF Entry, Arrays
<1> HIDE DEF new, entry, ls, n, t
<1>7. /\ store' \in Stores
      /\ store'[e] = t /\ \A f \in Events \ {e} : store'[f] = store[f]
  BY <1>5, <1>6 DEF TypeOK, Stores
<1>9. /\ Listeners(e, k)' = t[k]
      /\ \A f \in Events, h \in Arrays : f # e \/ h # k => Listeners(f, h)' = Listeners(f, h)
  BY <1>3, <1>6, <1>7, StoreReplaced
<1>8. t[k] = Listeners(e, k) \cup {new}
  BY <1>3, <1>6 DEF ls
<1> QED  BY <1>1, <1>2, <1>4, <1>6, <1>7, <1>8, <1>9 DEF new

LEMMA TokenAppended ==
    ASSUME NEW t, tokens' = Append(tokens, t), tokens \in Seq(Issued)
    PROVE  /\ \A i \in DOMAIN tokens : i \in DOMAIN tokens' /\ tokens'[i] = tokens[i]
           /\ \A i \in DOMAIN tokens' : tokens'[i] = t \/ (i \in DOMAIN tokens /\ tokens'[i] = tokens[i])
           /\ \E i \in DOMAIN tokens' : tokens'[i] = t
<1>1. /\ DOMAIN tokens = 1 .. Len(tokens) /\ DOMAIN tokens' = 1 .. Len(tokens) + 1 /\ Len(tokens) \in Nat
      /\ tokens'[Len(tokens) + 1] = t /\ \A i \in 1 .. Len(tokens) : tokens'[i] = tokens[i]
  OBVIOUS
<1>2. Len(tokens) + 1 \in 1 .. Len(tokens) + 1
  BY <1>1
<1> QED  BY <1>1, <1>2

\* What tokens rest on survives a registration, with a token or without one.
LEMMA GrowthKeepsTokens ==
    ASSUME TokenInv, tokens \in Seq(Issued), regs \in Nat, regs' = regs + 1,
           NEW k \in Arrays, NEW e \in Events, NEW new, new.id = regs + 1,
           Listeners(e, k)' = Listeners(e, k) \cup {new},
           \A f \in Events, h \in Arrays : f # e \/ h # k => Listeners(f, h)' = Listeners(f, h),
           \A f \in Events, h \in Arrays : \A l \in Listeners(f, h) : l.id \in Nat,
           Fresh(k, e, new.cb, new.user),
           \/ tokens' = tokens
           \/ \E t \in Issued : /\ tokens' = Append(tokens, t) /\ t.active = TRUE
                              /\ t.id = regs + 1 /\ t.event = e /\ t.kind = k
                              /\ t.cb = new.cb /\ t.user = new.user
    PROVE  TokenInv'
<1> DEFINE IsNew(t) == /\ t.active = TRUE /\ t.id = regs + 1 /\ t.event = e /\ t.kind = k
                       /\ t.cb = new.cb /\ t.user = new.user
<1>1. \A i \in DOMAIN tokens' : IsNew(tokens'[i]) \/ (i \in DOMAIN tokens /\ tokens'[i] = tokens[i])
  <2>1. CASE tokens' = tokens
    BY <2>1
  <2>2. ASSUME NEW t \in Issued, tokens' = Append(tokens, t), IsNew(t)
        PROVE  \A i \in DOMAIN tokens' : IsNew(tokens'[i]) \/ (i \in DOMAIN tokens /\ tokens'[i] = tokens[i])
    BY <2>2, TokenAppended
  <2> QED  BY <2>1, <2>2
<1> HIDE DEF IsNew
<1>2. \A f \in Events, h \in Arrays : \A l \in Listeners(f, h)' :
          l \in Listeners(f, h) \/ (l = new /\ f = e /\ h = k)
  OBVIOUS
<1>3. \A i \in DOMAIN tokens : tokens[i].id \in Nat /\ tokens[i].event \in Events /\ tokens[i].kind \in Arrays
  BY TokenTyped DEF Issued
<1>4. UniqueIds'
  BY <1>2 DEF TokenInv, UniqueIds, IdsIssued
<1>5. IdsIssued'
  BY <1>1, <1>2, <1>3 DEF TokenInv, IdsIssued, IsNew
<1>6. TokenFits'
  BY <1>1, <1>2, <1>3 DEF TokenInv, TokenFits, IdsIssued, IsNew
<1>7. TokenOwns'
  <2> SUFFICES ASSUME NEW i \in DOMAIN tokens', NEW f \in Events, NEW h \in Arrays, NEW l \in Listeners(f, h)',
                      tokens'[i].event = f, tokens'[i].kind = h, l.cb = tokens'[i].cb, l.user = tokens'[i].user
               PROVE  l.id = tokens'[i].id
    BY DEF TokenOwns, Owned
  <2>1. CASE IsNew(tokens'[i])
    BY <1>2, <2>1 DEF Fresh, IsNew
  <2>2. CASE i \in DOMAIN tokens /\ tokens'[i] = tokens[i]
    BY <1>2, <2>2 DEF Fresh, Owned, TokenInv, TokenOwns
  <2> QED  BY <1>1, <2>1, <2>2
<1>8. RetiredIsGone'
  <2> SUFFICES ASSUME NEW i \in DOMAIN tokens', ~tokens'[i].active,
                      NEW f \in Events, NEW h \in Arrays, NEW l \in Listeners(f, h)'
               PROVE  l.id # tokens'[i].id
    BY DEF RetiredIsGone, AllListeners, Arrays
  <2>1. i \in DOMAIN tokens /\ tokens'[i] = tokens[i]
    BY <1>1 DEF IsNew
  <2>2. CASE l \in Listeners(f, h)
    BY <2>1, <2>2, AllListenersAre DEF TokenInv, RetiredIsGone
  <2>3. CASE l = new
    BY <1>3, <2>1, <2>3 DEF TokenInv, IdsIssued
  <2> QED  BY <1>2, <2>2, <2>3
<1> QED  BY <1>4, <1>5, <1>6, <1>7, <1>8 DEF TokenInv

\* A token that was issued stays issued; only its active flag changes.
TokensStay ==
    \A i \in DOMAIN tokens : /\ i \in DOMAIN tokens'
                            /\ tokens'[i].event = tokens[i].event /\ tokens'[i].kind = tokens[i].kind
                            /\ tokens'[i].cb = tokens[i].cb /\ tokens'[i].user = tokens[i].user

\* What marks rest on survives the loss of listeners.
LEMMA LossKeepsMarks ==
    ASSUME MarkInv, TokensStay,
           \A e \in Events, k \in Arrays : Listeners(e, k)' \subseteq Listeners(e, k),
           \A th \in Threads : call[th].op = "mark" \/ call'[th].op = "mark" => call'[th] = call[th]
    PROVE  MarkInv'
<1>1. "text" \in Arrays
  BY DEF Arrays
<1>2. MarkerHasToken'
  BY <1>1 DEF MarkInv, MarkerHasToken, TokensStay
<1>3. MarkIsComing'
  BY <1>1 DEF MarkInv, MarkIsComing, Marked
<1>4. OnlyDomainsMarked'
  BY DEF MarkInv, OnlyDomainsMarked
<1> QED  BY <1>2, <1>3, <1>4 DEF MarkInv

\* And a registration, whose thread is about to mark it if it is a text listener of
\* a domain.
LEMMA GrowthKeepsMarks ==
    ASSUME MarkInv, TokensStay, NEW k \in Arrays, NEW e \in Events, NEW new,
           Listeners(e, k)' = Listeners(e, k) \cup {new},
           \A f \in Events, h \in Arrays : f # e \/ h # k => Listeners(f, h)' = Listeners(f, h),
           Fresh(k, e, new.cb, new.user), new.domain_delivery = FALSE,
           \A th \in Threads : call[th].op = "mark" => call'[th] = call[th],
           \A th \in Threads : call'[th].op = "mark" =>
               \/ call'[th] = call[th]
               \/ /\ k = "text" /\ new.domain # None /\ call'[th].kind = "text" /\ call'[th].event = e
                  /\ call'[th].cb = new.cb /\ call'[th].user = new.user
                  /\ \E i \in DOMAIN tokens' : /\ tokens'[i].event = e /\ tokens'[i].kind = "text"
                                              /\ tokens'[i].cb = new.cb /\ tokens'[i].user = new.user,
           k = "text" /\ new.domain # None =>
               \E th \in Threads : /\ call'[th].op = "mark" /\ call'[th].event = e
                                  /\ new.cb = call'[th].cb /\ new.user = call'[th].user /\ new.disp = call'[th].disp
    PROVE  MarkInv'
<1>0. "text" \in Arrays
  BY DEF Arrays
<1>1. \A f \in Events, h \in Arrays : \A l \in Listeners(f, h)' :
          l \in Listeners(f, h) \/ (l = new /\ f = e /\ h = k)
  OBVIOUS
<1>2. ASSUME NEW th \in Threads, call'[th].op = "mark"
      PROVE  /\ call'[th].kind = "text"
             /\ \E i \in DOMAIN tokens' : /\ tokens'[i].event = call'[th].event /\ tokens'[i].kind = "text"
                                         /\ tokens'[i].cb = call'[th].cb /\ tokens'[i].user = call'[th].user
             /\ \A f \in Events : \A l \in Listeners(f, "text")' :
                   call'[th].event = f /\ l.cb = call'[th].cb /\ l.user = call'[th].user => l.domain # None
  <2>1. CASE call'[th] = call[th]
    <3>1. PICK i \in DOMAIN tokens : /\ tokens[i].event = call[th].event /\ tokens[i].kind = "text"
                                   /\ tokens[i].cb = call[th].cb /\ tokens[i].user = call[th].user
      BY <1>2, <2>1 DEF MarkInv, MarkerHasToken
    <3>2. ASSUME NEW f \in Events, NEW l \in Listeners(f, "text")', call[th].event = f,
                 l.cb = call[th].cb, l.user = call[th].user
          PROVE  l.domain # None
      <4>1. CASE l \in Listeners(f, "text")
        BY <1>2, <2>1, <3>2, <4>1 DEF MarkInv, MarkerHasToken
      <4>2. CASE l = new /\ f = e /\ k = "text"
        BY <3>1, <3>2, <4>2 DEF Fresh
      <4> QED  BY <1>0, <1>1, <4>1, <4>2
    <3>3. call[th].kind = "text"
      BY <1>2, <2>1 DEF MarkInv, MarkerHasToken
    <3> QED  BY <2>1, <3>1, <3>2, <3>3 DEF TokensStay
  <2>2. CASE /\ k = "text" /\ new.domain # None /\ call'[th].kind = "text" /\ call'[th].event = e
             /\ call'[th].cb = new.cb /\ call'[th].user = new.user
             /\ \E i \in DOMAIN tokens' : /\ tokens'[i].event = e /\ tokens'[i].kind = "text"
                                         /\ tokens'[i].cb = new.cb /\ tokens'[i].user = new.user
    BY <1>0, <1>1, <2>2 DEF Fresh
  <2> QED  BY <1>2, <2>1, <2>2
<1>3. MarkerHasToken'
  BY <1>2 DEF MarkerHasToken
<1>4. MarkIsComing'
  <2> SUFFICES ASSUME NEW f \in Events, NEW l \in Listeners(f, "text")', l.domain # None, ~l.domain_delivery
               PROVE  \E th \in Threads : call'[th].op = "mark" /\ call'[th].event = f /\ Marked(l, call'[th])
    BY DEF MarkIsComing, Marked
  <2>1. CASE l \in Listeners(f, "text")
    <3>1. PICK th \in Threads : call[th].op = "mark" /\ call[th].event = f /\ Marked(l, call[th])
      BY <2>1 DEF MarkInv, MarkIsComing
    <3> QED  BY <3>1
  <2>2. CASE l = new /\ f = e /\ k = "text"
    BY <2>2 DEF Marked
  <2> QED  BY <1>0, <1>1, <2>1, <2>2
<1>5. OnlyDomainsMarked'
  BY <1>1 DEF MarkInv, OnlyDomainsMarked
<1> QED  BY <1>3, <1>4, <1>5 DEF MarkInv

-----------------------------------------------------------------------------
(* Calls in progress.                                                      *)

\* What a call is doing says what it holds.
LEMMA CallShape ==
    ASSUME TypeOK, NEW th \in Threads
    PROVE  /\ call[th].op \in {"register", "mark"} => call[th] \in RegisterCalls
           /\ call[th].op = "off" => call[th] \in OffCalls
           /\ call[th].op \in {"fire", "nomatch"} => call[th] \in EmitCalls
           /\ Idle.op = "idle"
<1>1. \A c \in RegisterCalls : c.op \in {"register", "mark"}
  BY DEF RegisterCalls
<1>2. \A c \in OffCalls : c.op = "off"
  BY DEF OffCalls
<1>3. \A c \in EmitCalls : c.op \in {"fire", "nomatch"}
  BY DEF EmitCalls
<1>4. call[th] \in RegisterCalls \/ call[th] \in OffCalls \/ call[th] \in EmitCalls \/ call[th] = Idle
  BY DEF TypeOK, Calls
<1>5. Idle.op = "idle"
  BY DEF Idle
<1> QED  BY <1>1, <1>2, <1>3, <1>4, <1>5

\* event_off() and event_off_binary(): arrays only shrink.
LEMMA OffEffect ==
    ASSUME TypeOK, NEW th \in Threads, NEW k \in Kinds, NEW e \in Events, NEW cb, NEW u,
           EventOff(th, k, e, cb, u)
    PROVE  /\ store' \in [Events -> Entry \cup {Absent}]
           /\ \A f \in Events : store'[f] # Absent => store[f] # Absent
           /\ \A f \in Events, h \in Arrays : Listeners(f, h)' \subseteq Listeners(f, h)
<1> DEFINE Matches(l) == (cb = Null \/ l.cb = cb) /\ (u = Null \/ l.user = u)
           r == store[e]
           ls == {l \in Listeners(e, k) : ~Matches(l)}
           t == [r EXCEPT ![k] = ls]
<1>1. r \in Entry /\ k \in Arrays /\ store[e] # Absent
  BY KindsAreArrays DEF EventOff, TypeOK
<1>2. store' = [store EXCEPT ![e] = RemoveIfEmpty(t, k)]
  BY DEF EventOff
<1>3. ls \subseteq r[k] /\ r[k] \subseteq Listener
  BY <1>1 DEF Entry, Arrays, Listeners
<1> HIDE DEF ls
<1>4. t \in Entry /\ t[k] = ls /\ \A h \in Arrays \ {k} : t[h] = r[h]
  <2> HIDE DEF r
  <2> QED  BY <1>1, <1>3 DEF Entry, Arrays
<1>5. \A h \in Arrays : r[h] = Listeners(e, h)
  BY <1>1 DEF Listeners
<1> HIDE DEF r, t
<1>6. /\ store' \in [Events -> Entry \cup {Absent}] /\ \A f \in Events \ {e} : store'[f] = store[f]
      /\ store'[e] = RemoveIfEmpty(t, k)
  <2>1. RemoveIfEmpty(t, k) \in Entry \cup {Absent}
    BY <1>4 DEF RemoveIfEmpty
  <2> QED  BY <1>2, <2>1 DEF TypeOK
<1>7. store'[e] = t \/ (store'[e] = Absent /\ \A h \in Arrays : t[h] = {})
  BY <1>6 DEF RemoveIfEmpty, Arrays
<1>8. /\ Listeners(e, k)' = t[k]
      /\ \A f \in Events, h \in Arrays : f # e \/ h # k => Listeners(f, h)' = Listeners(f, h)
  BY <1>1, <1>4, <1>5, <1>6, <1>7, StoreReplaced
<1>9. t[k] \subseteq Listeners(e, k)
  BY <1>1, <1>3, <1>4, <1>5
<1> QED  BY <1>1, <1>6, <1>8, <1>9

\* event_off_token(): one listener that matches goes, if there is one.
LEMMA OffLockedEffect ==
    ASSUME TypeOK, OffHasToken, NEW th \in Threads, OffLocked(th),
           NEW tok, tok = tokens[call[th].tok]
    PROVE  /\ tok \in Issued /\ call[th].tok \in DOMAIN tokens
           /\ store' \in [Events -> Entry \cup {Absent}]
           /\ \A f \in Events : store'[f] # Absent => store[f] # Absent
           /\ \A f \in Events, h \in Arrays :
                 f # tok.event \/ h # tok.kind => Listeners(f, h)' = Listeners(f, h)
           /\ \A f \in Events, h \in Arrays : Listeners(f, h)' \subseteq Listeners(f, h)
           /\ \A f \in Events, h \in Arrays : f = tok.event /\ h = tok.kind =>
                 /\ \A l \in Listeners(f, h) : l \in Listeners(f, h)' \/ Owned(l, tok)
                 /\ \/ \A l \in Listeners(f, h) : ~Owned(l, tok)
                    \/ \E l \in Listeners(f, h) : l \notin Listeners(f, h)'
<1> DEFINE e == tok.event  k == tok.kind  r == store[e]
           own == {l \in Listeners(e, k) : Owned(l, tok)}
           ls == IF own = {} THEN Listeners(e, k) ELSE Listeners(e, k) \ {First(own)}
           t == IF own = {} THEN r
                ELSE [r EXCEPT ![k] = Listeners(e, k) \ {First(own)}, !.generation = r.generation + 1]
<1>1. call[th].tok \in DOMAIN tokens /\ tok \in Issued /\ e \in Events /\ k \in Arrays
  <2>1. call[th].tok \in DOMAIN tokens
    BY DEF OffLocked, OffHasToken
  <2> QED  BY <2>1, TokenTyped DEF TypeOK
<1>2. CASE store[e] = Absent
  <2>1. store' = store
    BY <1>2 DEF OffLocked
  <2>2. \A f \in Events, h \in Arrays : Listeners(f, h)' = Listeners(f, h)
    BY <2>1 DEF Listeners
  <2>4. Listeners(e, k) = {}
    BY <1>2 DEF Listeners
  <2>5. store' \in [Events -> Entry \cup {Absent}]
    BY <2>1 DEF TypeOK
  <2> QED  BY <1>1, <2>1, <2>2, <2>4, <2>5
<1>3. CASE store[e] # Absent
  <2>1. store' = [store EXCEPT ![e] = RemoveIfEmpty(t, k)]
    BY <1>3 DEF OffLocked
  <2>2. r \in Entry /\ \A h \in Arrays : r[h] = Listeners(e, h)
    BY <1>1, <1>3 DEF TypeOK, Listeners
  <2>3. /\ t \in Entry /\ t[k] = ls /\ \A h \in Arrays \ {k} : t[h] = r[h]
    <3>1. CASE own = {}
      BY <1>1, <2>2, <3>1
    <3>2. CASE own # {}
      <4> DEFINE cut == Listeners(e, k) \ {First(own)}  n == r.generation + 1
      <4>1. t = [r EXCEPT ![k] = cut, !.generation = n]
        BY <3>2
      <4>2. n \in Nat /\ cut \subseteq Listener
        BY <1>1, <2>2, ListenersTyped DEF Entry
      <4>3. cut = ls
        BY <3>2
      <4> HIDE DEF t, cut, n, r, k
      <4>4. t \in Entry /\ t[k] = cut /\ \A h \in Arrays \ {k} : t[h] = r[h]
        BY <1>1, <2>2, <4>1, <4>2 DEF Entry, Arrays
      <4> QED  BY <4>3, <4>4
    <3> QED  BY <3>1, <3>2
  <2> HIDE DEF t, r, ls
  <2>4. /\ store' \in [Events -> Entry \cup {Absent}] /\ \A f \in Events \ {e} : store'[f] = store[f]
        /\ store'[e] = RemoveIfEmpty(t, k)
    <3>1. RemoveIfEmpty(t, k) \in Entry \cup {Absent}
      BY <2>3 DEF RemoveIfEmpty
    <3> QED  BY <1>1, <2>1, <3>1 DEF TypeOK
  <2>5. store'[e] = t \/ (store'[e] = Absent /\ \A h \in Arrays : t[h] = {})
    BY <2>4 DEF RemoveIfEmpty, Arrays
  <2>6. /\ Listeners(e, k)' = ls
        /\ \A f \in Events, h \in Arrays : f # e \/ h # k => Listeners(f, h)' = Listeners(f, h)
    BY <1>1, <2>2, <2>3, <2>4, <2>5, StoreReplaced
  <2>7. /\ ls \subseteq Listeners(e, k)
        /\ \A l \in Listeners(e, k) : l \in ls \/ Owned(l, tok)
        /\ (\A l \in Listeners(e, k) : ~Owned(l, tok)) \/ \E l \in Listeners(e, k) : l \notin ls
    <3>1. CASE own = {}
      BY <3>1 DEF ls
    <3>2. CASE own # {}
      <4>1. own \subseteq Listeners(e, k) /\ own \subseteq Listener /\ \A l \in own : Owned(l, tok)
        BY <1>1, ListenersTyped
      <4>2. ls = Listeners(e, k) \ {First(own)}
        BY <3>2 DEF ls
      <4> HIDE DEF own
      <4>3. First(own) \in own
        BY <3>2, <4>1, FirstIsOne
      <4> QED  BY <4>1, <4>2, <4>3
    <3> QED  BY <3>1, <3>2
  <2> QED  BY <1>1, <1>3, <2>4, <2>6, <2>7
<1> QED  BY <1>2, <1>3

\* event_on_domain_token()'s marking: the listeners stay, some with the flag set.
LEMMA MarkEffect ==
    ASSUME TypeOK, NEW th \in Threads, DomainOnMark(th), up, NEW c, c = call[th]
    PROVE  /\ c \in RegisterCalls
           /\ store' \in [Events -> Entry \cup {Absent}]
           /\ Listeners(c.event, "text")' =
                 {IF Marked(l, c) THEN [l EXCEPT !.domain_delivery = TRUE] ELSE l : l \in Listeners(c.event, "text")}
           /\ \A f \in Events, h \in Arrays : f # c.event \/ h # "text" => Listeners(f, h)' = Listeners(f, h)
<1> DEFINE e == c.event
           r == GetOrCreate(e)
           ls == {IF Marked(l, c) THEN [l EXCEPT !.domain_delivery = TRUE] ELSE l : l \in Listeners(e, "text")}
           t == [r EXCEPT !.text = ls]
<1>1. c \in RegisterCalls /\ e \in Events /\ "text" \in Arrays
  <2>1. c \in RegisterCalls
    <3>1. call[th].op = "mark"
      BY DEF DomainOnMark
    <3> QED  BY <3>1, CallShape
  <2> QED  BY <2>1 DEF RegisterCalls, Arrays
<1>2. store' = [store EXCEPT ![e] = t]
  BY DEF DomainOnMark
<1>3. ls \subseteq Listener
  <2>1. Listeners(e, "text") \subseteq Listener
    BY <1>1, ListenersTyped
  <2>2. \A l \in Listener : [l EXCEPT !.domain_delivery = TRUE] \in Listener
    BY DEF Listener
  <2> QED  BY <2>1, <2>2
<1>4. r \in Entry /\ \A h \in Arrays : r[h] = Listeners(e, h)
  BY <1>1, EntryTaken
<1> HIDE DEF ls, r
<1>5. t \in Entry /\ t["text"] = ls /\ \A h \in Arrays \ {"text"} : t[h] = r[h]
  BY <1>3, <1>4 DEF Entry, Arrays
<1> HIDE DEF t
<1>6. /\ store' \in [Events -> Entry \cup {Absent}]
      /\ store'[e] = t /\ \A f \in Events \ {e} : store'[f] = store[f]
  BY <1>1, <1>2, <1>5 DEF TypeOK
<1>7. /\ Listeners(e, "text")' = t["text"]
      /\ \A f \in Events, h \in Arrays : f # e \/ h # "text" => Listeners(f, h)' = Listeners(f, h)
  BY <1>1, <1>4, <1>5, <1>6, StoreReplaced
<1> QED  BY <1>1, <1>5, <1>6, <1>7 DEF ls

-----------------------------------------------------------------------------
(* Types.                                                                  *)

NumbersOK == up \in BOOLEAN /\ regs \in 0 .. MaxReg /\ emits \in 0 .. MaxEmit
StoreOK   == store \in [Events -> Entry \cup {Absent}] /\ \A e \in Events : store[e] # Absent => up
DomainsOK == domains \in [Domains -> Dispatchers \cup {None}] /\ \A d \in Domains : domains[d] # None => up
TokensOK  == tokens \in Seq(Issued)
CallOK    == call \in [Threads -> Calls \cup {Idle}]
QueuedOK  == \A q \in queued : q.cptr \in {Null, Conn} /\ q.disp \in Dispatchers

LEMMA TypeParts == TypeOK <=> NumbersOK /\ StoreOK /\ DomainsOK /\ TokensOK /\ CallOK /\ QueuedOK
BY DEF TypeOK, NumbersOK, StoreOK, DomainsOK, TokensOK, CallOK, QueuedOK

\* A thread that is not in an emit's or a token's call, and what it may become.
LEMMA CallMoves ==
    ASSUME CallOK, NEW th \in Threads, NEW c \in Calls \cup {Idle}, call' = [call EXCEPT ![th] = c]
    PROVE  CallOK' /\ call'[th] = c /\ \A o \in Threads \ {th} : call'[o] = call[o]
BY DEF CallOK

LEMMA TokenIssued ==
    ASSUME TypeOK, NEW k \in Kinds, NEW e \in Events, NEW cb \in Cbs, NEW u \in Users,
           store'[e].generation \in Nat, regs < MaxReg,
           tokens' = Append(tokens, Token(k, e, cb, u))
    PROVE  Token(k, e, cb, u) \in Issued /\ TokensOK'
<1>1. regs + 1 \in 1 .. MaxReg
  BY EventBusAssumption DEF TypeOK
<1>2. Token(k, e, cb, u) \in Issued
  BY <1>1 DEF Token, Issued
<1> QED  BY <1>2 DEF TokensOK, TypeOK

\* What a step leaves alone stays typed.
LEMMA TypesStay ==
    ASSUME TypeOK
    PROVE  /\ UNCHANGED <<up, regs, emits>> => NumbersOK'
           /\ UNCHANGED <<store, up>> => StoreOK'
           /\ UNCHANGED <<domains, up>> => DomainsOK'
           /\ UNCHANGED tokens => TokensOK'
           /\ UNCHANGED call => CallOK'
           /\ UNCHANGED queued => QueuedOK'
<1> USE TypeParts
<1>1. UNCHANGED <<up, regs, emits>> => NumbersOK'
  BY DEF NumbersOK
<1>2. UNCHANGED <<store, up>> => StoreOK'
  BY DEF StoreOK
<1>3. UNCHANGED <<domains, up>> => DomainsOK'
  BY DEF DomainsOK
<1>4. (UNCHANGED tokens => TokensOK') /\ (UNCHANGED call => CallOK')
  BY DEF TokensOK, CallOK
<1>5. UNCHANGED queued => QueuedOK'
  BY DEF QueuedOK
<1> QED  BY <1>1, <1>2, <1>3, <1>4, <1>5

\* The parts of TypeOK, primed.
LEMMA TypePartsNext ==
    ASSUME NumbersOK', StoreOK', DomainsOK', TokensOK', CallOK', QueuedOK'
    PROVE  TypeOK'
BY DEF TypeOK, NumbersOK, StoreOK, DomainsOK, TokensOK, CallOK, QueuedOK

LEMMA InitTypes == Init => TypeOK
<1> SUFFICES ASSUME Init PROVE TypeOK
  OBVIOUS
<1>1. NumbersOK
  <2>1. MaxReg \in Nat /\ MaxEmit \in Nat
    BY EventBusAssumption
  <2>2. regs \in 0 .. MaxReg /\ emits \in 0 .. MaxEmit
    BY <2>1 DEF Init
  <2> QED  BY <2>2 DEF Init, NumbersOK
<1>2. StoreOK /\ DomainsOK
  BY DEF Init, StoreOK, DomainsOK
<1>3. TokensOK
  BY DEF Init, TokensOK
<1>4. CallOK /\ QueuedOK
  BY DEF Init, CallOK, QueuedOK
<1> QED  BY <1>1, <1>2, <1>3, <1>4, TypeParts

LEMMA AdministeringTypes ==
    ASSUME TypeOK, NEW th \in Threads, Administering(th)
    PROVE  TypeOK'
<1> USE TypeParts
<1>1. CASE EventInit(th)
  <2>1. NumbersOK' /\ StoreOK' /\ DomainsOK'
    BY <1>1 DEF EventInit, NumbersOK, StoreOK, DomainsOK
  <2>2. TokensOK' /\ CallOK' /\ QueuedOK'
    BY <1>1, TypesStay DEF EventInit
  <2> QED  BY <2>1, <2>2, TypePartsNext
<1>2. CASE EventShutdown(th)
  <2>1. NumbersOK' /\ StoreOK' /\ DomainsOK'
    BY <1>2 DEF EventShutdown, NumbersOK, StoreOK, DomainsOK
  <2>2. TokensOK' /\ CallOK' /\ QueuedOK'
    BY <1>2, TypesStay DEF EventShutdown
  <2> QED  BY <2>1, <2>2, TypePartsNext
<1>3. ASSUME NEW d \in Domains, NEW disp \in Dispatchers, DomainRegister(th, d, disp)
      PROVE  TypeOK'
  <2>1. DomainsOK'
    BY <1>3 DEF DomainRegister, DomainsOK
  <2>2. NumbersOK' /\ StoreOK' /\ TokensOK' /\ CallOK' /\ QueuedOK'
    BY <1>3, TypesStay DEF DomainRegister
  <2> QED  BY <2>1, <2>2, TypePartsNext
<1>4. ASSUME NEW d \in Domains, DomainUnregister(th, d)
      PROVE  TypeOK'
  <2>1. DomainsOK'
    BY <1>4 DEF DomainUnregister, DomainsOK
  <2>2. NumbersOK' /\ StoreOK' /\ TokensOK' /\ CallOK' /\ QueuedOK'
    BY <1>4, TypesStay DEF DomainUnregister
  <2> QED  BY <2>1, <2>2, TypePartsNext
<1> QED  BY <1>1, <1>2, <1>3, <1>4 DEF Administering

\* A registration, with or without a token.
LEMMA AddTypes ==
    ASSUME TypeOK, NEW k \in Kinds, NEW e \in Events, NEW cb \in Cbs, NEW u \in Users,
           NEW disp \in Dispatchers \cup {Sync}, NEW dom \in Domains \cup {None}, NEW bump \in BOOLEAN,
           Add(k, e, cb, u, disp, dom, bump), up, UNCHANGED <<up, domains, emits>>
    PROVE  /\ NumbersOK' /\ StoreOK' /\ DomainsOK'
           /\ tokens' = Append(tokens, Token(k, e, cb, u)) => Token(k, e, cb, u) \in Issued /\ TokensOK'
<1>1. regs' \in 0 .. MaxReg /\ store' \in Stores /\ store'[e].generation \in Nat
  <2>1. regs' \in 0 .. MaxReg
    BY AddEffect
  <2>2. store' \in Stores
    BY AddEffect
  <2>3. store'[e].generation \in Nat
    BY AddEffect
  <2> QED  BY <2>1, <2>2, <2>3
<1>2. NumbersOK'
  <2>1. NumbersOK /\ up' = up /\ emits' = emits
    BY TypeParts
  <2> QED  BY <1>1, <2>1 DEF NumbersOK
<1>3. StoreOK'
  BY <1>1 DEF StoreOK, Stores
<1>4. DomainsOK'
  BY TypesStay
<1>5. regs < MaxReg
  BY DEF Add
<1> QED  BY <1>1, <1>2, <1>3, <1>4, <1>5, TokenIssued

LEMMA RegisteringTypes ==
    ASSUME TypeOK, NEW th \in Threads, Registering(th)
    PROVE  TypeOK'
<1> SUFFICES ASSUME NEW k \in Kinds, NEW e \in Events, NEW cb \in Cbs, NEW u \in Users,
                    \/ \E disp \in Dispatchers \cup {Sync} :
                          EventOn(th, k, e, cb, u, disp) \/ EventOnToken(th, k, e, cb, u, disp)
                    \/ \E d \in Domains : DomainOnLookup(th, k, e, cb, u, d)
             PROVE  TypeOK'
  BY DEF Registering
<1>1. ASSUME NEW disp \in Dispatchers \cup {Sync}, EventOn(th, k, e, cb, u, disp) PROVE TypeOK'
  <2>1. /\ Add(k, e, cb, u, disp, None, k = "text") /\ up
        /\ UNCHANGED <<up, domains, tokens, queued, call, emits>>
    BY <1>1 DEF EventOn
  <2>2. NumbersOK' /\ StoreOK' /\ DomainsOK'
    BY <2>1, AddTypes
  <2>3. TokensOK' /\ CallOK' /\ QueuedOK'
    BY <2>1, TypesStay
  <2> QED  BY <2>2, <2>3, TypePartsNext
<1>2. ASSUME NEW disp \in Dispatchers \cup {Sync}, EventOnToken(th, k, e, cb, u, disp) PROVE TypeOK'
  <2>1. /\ Add(k, e, cb, u, disp, None, TRUE) /\ up
        /\ tokens' = Append(tokens, Token(k, e, cb, u))
        /\ UNCHANGED <<up, domains, queued, call, emits>>
    BY <1>2 DEF EventOnToken
  <2>2. NumbersOK' /\ StoreOK' /\ DomainsOK' /\ TokensOK'
    BY <2>1, AddTypes
  <2>3. CallOK' /\ QueuedOK'
    BY <2>1, TypesStay
  <2> QED  BY <2>2, <2>3, TypePartsNext
<1>3. ASSUME NEW d \in Domains, DomainOnLookup(th, k, e, cb, u, d) PROVE TypeOK'
  <2> DEFINE c == [op |-> "register", kind |-> k, event |-> e, cb |-> cb, user |-> u,
                   disp |-> domains[d], domain |-> d]
  <2>1. domains[d] \in Dispatchers
    BY <1>3 DEF DomainOnLookup, TypeOK
  <2>2. c \in Calls
    BY <2>1 DEF Calls, RegisterCalls
  <2>3. call' = [call EXCEPT ![th] = c] /\ UNCHANGED <<registry, queued, emits>>
    BY <1>3 DEF DomainOnLookup
  <2> HIDE DEF c
  <2>4. CallOK'
    BY <2>2, <2>3, TypeParts DEF CallOK
  <2>5. NumbersOK' /\ StoreOK' /\ DomainsOK' /\ TokensOK' /\ QueuedOK'
    BY <2>3, TypesStay DEF registry
  <2> QED  BY <2>4, <2>5, TypePartsNext
<1> QED  BY <1>1, <1>2, <1>3

LEMMA RemovingTypes ==
    ASSUME TypeOK, NEW th \in Threads, Removing(th)
    PROVE  TypeOK'
<1>1. ASSUME NEW k \in Kinds, NEW e \in Events, NEW cb, NEW u, EventOff(th, k, e, cb, u)
      PROVE  TypeOK'
  <2>1. /\ store' \in [Events -> Entry \cup {Absent}]
        /\ \A f \in Events : store'[f] # Absent => store[f] # Absent
    BY <1>1, OffEffect
  <2>2. UNCHANGED <<up, domains, tokens, regs, queued, call, emits>>
    BY <1>1 DEF EventOff
  <2>3. StoreOK'
    BY <2>1, <2>2, TypeParts DEF StoreOK
  <2>4. NumbersOK' /\ DomainsOK' /\ TokensOK' /\ CallOK' /\ QueuedOK'
    BY <2>2, TypesStay
  <2> QED  BY <2>3, <2>4, TypePartsNext
<1>2. ASSUME NEW t \in DOMAIN tokens, OffCheck(th, t) PROVE TypeOK'
  <2> DEFINE c == [op |-> "off", tok |-> t]
  <2>1. t \in Nat
    BY DEF TypeOK
  <2>2. c \in Calls
    BY <2>1 DEF Calls, OffCalls
  <2>3. call' = [call EXCEPT ![th] = c] /\ UNCHANGED <<registry, queued, emits>>
    BY <1>2 DEF OffCheck
  <2> HIDE DEF c
  <2>4. CallOK'
    BY <2>2, <2>3, TypeParts DEF CallOK
  <2>5. NumbersOK' /\ StoreOK' /\ DomainsOK' /\ TokensOK' /\ QueuedOK'
    BY <2>3, TypesStay DEF registry
  <2> QED  BY <2>4, <2>5, TypePartsNext
<1> QED  BY <1>1, <1>2 DEF Removing

\* The steps of an emit, as the thread's next call.
LEMMA EmitMoves ==
    ASSUME TypeOK, NEW th \in Threads
    PROVE  /\ EmitNomatch(th) => \E c \in EmitCalls :
                  /\ call' = [call EXCEPT ![th] = c]
                  /\ c.op = "fire" /\ c.route = "nomatch" /\ c.n = call[th].n
           /\ EmitFire(th) => \E c \in EmitCalls :
                  /\ call' = [call EXCEPT ![th] = c] /\ First(call[th].rest) \in Listener
                  /\ c.op = call[th].op /\ c.route = call[th].route /\ c.n = call[th].n
<1>1. ASSUME EmitNomatch(th)
      PROVE  \E c \in EmitCalls : /\ call' = [call EXCEPT ![th] = c]
                                  /\ c.op = "fire" /\ c.route = "nomatch" /\ c.n = call[th].n
  <2> DEFINE c == [call[th] EXCEPT !.op = "fire", !.route = "nomatch", !.rest = Listeners(NOMATCH, "text")]
  <2>1. call[th] \in EmitCalls
    BY <1>1, CallShape DEF EmitNomatch
  <2>2. Listeners(NOMATCH, "text") \subseteq Listener
    <3>1. NOMATCH \in Events /\ "text" \in Arrays
      BY EventBusAssumption DEF Arrays
    <3> QED  BY <3>1, ListenersTyped
  <2>3. c \in EmitCalls /\ c.op = "fire" /\ c.route = "nomatch" /\ c.n = call[th].n
    BY <2>1, <2>2 DEF EmitCalls
  <2>4. call' = [call EXCEPT ![th] = c]
    BY <1>1 DEF EmitNomatch, TypeOK
  <2> HIDE DEF c
  <2> QED  BY <2>3, <2>4
<1>2. ASSUME EmitFire(th)
      PROVE  \E c \in EmitCalls : /\ call' = [call EXCEPT ![th] = c] /\ First(call[th].rest) \in Listener
                                  /\ c.op = call[th].op /\ c.route = call[th].route /\ c.n = call[th].n
  <2> DEFINE l == First(call[th].rest)
             c == [call[th] EXCEPT !.rest = call[th].rest \ {l}]
  <2>1. call[th] \in EmitCalls
    BY <1>2, CallShape DEF EmitFire
  <2>2. call[th].rest \subseteq Listener
    BY <2>1 DEF EmitCalls
  <2>3. l \in Listener
    BY <1>2, <2>2, FirstIsOne DEF EmitFire
  <2>4. call' = [call EXCEPT ![th] = c]
    BY <1>2 DEF EmitFire, TypeOK
  <2> HIDE DEF l
  <2>5. c \in EmitCalls /\ c.op = call[th].op /\ c.route = call[th].route /\ c.n = call[th].n
    BY <2>1, <2>2 DEF EmitCalls
  <2> HIDE DEF c
  <2> QED  BY <2>3, <2>4, <2>5 DEF l
<1> QED  BY <1>1, <1>2

LEMMA ProceedingTypes ==
    ASSUME TypeOK, OffHasToken, NEW th \in Threads, Proceeding(th)
    PROVE  TypeOK'
<1>0. Idle \in Calls \cup {Idle} /\ EmitCalls \subseteq Calls \cup {Idle} /\ CallOK
  BY TypeParts DEF Calls
<1>1. CASE DomainOnRegister(th)
  <2> DEFINE c == call[th]
  <2>1. c \in RegisterCalls
    BY <1>1, CallShape DEF DomainOnRegister
  <2>2. CASE ~up
    <3>1. call' = [call EXCEPT ![th] = Idle] /\ UNCHANGED <<store, tokens, regs, up, domains, queued, emits>>
      BY <1>1, <2>2 DEF DomainOnRegister
    <3>2. CallOK'
      BY <1>0, <3>1, CallMoves
    <3>3. NumbersOK' /\ StoreOK' /\ DomainsOK' /\ TokensOK' /\ QueuedOK'
      BY <3>1, TypesStay
    <3> QED  BY <3>2, <3>3, TypePartsNext
  <2>3. CASE up
    <3>1. /\ c.kind \in Kinds /\ c.event \in Events /\ c.cb \in Cbs /\ c.user \in Users
          /\ c.disp \in Dispatchers \cup {Sync} /\ c.domain \in Domains \cup {None} /\ TRUE \in BOOLEAN
      BY <2>1 DEF RegisterCalls
    <3>2. /\ Add(c.kind, c.event, c.cb, c.user, c.disp, c.domain, TRUE)
          /\ tokens' = Append(tokens, Token(c.kind, c.event, c.cb, c.user))
          /\ UNCHANGED <<up, domains, queued, emits>>
      BY <1>1, <2>3 DEF DomainOnRegister
    <3> DEFINE d == IF c.kind = "text" THEN [c EXCEPT !.op = "mark"] ELSE Idle
    <3>3. call' = [call EXCEPT ![th] = d]
      BY <1>1, <2>3 DEF DomainOnRegister
    <3>4. d \in Calls \cup {Idle}
      <4>1. [c EXCEPT !.op = "mark"] \in RegisterCalls
        BY <2>1 DEF RegisterCalls
      <4> QED  BY <4>1 DEF Calls
    <3> HIDE DEF c, d
    <3>5. NumbersOK' /\ StoreOK' /\ DomainsOK' /\ TokensOK'
      BY <2>3, <3>1, <3>2, AddTypes
    <3>6. CallOK'
      BY <1>0, <3>3, <3>4, CallMoves
    <3>7. QueuedOK'
      BY <3>2, TypesStay
    <3> QED  BY <3>5, <3>6, <3>7, TypePartsNext
  <2> QED  BY <2>2, <2>3
<1>2. CASE DomainOnMark(th)
  <2>1. call' = [call EXCEPT ![th] = Idle] /\ UNCHANGED <<up, domains, tokens, regs, queued, emits>>
    BY <1>2 DEF DomainOnMark
  <2>2. CallOK'
    BY <1>0, <2>1, CallMoves
  <2>3. StoreOK'
    <3>1. CASE ~up
      BY <1>2, <2>1, <3>1, TypesStay DEF DomainOnMark
    <3>2. CASE up
      <4>1. store' \in [Events -> Entry \cup {Absent}]
        BY <1>2, <3>2, MarkEffect
      <4> QED  BY <2>1, <3>2, <4>1 DEF StoreOK
    <3> QED  BY <3>1, <3>2
  <2>4. NumbersOK' /\ DomainsOK' /\ TokensOK' /\ QueuedOK'
    BY <2>1, TypesStay
  <2> QED  BY <2>2, <2>3, <2>4, TypePartsNext
<1>3. CASE OffLocked(th)
  <2>1. /\ call' = [call EXCEPT ![th] = Idle] /\ UNCHANGED <<up, domains, regs, queued, emits>>
        /\ tokens' = [tokens EXCEPT ![call[th].tok].active = FALSE]
    BY <1>3 DEF OffLocked
  <2>2. CallOK'
    BY <1>0, <2>1, CallMoves
  <2>3. /\ store' \in [Events -> Entry \cup {Absent}] /\ call[th].tok \in DOMAIN tokens
        /\ \A f \in Events : store'[f] # Absent => store[f] # Absent
    BY <1>3, OffLockedEffect
  <2>4. StoreOK'
    BY <2>1, <2>3, TypeParts DEF StoreOK
  <2>5. TokensOK'
    <3> DEFINE t == [tokens[call[th].tok] EXCEPT !.active = FALSE]
    <3>1. tokens[call[th].tok] \in Issued
      BY <2>3 DEF TypeOK
    <3>2. t \in Issued
      BY <3>1 DEF Issued
    <3>3. tokens' = [tokens EXCEPT ![call[th].tok] = t]
      BY <2>1
    <3> HIDE DEF t
    <3> QED  BY <2>3, <3>2, <3>3 DEF TokensOK, TypeOK
  <2>6. NumbersOK' /\ DomainsOK' /\ QueuedOK'
    BY <2>1, TypesStay
  <2> QED  BY <2>2, <2>4, <2>5, <2>6, TypePartsNext
<1>4. CASE EmitNomatch(th)
  <2>1. PICK c \in EmitCalls : call' = [call EXCEPT ![th] = c]
    BY <1>4, EmitMoves
  <2>2. CallOK'
    BY <1>0, <2>1, CallMoves
  <2>3. NumbersOK' /\ StoreOK' /\ DomainsOK' /\ TokensOK' /\ QueuedOK'
    BY <1>4, TypesStay DEF EmitNomatch, registry
  <2> QED  BY <2>2, <2>3, TypePartsNext
<1>5. CASE EmitFire(th)
  <2>1. PICK c \in EmitCalls : call' = [call EXCEPT ![th] = c]
    BY <1>5, EmitMoves
  <2>2. CallOK'
    BY <1>0, <2>1, CallMoves
  <2>3. QueuedOK'
    <3> DEFINE l == First(call[th].rest)
               q == [n |-> call[th].n, id |-> l.id, disp |-> l.disp, kind |-> call[th].kind,
                     domain |-> l.domain, cptr |-> Handed(l, call[th].kind)]
    <3>1. l \in Listener
      BY <1>5, EmitMoves
    <3>2. queued' = IF l.disp = Sync THEN queued ELSE queued \cup {q}
      BY <1>5 DEF EmitFire
    <3>3. l.disp # Sync => q.disp \in Dispatchers
      BY <3>1 DEF Listener
    <3>4. q.cptr \in {Null, Conn}
      BY DEF Handed
    <3> HIDE DEF l, q
    <3> QED  BY <3>2, <3>3, <3>4, TypeParts DEF QueuedOK
  <2>4. NumbersOK' /\ StoreOK' /\ DomainsOK' /\ TokensOK'
    BY <1>5, TypesStay DEF EmitFire, registry
  <2> QED  BY <2>2, <2>3, <2>4, TypePartsNext
<1>6. CASE EmitReturn(th)
  <2>1. call' = [call EXCEPT ![th] = Idle] /\ UNCHANGED <<registry, queued, emits>>
    BY <1>6 DEF EmitReturn
  <2>2. CallOK'
    BY <1>0, <2>1, CallMoves
  <2>3. NumbersOK' /\ StoreOK' /\ DomainsOK' /\ TokensOK' /\ QueuedOK'
    BY <2>1, TypesStay DEF registry
  <2> QED  BY <2>2, <2>3, TypePartsNext
<1> QED  BY <1>1, <1>2, <1>3, <1>4, <1>5, <1>6 DEF Proceeding

LEMMA SnapshotMoves ==
    ASSUME TypeOK, NEW th \in Threads, NEW k \in Kinds, NEW e \in Events, EmitSnapshot(th, k, e)
    PROVE  /\ emits' = emits + 1 /\ emits' \in 0 .. MaxEmit
           /\ \E c \in EmitCalls : /\ call' = [call EXCEPT ![th] = c] /\ c.n = emits + 1 /\ c.route = "own"
                                   /\ c.op = "nomatch" => c.rest = {}
<1> DEFINE ls == Listeners(e, k)
           c == [op |-> AfterSnapshot(ls, k), kind |-> k, event |-> e, n |-> emits + 1, route |-> "own", rest |-> ls]
<1>1. emits' = emits + 1 /\ emits' \in 0 .. MaxEmit /\ emits + 1 \in 1 .. MaxEmit
  <2>1. emits' = emits + 1 /\ emits < MaxEmit
    BY DEF EmitSnapshot
  <2>2. emits \in 0 .. MaxEmit /\ MaxEmit \in Nat
    BY EventBusAssumption DEF TypeOK
  <2> QED  BY <2>1, <2>2
<1>2. ls \subseteq Listener
  BY KindsAreArrays, ListenersTyped
<1>3. AfterSnapshot(ls, k) \in {"fire", "nomatch"} /\ (AfterSnapshot(ls, k) = "nomatch" => ls = {})
  BY DEF AfterSnapshot
<1>4. call' = [call EXCEPT ![th] = c]
  BY DEF EmitSnapshot
<1> HIDE DEF ls
<1>5. c \in EmitCalls /\ c.n = emits + 1 /\ c.route = "own" /\ (c.op = "nomatch" => c.rest = {})
  BY <1>1, <1>2, <1>3 DEF EmitCalls
<1> HIDE DEF c
<1> QED  BY <1>1, <1>4, <1>5

LEMMA StepTypes == TypeOK /\ OffHasToken /\ [Next]_vars => TypeOK'
<1> SUFFICES ASSUME TypeOK, OffHasToken, [Next]_vars PROVE TypeOK'
  OBVIOUS
<1>1. ASSUME NEW th \in Threads, NEW k \in Kinds, NEW e \in Events, EmitSnapshot(th, k, e) PROVE TypeOK'
  <2>1. PICK c \in EmitCalls : call' = [call EXCEPT ![th] = c]
    BY <1>1, SnapshotMoves
  <2>2. CallOK'
    <3>1. CallOK /\ c \in Calls \cup {Idle}
      BY TypeParts DEF Calls
    <3> QED  BY <2>1, <3>1, CallMoves
  <2>3. emits' \in 0 .. MaxEmit /\ UNCHANGED <<registry, queued>>
    BY <1>1, SnapshotMoves DEF EmitSnapshot
  <2>4. NumbersOK'
    BY <2>3, TypeParts DEF NumbersOK, registry
  <2>5. StoreOK' /\ DomainsOK' /\ TokensOK' /\ QueuedOK'
    BY <2>3, TypesStay DEF registry
  <2> QED  BY <2>2, <2>4, <2>5, TypePartsNext
<1>2. ASSUME NEW q \in queued, DispatchRun(q) PROVE TypeOK'
  <2>1. QueuedOK'
    BY <1>2, TypeParts DEF DispatchRun, QueuedOK
  <2>2. NumbersOK' /\ StoreOK' /\ DomainsOK' /\ TokensOK' /\ CallOK'
    BY <1>2, TypesStay DEF DispatchRun, registry
  <2> QED  BY <2>1, <2>2, TypePartsNext
<1>3. CASE UNCHANGED vars
  BY <1>3, TypesStay, TypePartsNext DEF vars, registry
<1> QED  BY <1>1, <1>2, <1>3, AdministeringTypes, RegisteringTypes, RemovingTypes, ProceedingTypes DEF Next

-----------------------------------------------------------------------------
(* Emits: whom an event reached, and the fallback.                         *)

Emitting(th) == call[th].op \in {"fire", "nomatch"}

\* An emit that may still ask NOMATCH has reached nobody; one that goes through the
\* event's own listeners has not asked it, and one that asked it reached none of them.
EmitKnows(th) ==
    LET n == call[th].n IN
    /\ n <= emits
    /\ call[th].op = "nomatch" =>
          /\ call[th].rest = {} /\ call[th].route = "own" /\ <<n, "own">> \notin heard
    /\ call[th].route = "own" => <<n, "nomatch">> \notin heard
    /\ call[th].route = "nomatch" => <<n, "own">> \notin heard

EmitInv ==
    /\ \A th \in Threads : Emitting(th) => EmitKnows(th)
    /\ \A th, o \in Threads : Emitting(th) /\ Emitting(o) /\ call[th].n = call[o].n => th = o
    /\ \A n \in Nat : n > emits => <<n, "own">> \notin heard /\ <<n, "nomatch">> \notin heard
    /\ NomatchIsFallback

\* Steps that are no emit's.
LEMMA QuietKeepsEmits ==
    ASSUME EmitInv, heard' = heard, emits' = emits,
           \A o \in Threads : call'[o].op \in {"fire", "nomatch"} => call'[o] = call[o]
    PROVE  EmitInv'
BY DEF EmitInv, EmitKnows, Emitting, NomatchIsFallback

\* The call of one thread moves on, and no emit is involved.
LEMMA OneMoves ==
    ASSUME TypeOK, NEW th \in Threads, NEW c, call' = [call EXCEPT ![th] = c],
           c.op \notin {"fire", "nomatch"}
    PROVE  \A o \in Threads : call'[o].op \in {"fire", "nomatch"} => call'[o] = call[o]
BY DEF TypeOK

LEMMA OffTokensStay ==
    ASSUME OffHasToken, DOMAIN tokens \subseteq DOMAIN tokens',
           \A o \in Threads : call'[o].op = "off" => call'[o] = call[o] \/ call'[o].tok \in DOMAIN tokens
    PROVE  OffHasToken'
BY DEF OffHasToken

LEMMA SnapshotKeepsEmits ==
    ASSUME TypeOK, EmitInv, NEW th \in Threads, NEW k \in Kinds, NEW e \in Events, EmitSnapshot(th, k, e)
    PROVE  EmitInv'
<1>1. PICK c \in EmitCalls : /\ call' = [call EXCEPT ![th] = c] /\ c.n = emits + 1 /\ c.route = "own"
                             /\ c.op = "nomatch" => c.rest = {}
  BY SnapshotMoves
<1>2. call'[th] = c /\ \A o \in Threads \ {th} : call'[o] = call[o]
  BY <1>1 DEF TypeOK
<1>3. emits \in Nat /\ emits' = emits + 1 /\ heard' = heard
  BY SnapshotMoves DEF TypeOK, EmitSnapshot
<1>4. \A o \in Threads : Emitting(o) => call[o].n \in Nat
  BY CallShape DEF Emitting, EmitCalls
<1>5. ASSUME NEW o \in Threads, Emitting(o)' PROVE EmitKnows(o)'
  <2>1. CASE o = th
    BY <1>1, <1>2, <1>3, <2>1 DEF EmitInv, EmitKnows
  <2>2. CASE o # th
    BY <1>2, <1>3, <1>4, <1>5, <2>2 DEF EmitInv, EmitKnows, Emitting
  <2> QED  BY <2>1, <2>2
<1>6. \A o, p \in Threads : Emitting(o)' /\ Emitting(p)' /\ call'[o].n = call'[p].n => o = p
  <2>1. \A o \in Threads \ {th} : Emitting(o)' => Emitting(o) /\ call'[o].n = call[o].n
    BY <1>2 DEF Emitting
  <2>2. \A o \in Threads : Emitting(o) => call[o].n <= emits
    BY DEF EmitInv, EmitKnows
  <2>3. \A o \in Threads \ {th} : Emitting(o)' => call'[o].n # call'[th].n
    BY <1>1, <1>2, <1>3, <1>4, <2>1, <2>2
  <2> QED  BY <2>1, <2>3 DEF EmitInv
<1>7. \A n \in Nat : n > emits' => <<n, "own">> \notin heard' /\ <<n, "nomatch">> \notin heard'
  BY <1>3 DEF EmitInv
<1>8. NomatchIsFallback'
  <2> SUFFICES ASSUME NEW n \in 1 .. emits' PROVE ~({<<n, "own">>, <<n, "nomatch">>} \subseteq heard')
    BY DEF NomatchIsFallback
  <2>1. CASE n \in 1 .. emits
    BY <1>3, <2>1 DEF EmitInv, NomatchIsFallback
  <2>2. CASE n = emits + 1
    BY <1>3, <2>2 DEF EmitInv
  <2> QED  BY <1>3, <2>1, <2>2
<1> QED  BY <1>5, <1>6, <1>7, <1>8 DEF EmitInv

LEMMA NomatchKeepsEmits ==
    ASSUME TypeOK, EmitInv, NEW th \in Threads, EmitNomatch(th)
    PROVE  EmitInv'
<1>1. PICK c \in EmitCalls : /\ call' = [call EXCEPT ![th] = c]
                             /\ c.op = "fire" /\ c.route = "nomatch" /\ c.n = call[th].n
  BY EmitMoves
<1>2. call'[th] = c /\ \A o \in Threads \ {th} : call'[o] = call[o]
  BY <1>1 DEF TypeOK
<1>3. emits' = emits /\ heard' = heard /\ call[th].op = "nomatch"
  BY DEF EmitNomatch
<1> QED  BY <1>1, <1>2, <1>3 DEF EmitInv, EmitKnows, Emitting, NomatchIsFallback

LEMMA FireKeepsEmits ==
    ASSUME TypeOK, EmitInv, NEW th \in Threads, EmitFire(th)
    PROVE  EmitInv'
<1> DEFINE n == call[th].n  r == call[th].route
<1>1. PICK c \in EmitCalls : /\ call' = [call EXCEPT ![th] = c]
                             /\ c.op = call[th].op /\ c.route = r /\ c.n = n
  BY EmitMoves
<1>2. call'[th] = c /\ \A o \in Threads \ {th} : call'[o] = call[o]
  BY <1>1 DEF TypeOK
<1>3. emits' = emits /\ heard' = heard \cup {<<n, r>>} /\ call[th].op \in {"fire", "nomatch"} /\ call[th].rest # {}
  BY DEF EmitFire
<1>4. Emitting(th) /\ EmitKnows(th) /\ call[th].op = "fire"
  BY <1>3 DEF Emitting, EmitInv, EmitKnows
<1>5. r \in {"own", "nomatch"} /\ n \in Nat /\ n <= emits /\ emits \in Nat
  <2>1. call[th] \in EmitCalls
    BY <1>4, CallShape
  <2>2. r \in {"own", "nomatch"} /\ n \in 1 .. MaxEmit
    BY <2>1 DEF EmitCalls
  <2> QED  BY <1>4, <2>2 DEF EmitKnows, TypeOK
<1> HIDE DEF n, r
<1>6. ASSUME NEW o \in Threads, Emitting(o)' PROVE EmitKnows(o)'
  <2>1. CASE o = th
    <3>1. /\ r = "own" => <<n, "nomatch">> \notin heard
          /\ r = "nomatch" => <<n, "own">> \notin heard
      BY <1>4 DEF EmitKnows, n, r
    <3> QED  BY <1>1, <1>2, <1>3, <1>4, <1>5, <2>1, <3>1 DEF EmitKnows
  <2>2. CASE o # th
    <3>1. call[o].n # n /\ EmitKnows(o) /\ call'[o] = call[o]
      BY <1>2, <1>4, <1>6, <2>2 DEF EmitInv, Emitting, n
    <3> QED  BY <1>3, <3>1 DEF EmitKnows
  <2> QED  BY <2>1, <2>2
<1>7. \A o, p \in Threads : Emitting(o)' /\ Emitting(p)' /\ call'[o].n = call'[p].n => o = p
  BY <1>1, <1>2, <1>4 DEF EmitInv, Emitting, n
<1>8. \A m \in Nat : m > emits' => <<m, "own">> \notin heard' /\ <<m, "nomatch">> \notin heard'
  BY <1>3, <1>5 DEF EmitInv
<1>9. NomatchIsFallback'
  <2>1. /\ r = "own" => <<n, "nomatch">> \notin heard
        /\ r = "nomatch" => <<n, "own">> \notin heard
    BY <1>4 DEF EmitKnows, n, r
  <2> QED  BY <1>3, <1>5, <2>1 DEF EmitInv, NomatchIsFallback
<1> QED  BY <1>6, <1>7, <1>8, <1>9 DEF EmitInv

-----------------------------------------------------------------------------
(* Steps in general: how tokens and calls move.                            *)

\* A step that is no emit's: at most one thread's call moves, to none, to a
\* registration or to a removal by a token that was issued.
Quiet ==
    /\ heard' = heard /\ emits' = emits /\ DOMAIN tokens \subseteq DOMAIN tokens'
    /\ \A o \in Threads :
         \/ call'[o] = call[o]
         \/ call'[o].op \in {"idle", "register", "mark"}
         \/ call'[o].op = "off" /\ call'[o].tok \in DOMAIN tokens

LEMMA QuietCall ==
    ASSUME TypeOK, NEW th \in Threads, NEW c, call' = [call EXCEPT ![th] = c],
           c.op \in {"idle", "register", "mark"} \/ (c.op = "off" /\ c.tok \in DOMAIN tokens),
           heard' = heard, emits' = emits, DOMAIN tokens \subseteq DOMAIN tokens'
    PROVE  Quiet
<1>1. call'[th] = c /\ \A o \in Threads \ {th} : call'[o] = call[o]
  BY DEF TypeOK
<1> QED  BY <1>1 DEF Quiet

LEMMA IdleIsQuiet ==
    ASSUME TypeOK, NEW th \in Threads, call' = [call EXCEPT ![th] = Idle],
           heard' = heard, emits' = emits, DOMAIN tokens \subseteq DOMAIN tokens'
    PROVE  Quiet
<1>1. Idle.op \in {"idle", "register", "mark"}
  BY DEF Idle
<1> QED  BY <1>1, QuietCall

LEMMA QuietKeeps ==
    ASSUME OffHasToken, EmitInv, Quiet
    PROVE  OffHasToken' /\ EmitInv'
<1>1. OffHasToken'
  BY OffTokensStay DEF Quiet
<1>2. EmitInv'
  BY QuietKeepsEmits DEF Quiet
<1> QED  BY <1>1, <1>2

LEMMA RegisteringIsQuiet ==
    ASSUME TypeOK, NEW th \in Threads, Registering(th)
    PROVE  Quiet
<1> SUFFICES ASSUME NEW k \in Kinds, NEW e \in Events, NEW cb \in Cbs, NEW u \in Users,
                    \/ \E disp \in Dispatchers \cup {Sync} :
                          EventOn(th, k, e, cb, u, disp) \/ EventOnToken(th, k, e, cb, u, disp)
                    \/ \E d \in Domains : DomainOnLookup(th, k, e, cb, u, d)
             PROVE  Quiet
  BY DEF Registering
<1>1. ASSUME NEW disp, EventOn(th, k, e, cb, u, disp) PROVE Quiet
  BY <1>1 DEF EventOn, Quiet
<1>2. ASSUME NEW disp, EventOnToken(th, k, e, cb, u, disp) PROVE Quiet
  <2>1. tokens' = Append(tokens, Token(k, e, cb, u)) /\ UNCHANGED <<call, emits, heard>>
    BY <1>2 DEF EventOnToken
  <2>2. DOMAIN tokens \subseteq DOMAIN tokens'
    BY <2>1, TokenAppended DEF TypeOK
  <2> QED  BY <2>1, <2>2 DEF Quiet
<1>3. ASSUME NEW d \in Domains, DomainOnLookup(th, k, e, cb, u, d) PROVE Quiet
  <2> DEFINE c == [op |-> "register", kind |-> k, event |-> e, cb |-> cb, user |-> u,
                   disp |-> domains[d], domain |-> d]
  <2>1. call' = [call EXCEPT ![th] = c] /\ UNCHANGED <<tokens, emits, heard>>
    BY <1>3 DEF DomainOnLookup, registry
  <2>2. c.op = "register"
    OBVIOUS
  <2> HIDE DEF c
  <2> QED  BY <2>1, <2>2, QuietCall
<1> QED  BY <1>1, <1>2, <1>3

LEMMA RemovingIsQuiet ==
    ASSUME TypeOK, NEW th \in Threads, Removing(th)
    PROVE  Quiet
<1>1. ASSUME NEW k, NEW e, NEW cb, NEW u, EventOff(th, k, e, cb, u) PROVE Quiet
  BY <1>1 DEF EventOff, Quiet
<1>2. ASSUME NEW t \in DOMAIN tokens, OffCheck(th, t) PROVE Quiet
  <2> DEFINE c == [op |-> "off", tok |-> t]
  <2>1. call' = [call EXCEPT ![th] = c] /\ UNCHANGED <<tokens, emits, heard>>
    BY <1>2 DEF OffCheck, registry
  <2>2. c.op = "off" /\ c.tok \in DOMAIN tokens
    OBVIOUS
  <2> HIDE DEF c
  <2> QED  BY <2>1, <2>2, QuietCall
<1> QED  BY <1>1, <1>2 DEF Removing

LEMMA AdministeringIsQuiet ==
    ASSUME NEW th \in Threads, Administering(th)
    PROVE  Quiet
<1>1. UNCHANGED <<tokens, call, emits, heard>>
  BY DEF Administering, EventInit, EventShutdown, DomainRegister, DomainUnregister
<1> QED  BY <1>1 DEF Quiet

LEMMA ProceedingIsQuiet ==
    ASSUME TypeOK, OffHasToken, NEW th \in Threads,
           DomainOnRegister(th) \/ DomainOnMark(th) \/ OffLocked(th) \/ EmitReturn(th)
    PROVE  Quiet
<1>1. CASE DomainOnRegister(th)
  <2>0. heard' = heard /\ emits' = emits
    BY <1>1 DEF DomainOnRegister
  <2>1. CASE ~up
    <3>1. call' = [call EXCEPT ![th] = Idle] /\ tokens' = tokens
      BY <1>1, <2>1 DEF DomainOnRegister
    <3> QED  BY <2>0, <3>1, IdleIsQuiet
  <2>2. CASE up
    <3> DEFINE c == call[th]
               d == IF c.kind = "text" THEN [c EXCEPT !.op = "mark"] ELSE Idle
    <3>1. /\ call' = [call EXCEPT ![th] = d]
          /\ tokens' = Append(tokens, Token(c.kind, c.event, c.cb, c.user))
      BY <1>1, <2>2 DEF DomainOnRegister
    <3>2. d.op \in {"idle", "mark"}
      <4>1. c \in RegisterCalls
        BY <1>1, CallShape DEF DomainOnRegister
      <4>2. [c EXCEPT !.op = "mark"].op = "mark"
        BY <4>1 DEF RegisterCalls
      <4> QED  BY <4>2 DEF Idle
    <3>3. DOMAIN tokens \subseteq DOMAIN tokens'
      BY <3>1, TokenAppended DEF TypeOK
    <3> HIDE DEF d
    <3> QED  BY <2>0, <3>1, <3>2, <3>3, QuietCall
  <2> QED  BY <2>1, <2>2
<1>2. CASE DomainOnMark(th) \/ EmitReturn(th)
  <2>1. call' = [call EXCEPT ![th] = Idle] /\ UNCHANGED <<tokens, emits, heard>>
    BY <1>2 DEF DomainOnMark, EmitReturn, registry
  <2> QED  BY <2>1, IdleIsQuiet
<1>3. CASE OffLocked(th)
  <2>1. /\ call' = [call EXCEPT ![th] = Idle] /\ UNCHANGED <<emits, heard>>
        /\ tokens' = [tokens EXCEPT ![call[th].tok].active = FALSE]
    BY <1>3 DEF OffLocked
  <2> QED  BY <2>1, IdleIsQuiet
<1> QED  BY <1>1, <1>2, <1>3

LEMMA EmitsKeepTokens ==
    ASSUME TypeOK, OffHasToken, NEW th \in Threads, NEW c \in EmitCalls, call' = [call EXCEPT ![th] = c],
           tokens' = tokens
    PROVE  OffHasToken'
<1>1. call'[th] = c /\ \A o \in Threads \ {th} : call'[o] = call[o]
  BY DEF TypeOK
<1>2. c.op # "off"
  BY DEF EmitCalls
<1> QED  BY <1>1, <1>2, OffTokensStay

BusInv == TypeOK /\ OffHasToken /\ EmitInv

LEMMA BusStep == BusInv /\ [Next]_vars => BusInv'
<1> SUFFICES ASSUME BusInv, [Next]_vars PROVE BusInv'
  OBVIOUS
<1>1. TypeOK /\ OffHasToken /\ EmitInv
  BY DEF BusInv
<1>2. TypeOK'
  BY <1>1, StepTypes
<1>3. ASSUME NEW th \in Threads, EmitNomatch(th) PROVE OffHasToken' /\ EmitInv'
  <2>1. PICK c \in EmitCalls : call' = [call EXCEPT ![th] = c]
    BY <1>1, <1>3, EmitMoves
  <2>2. tokens' = tokens
    BY <1>3 DEF EmitNomatch, registry
  <2> QED  BY <1>1, <1>3, <2>1, <2>2, EmitsKeepTokens, NomatchKeepsEmits
<1>4. ASSUME NEW th \in Threads, EmitFire(th) PROVE OffHasToken' /\ EmitInv'
  <2>1. PICK c \in EmitCalls : call' = [call EXCEPT ![th] = c]
    BY <1>1, <1>4, EmitMoves
  <2>2. tokens' = tokens
    BY <1>4 DEF EmitFire, registry
  <2> QED  BY <1>1, <1>4, <2>1, <2>2, EmitsKeepTokens, FireKeepsEmits
<1>5. ASSUME NEW th \in Threads, NEW k \in Kinds, NEW e \in Events, EmitSnapshot(th, k, e)
      PROVE  OffHasToken' /\ EmitInv'
  <2>1. PICK c \in EmitCalls : call' = [call EXCEPT ![th] = c]
    BY <1>1, <1>5, SnapshotMoves
  <2>2. tokens' = tokens
    BY <1>5 DEF EmitSnapshot, registry
  <2> QED  BY <1>1, <1>5, <2>1, <2>2, EmitsKeepTokens, SnapshotKeepsEmits
<1>6. Quiet => OffHasToken' /\ EmitInv'
  BY <1>1, QuietKeeps
<1>7. (\E q \in queued : DispatchRun(q)) \/ UNCHANGED vars => Quiet
  BY DEF DispatchRun, vars, registry, Quiet
<1>8. OffHasToken' /\ EmitInv'
  <2>1. ASSUME NEW th \in Threads, Proceeding(th) PROVE OffHasToken' /\ EmitInv'
    BY <1>1, <1>3, <1>4, <1>6, <2>1, ProceedingIsQuiet DEF Proceeding
  <2>2. ASSUME NEW th \in Threads, Administering(th) \/ Registering(th) \/ Removing(th)
        PROVE  OffHasToken' /\ EmitInv'
    BY <1>1, <1>6, <2>2, AdministeringIsQuiet, RegisteringIsQuiet, RemovingIsQuiet
  <2> QED  BY <1>5, <1>6, <1>7, <2>1, <2>2 DEF Next
<1> QED  BY <1>2, <1>8 DEF BusInv

LEMMA BusInit == Init => BusInv
<1> SUFFICES ASSUME Init PROVE BusInv
  OBVIOUS
<1>1. \A th \in Threads : call[th].op = "idle"
  BY DEF Init, Idle
<1>2. OffHasToken
  BY <1>1 DEF OffHasToken
<1>3. \A th \in Threads : ~Emitting(th)
  BY <1>1 DEF Emitting
<1>4. NomatchIsFallback /\ heard = {}
  BY DEF Init, NomatchIsFallback
<1>5. EmitInv
  BY <1>3, <1>4 DEF EmitInv
<1> QED  BY <1>2, <1>5, InitTypes DEF BusInv

\* Type correctness of the bus: an entry or a domain only while the bus is up,
\* and every call in progress of one of the shapes of event-bus.c.
THEOREM EventBusTypes == Spec => []TypeOK
<1>1. BusInv => TypeOK
  BY DEF BusInv
<1> QED  BY <1>1, BusInit, BusStep, PTL DEF Spec

\* event_emit() asks the NOMATCH listeners only for an event that reached none of
\* its own, whatever is registered, removed or emitted between its two snapshots.
THEOREM NomatchOnlyFallsBack == Spec => []NomatchIsFallback
<1>1. BusInv => NomatchIsFallback
  BY DEF BusInv, EmitInv
<1> QED  BY <1>1, BusInit, BusStep, PTL DEF Spec

-----------------------------------------------------------------------------
(* Tokens and marks.                                                       *)

\* A thread that marks goes on marking and no other starts.
MarksMove == \A th \in Threads : call[th].op = "mark" \/ call'[th].op = "mark" => call'[th] = call[th]

\* A step that registers nothing, retires no token and marks nothing.
Losing ==
    /\ tokens' = tokens /\ regs' = regs /\ MarksMove
    /\ \A e \in Events, k \in Arrays : Listeners(e, k)' \subseteq Listeners(e, k)

LEMMA LosingKeeps ==
    ASSUME TokenInv, MarkInv, Losing
    PROVE  TokenInv' /\ MarkInv'
<1>1. TokensStay
  BY DEF Losing, TokensStay
<1>2. TokenInv'
  BY LossKeepsTokens DEF Losing
<1>3. MarkInv'
  BY <1>1, LossKeepsMarks DEF Losing, MarksMove
<1> QED  BY <1>2, <1>3

LEMMA OtherCallMoves ==
    ASSUME TypeOK, NEW th \in Threads, NEW c, call' = [call EXCEPT ![th] = c],
           call[th].op # "mark", c.op # "mark"
    PROVE  MarksMove
<1>1. call'[th] = c /\ \A o \in Threads \ {th} : call'[o] = call[o]
  BY DEF TypeOK
<1> QED  BY <1>1 DEF MarksMove

LEMMA SameRegistry ==
    ASSUME UNCHANGED registry, MarksMove
    PROVE  Losing
<1>1. store' = store /\ tokens' = tokens /\ regs' = regs
  BY DEF registry
<1>2. \A e \in Events, k \in Arrays : Listeners(e, k)' = Listeners(e, k)
  BY <1>1 DEF Listeners
<1> QED  BY <1>1, <1>2 DEF Losing

LEMMA AdministeringLoses ==
    ASSUME NEW th \in Threads, Administering(th)
    PROVE  Losing
<1>1. UNCHANGED <<tokens, regs, call>>
  BY DEF Administering, EventInit, EventShutdown, DomainRegister, DomainUnregister
<1>2. store' = store \/ store' = [e \in Events |-> Absent]
  BY DEF Administering, EventInit, EventShutdown, DomainRegister, DomainUnregister
<1>3. \A e \in Events, k \in Arrays : Listeners(e, k)' \subseteq Listeners(e, k)
  BY <1>2 DEF Listeners
<1> QED  BY <1>1, <1>3 DEF Losing, MarksMove

LEMMA RemovingLoses ==
    ASSUME TypeOK, NEW th \in Threads, Removing(th)
    PROVE  Losing
<1>1. ASSUME NEW k \in Kinds, NEW e \in Events, NEW cb, NEW u, EventOff(th, k, e, cb, u) PROVE Losing
  <2>1. \A f \in Events, h \in Arrays : Listeners(f, h)' \subseteq Listeners(f, h)
    BY <1>1, OffEffect
  <2>2. UNCHANGED <<tokens, regs, call>>
    BY <1>1 DEF EventOff
  <2> QED  BY <2>1, <2>2 DEF Losing, MarksMove
<1>2. ASSUME NEW t \in DOMAIN tokens, OffCheck(th, t) PROVE Losing
  <2> DEFINE c == [op |-> "off", tok |-> t]
  <2>1. call' = [call EXCEPT ![th] = c] /\ UNCHANGED registry /\ call[th].op = "idle"
    BY <1>2 DEF OffCheck, Idle
  <2>2. c.op # "mark"
    OBVIOUS
  <2> HIDE DEF c
  <2> QED  BY <2>1, <2>2, OtherCallMoves, SameRegistry
<1> QED  BY <1>1, <1>2 DEF Removing

\* The steps of an emit leave the registry alone.
LEMMA EmittingLoses ==
    ASSUME TypeOK, NEW th \in Threads,
           \/ EmitNomatch(th) \/ EmitFire(th) \/ EmitReturn(th)
           \/ \E k \in Kinds, e \in Events : EmitSnapshot(th, k, e)
    PROVE  Losing
<1>1. UNCHANGED registry
  BY DEF EmitNomatch, EmitFire, EmitReturn, EmitSnapshot
<1>2. \E c \in EmitCalls \cup {Idle} : call' = [call EXCEPT ![th] = c]
  <2>1. CASE EmitNomatch(th)
    BY <2>1, EmitMoves
  <2>2. CASE EmitFire(th)
    BY <2>2, EmitMoves
  <2>3. CASE EmitReturn(th)
    BY <2>3 DEF EmitReturn
  <2>4. CASE \E k \in Kinds, e \in Events : EmitSnapshot(th, k, e)
    BY <2>4, SnapshotMoves
  <2> QED  BY <2>1, <2>2, <2>3, <2>4
<1>3. \A c \in EmitCalls \cup {Idle} : c.op # "mark"
  BY DEF EmitCalls, Idle
<1>4. call[th].op # "mark"
  BY DEF EmitNomatch, EmitFire, EmitReturn, EmitSnapshot, Idle
<1> QED  BY <1>1, <1>2, <1>3, <1>4, OtherCallMoves, SameRegistry

\* Registrations that are fresh.
LEMMA AddKeeps ==
    ASSUME FreshTriples, TypeOK, TokenInv, MarkInv,
           NEW k \in Kinds, NEW e \in Events, NEW cb \in Cbs, NEW u \in Users,
           NEW disp \in Dispatchers \cup {Sync}, NEW dom \in Domains \cup {None}, NEW bump \in BOOLEAN,
           Add(k, e, cb, u, disp, dom, bump),
           tokens' = tokens \/ tokens' = Append(tokens, Token(k, e, cb, u)),
           \A th \in Threads : call[th].op = "mark" => call'[th] = call[th],
           \A th \in Threads : call'[th].op = "mark" =>
               \/ call'[th] = call[th]
               \/ /\ k = "text" /\ dom # None /\ call'[th].kind = "text" /\ call'[th].event = e
                  /\ call'[th].cb = cb /\ call'[th].user = u
                  /\ tokens' = Append(tokens, Token(k, e, cb, u)),
           k = "text" /\ dom # None =>
               \E th \in Threads : /\ call'[th].op = "mark" /\ call'[th].event = e
                                  /\ cb = call'[th].cb /\ u = call'[th].user /\ disp = call'[th].disp
    PROVE  TokenInv' /\ MarkInv'
<1> DEFINE new == NewListener(cb, u, disp, dom)
           t == Token(k, e, cb, u)
<1>1. /\ new.id = regs + 1 /\ new.cb = cb /\ new.user = u /\ new.disp = disp
      /\ new.domain = dom /\ new.domain_delivery = FALSE
  BY DEF NewListener
<1>2. regs' = regs + 1 /\ regs \in Nat /\ regs < MaxReg
  <2>1. regs \in Nat
    BY DEF TypeOK
  <2> QED  BY <2>1 DEF Add
<1>3. Listeners(e, k)' = Listeners(e, k) \cup {new}
  BY AddEffect
<1>4. \A f \in Events, h \in Arrays : f # e \/ h # k => Listeners(f, h)' = Listeners(f, h)
  BY AddEffect
<1>5. Fresh(k, e, new.cb, new.user)
  BY <1>1 DEF Add
<1>6. k \in Arrays /\ tokens \in Seq(Issued)
  BY KindsAreArrays DEF TypeOK
<1>7. \A f \in Events, h \in Arrays : \A l \in Listeners(f, h) : l.id \in Nat
  <2>1. \A l \in Listener : l.id \in Nat
    BY EventBusAssumption DEF Listener
  <2> QED  BY <2>1, ListenersTyped
<1>8. /\ t.active = TRUE /\ t.id = regs + 1 /\ t.event = e /\ t.kind = k
      /\ t.cb = new.cb /\ t.user = new.user
  BY <1>1 DEF Token
<1>9. tokens' = Append(tokens, t) => t \in Issued
  <2>1. store'[e].generation \in Nat
    BY AddEffect
  <2> QED  BY <1>2, <2>1, TokenIssued
<1>10. tokens' = Append(tokens, t) =>
          \E i \in DOMAIN tokens' : tokens'[i].event = e /\ tokens'[i].kind = k
                                    /\ tokens'[i].cb = new.cb /\ tokens'[i].user = new.user
  BY <1>6, <1>8, TokenAppended
<1>11. TokensStay
  <2>1. CASE tokens' = tokens
    BY <2>1 DEF TokensStay
  <2>2. CASE tokens' = Append(tokens, t)
    BY <1>6, <2>2, TokenAppended DEF TokensStay
  <2> QED  BY <2>1, <2>2
<1> HIDE DEF new, t
<1>12. TokenInv'
  <2>1. \/ tokens' = tokens
        \/ \E x \in Issued : /\ tokens' = Append(tokens, x) /\ x.active = TRUE
                           /\ x.id = regs + 1 /\ x.event = e /\ x.kind = k
                           /\ x.cb = new.cb /\ x.user = new.user
    BY <1>8, <1>9 DEF t
  <2> QED  BY <1>1, <1>2, <1>3, <1>4, <1>5, <1>6, <1>7, <2>1, GrowthKeepsTokens
<1>13. MarkInv'
  <2>1. \A th \in Threads : call'[th].op = "mark" =>
               \/ call'[th] = call[th]
               \/ /\ k = "text" /\ new.domain # None /\ call'[th].kind = "text" /\ call'[th].event = e
                  /\ call'[th].cb = new.cb /\ call'[th].user = new.user
                  /\ \E i \in DOMAIN tokens' : /\ tokens'[i].event = e /\ tokens'[i].kind = "text"
                                              /\ tokens'[i].cb = new.cb /\ tokens'[i].user = new.user
    BY <1>1, <1>10 DEF t
  <2>2. k = "text" /\ new.domain # None =>
               \E th \in Threads : /\ call'[th].op = "mark" /\ call'[th].event = e
                                  /\ new.cb = call'[th].cb /\ new.user = call'[th].user /\ new.disp = call'[th].disp
    BY <1>1
  <2> QED  BY <1>1, <1>3, <1>4, <1>5, <1>6, <1>11, <2>1, <2>2, GrowthKeepsMarks
<1> QED  BY <1>12, <1>13

LEMMA RegisteringKeeps ==
    ASSUME FreshTriples, TypeOK, TokenInv, MarkInv, NEW th \in Threads, Registering(th)
    PROVE  TokenInv' /\ MarkInv'
<1> SUFFICES ASSUME NEW k \in Kinds, NEW e \in Events, NEW cb \in Cbs, NEW u \in Users,
                    \/ \E disp \in Dispatchers \cup {Sync} :
                          EventOn(th, k, e, cb, u, disp) \/ EventOnToken(th, k, e, cb, u, disp)
                    \/ \E d \in Domains : DomainOnLookup(th, k, e, cb, u, d)
             PROVE  TokenInv' /\ MarkInv'
  BY DEF Registering
<1>1. ASSUME NEW disp \in Dispatchers \cup {Sync},
             EventOn(th, k, e, cb, u, disp) \/ EventOnToken(th, k, e, cb, u, disp)
      PROVE  TokenInv' /\ MarkInv'
  <2>1. call' = call /\ (tokens' = tokens \/ tokens' = Append(tokens, Token(k, e, cb, u)))
    BY <1>1 DEF EventOn, EventOnToken
  <2>2. PICK bump \in BOOLEAN : Add(k, e, cb, u, disp, None, bump)
    BY <1>1 DEF EventOn, EventOnToken
  <2> QED  BY <2>1, <2>2, AddKeeps
<1>2. ASSUME NEW d \in Domains, DomainOnLookup(th, k, e, cb, u, d) PROVE TokenInv' /\ MarkInv'
  <2> DEFINE c == [op |-> "register", kind |-> k, event |-> e, cb |-> cb, user |-> u,
                   disp |-> domains[d], domain |-> d]
  <2>1. call' = [call EXCEPT ![th] = c] /\ UNCHANGED registry /\ call[th].op # "mark"
    BY <1>2 DEF DomainOnLookup, Idle
  <2>2. c.op # "mark"
    OBVIOUS
  <2> HIDE DEF c
  <2> QED  BY <2>1, <2>2, OtherCallMoves, SameRegistry, LosingKeeps
<1> QED  BY <1>1, <1>2

LEMMA DomainOnRegisterKeeps ==
    ASSUME FreshTriples, TypeOK, TokenInv, MarkInv, NEW th \in Threads, DomainOnRegister(th)
    PROVE  TokenInv' /\ MarkInv'
<1>0. PICK c : c = call[th]
  OBVIOUS
<1>1. c \in RegisterCalls /\ c.op = "register"
  BY <1>0, CallShape DEF DomainOnRegister
<1>2. /\ c.kind \in Kinds /\ c.event \in Events /\ c.cb \in Cbs /\ c.user \in Users
      /\ c.disp \in Dispatchers \cup {Sync} /\ c.domain \in Domains \cup {None} /\ c.domain # None
  BY <1>1, EventBusAssumption DEF RegisterCalls
<1>3. CASE ~up
  <2>1. call' = [call EXCEPT ![th] = Idle] /\ UNCHANGED registry
    BY <1>3 DEF DomainOnRegister, registry
  <2>2. Idle.op # "mark"
    BY DEF Idle
  <2> QED  BY <1>0, <1>1, <2>1, <2>2, OtherCallMoves, SameRegistry, LosingKeeps
<1>4. CASE up
  <2> DEFINE d == IF c.kind = "text" THEN [c EXCEPT !.op = "mark"] ELSE Idle
  <2>1. /\ Add(c.kind, c.event, c.cb, c.user, c.disp, c.domain, TRUE)
        /\ tokens' = Append(tokens, Token(c.kind, c.event, c.cb, c.user))
    BY <1>0, <1>4 DEF DomainOnRegister
  <2>2. call' = [call EXCEPT ![th] = d]
    BY <1>0, <1>4 DEF DomainOnRegister
  <2>3. /\ c.kind = "text" => /\ d.op = "mark" /\ d.kind = "text" /\ d.event = c.event /\ d.cb = c.cb
                              /\ d.user = c.user /\ d.disp = c.disp
        /\ c.kind # "text" => d.op # "mark"
    BY <1>1 DEF RegisterCalls, Idle
  <2> HIDE DEF d
  <2>4. call'[th] = d /\ \A o \in Threads \ {th} : call'[o] = call[o]
    BY <2>2 DEF TypeOK
  <2>5. \A o \in Threads : call[o].op = "mark" => call'[o] = call[o]
    BY <1>0, <1>1, <2>4
  <2>6. \A o \in Threads : call'[o].op = "mark" =>
               \/ call'[o] = call[o]
               \/ /\ c.kind = "text" /\ c.domain # None /\ call'[o].kind = "text" /\ call'[o].event = c.event
                  /\ call'[o].cb = c.cb /\ call'[o].user = c.user
                  /\ tokens' = Append(tokens, Token(c.kind, c.event, c.cb, c.user))
    BY <1>2, <2>1, <2>3, <2>4
  <2>7. c.kind = "text" /\ c.domain # None =>
               \E o \in Threads : /\ call'[o].op = "mark" /\ call'[o].event = c.event
                                 /\ c.cb = call'[o].cb /\ c.user = call'[o].user /\ c.disp = call'[o].disp
    BY <2>3, <2>4
  <2>8. PICK k \in Kinds, e \in Events, cb \in Cbs, u \in Users,
             disp \in Dispatchers \cup {Sync}, dom \in Domains \cup {None} :
           k = c.kind /\ e = c.event /\ cb = c.cb /\ u = c.user /\ disp = c.disp /\ dom = c.domain
    BY <1>2
  <2>9. Add(k, e, cb, u, disp, dom, TRUE) /\ tokens' = Append(tokens, Token(k, e, cb, u))
    BY <2>1, <2>8
  <2>10. \A o \in Threads : call'[o].op = "mark" =>
               \/ call'[o] = call[o]
               \/ /\ k = "text" /\ dom # None /\ call'[o].kind = "text" /\ call'[o].event = e
                  /\ call'[o].cb = cb /\ call'[o].user = u
                  /\ tokens' = Append(tokens, Token(k, e, cb, u))
    BY <2>6, <2>8
  <2>11. k = "text" /\ dom # None =>
               \E o \in Threads : /\ call'[o].op = "mark" /\ call'[o].event = e
                                 /\ cb = call'[o].cb /\ u = call'[o].user /\ disp = call'[o].disp
    BY <2>7, <2>8
  <2> QED  BY <2>5, <2>9, <2>10, <2>11, AddKeeps
<1> QED  BY <1>3, <1>4

\* The marking sets flags, on listeners of domains only, and nothing else moves.
LEMMA DomainOnMarkKeeps ==
    ASSUME TypeOK, TokenInv, MarkInv, NEW th \in Threads, DomainOnMark(th)
    PROVE  TokenInv' /\ MarkInv'
<1>0. PICK c : c = call[th]
  OBVIOUS
<1> DEFINE Set(l) == [l EXCEPT !.domain_delivery = TRUE]
           Hit(f, h, l) == f = c.event /\ h = "text" /\ Marked(l, c)
<1>1. c.op = "mark" /\ tokens' = tokens /\ regs' = regs /\ "text" \in Arrays
  BY <1>0 DEF DomainOnMark, Arrays
<1>2. call'[th].op = "idle" /\ \A o \in Threads \ {th} : call'[o] = call[o]
  BY DEF DomainOnMark, TypeOK, Idle
<1>3. \A l \in Listener : /\ Set(l).id = l.id /\ Set(l).cb = l.cb /\ Set(l).user = l.user /\ Set(l).disp = l.disp
                          /\ Set(l).domain = l.domain /\ Set(l).domain_delivery = TRUE
  BY DEF Listener
<1>4. \A f \in Events, h \in Arrays : \A x \in Listeners(f, h)' : \E l \in Listeners(f, h) :
          x = IF Hit(f, h, l) THEN Set(l) ELSE l
  <2>1. CASE up
    <3>1. Listeners(c.event, "text")' =
              {IF Marked(l, c) THEN Set(l) ELSE l : l \in Listeners(c.event, "text")}
      BY <1>0, <2>1, MarkEffect
    <3>2. \A f \in Events, h \in Arrays : f # c.event \/ h # "text" => Listeners(f, h)' = Listeners(f, h)
      BY <1>0, <2>1, MarkEffect
    <3> HIDE DEF Set
    <3>3. \A x \in Listeners(c.event, "text")' : \E l \in Listeners(c.event, "text") :
              x = IF Marked(l, c) THEN Set(l) ELSE l
      BY <3>1
    <3> QED  BY <3>2, <3>3
  <2>2. CASE ~up
    <3>1. \A f \in Events : store'[f] = Absent
      BY <2>2 DEF DomainOnMark, TypeOK
    <3> QED  BY <3>1 DEF Listeners
  <2> QED  BY <2>1, <2>2
<1>5. \A f \in Events, h \in Arrays : \A l \in Listeners(f, h) : l \in Listener
  BY ListenersTyped
<1>6. \A f \in Events : \A l \in Listeners(f, "text") : Hit(f, "text", l) => l.domain # None
  BY <1>0, <1>1 DEF MarkInv, MarkerHasToken, Marked
<1> HIDE DEF Set, Hit
<1>7. \A f \in Events, h \in Arrays : \A x \in Listeners(f, h)' : \E l \in Listeners(f, h) :
          /\ x = IF Hit(f, h, l) THEN Set(l) ELSE l
          /\ x.id = l.id /\ x.cb = l.cb /\ x.user = l.user /\ x.disp = l.disp /\ x.domain = l.domain
  BY <1>3, <1>4, <1>5
<1>8. UniqueIds'
  BY <1>7 DEF TokenInv, UniqueIds
<1>9. IdsIssued'
  BY <1>1, <1>7 DEF TokenInv, IdsIssued
<1>10. TokenFits'
  BY <1>1, <1>7 DEF TokenInv, TokenFits
<1>11. TokenOwns'
  BY <1>1, <1>7 DEF TokenInv, TokenOwns, Owned
<1>12. RetiredIsGone'
  <2> SUFFICES ASSUME NEW i \in DOMAIN tokens', ~tokens'[i].active,
                      NEW f \in Events, NEW h \in Arrays, NEW x \in Listeners(f, h)'
               PROVE  x.id # tokens'[i].id
    BY DEF RetiredIsGone, AllListeners, Arrays
  <2>1. PICK l \in Listeners(f, h) : x.id = l.id
    BY <1>7
  <2> QED  BY <1>1, <2>1, AllListenersAre DEF TokenInv, RetiredIsGone
<1>13. MarkerHasToken'
  <2> SUFFICES ASSUME NEW o \in Threads, call'[o].op = "mark"
               PROVE  /\ call'[o].kind = "text"
                      /\ \E i \in DOMAIN tokens' :
                            /\ tokens'[i].event = call'[o].event /\ tokens'[i].kind = "text"
                            /\ tokens'[i].cb = call'[o].cb /\ tokens'[i].user = call'[o].user
                      /\ \A e \in Events : \A l \in Listeners(e, "text")' :
                            call'[o].event = e /\ l.cb = call'[o].cb /\ l.user = call'[o].user => l.domain # None
    BY DEF MarkerHasToken
  <2>1. o # th /\ call'[o] = call[o] /\ call[o].op = "mark"
    BY <1>2
  <2>2. /\ call'[o].kind = "text"
        /\ \E i \in DOMAIN tokens' :
              /\ tokens'[i].event = call'[o].event /\ tokens'[i].kind = "text"
              /\ tokens'[i].cb = call'[o].cb /\ tokens'[i].user = call'[o].user
    BY <1>1, <2>1 DEF MarkInv, MarkerHasToken
  <2>3. \A e \in Events : \A l \in Listeners(e, "text") :
              call[o].event = e /\ l.cb = call[o].cb /\ l.user = call[o].user => l.domain # None
    BY <2>1 DEF MarkInv, MarkerHasToken
  <2>4. \A e \in Events : \A l \in Listeners(e, "text")' :
              call'[o].event = e /\ l.cb = call'[o].cb /\ l.user = call'[o].user => l.domain # None
    BY <1>1, <1>7, <2>1, <2>3
  <2> QED  BY <2>2, <2>4
<1>14. MarkIsComing'
  <2> SUFFICES ASSUME NEW f \in Events, NEW x \in Listeners(f, "text")', x.domain # None, ~x.domain_delivery
               PROVE  \E o \in Threads : call'[o].op = "mark" /\ call'[o].event = f /\ Marked(x, call'[o])
    BY DEF MarkIsComing, Marked
  <2>1. PICK l \in Listeners(f, "text") : x = IF Hit(f, "text", l) THEN Set(l) ELSE l
    BY <1>1, <1>4
  <2>2. ~Hit(f, "text", l) /\ x = l
    BY <1>1, <1>3, <1>5, <2>1
  <2>3. PICK o \in Threads : call[o].op = "mark" /\ call[o].event = f /\ Marked(l, call[o])
    BY <2>2 DEF MarkInv, MarkIsComing
  <2>4. o # th
    BY <1>0, <2>2, <2>3 DEF Hit
  <2> QED  BY <1>2, <2>2, <2>3, <2>4
<1>15. OnlyDomainsMarked'
  <2> SUFFICES ASSUME NEW f \in Events, NEW h \in Arrays, NEW x \in Listeners(f, h)', x.domain_delivery
               PROVE  x.domain # None
    BY DEF OnlyDomainsMarked
  <2>1. PICK l \in Listeners(f, h) : (x = IF Hit(f, h, l) THEN Set(l) ELSE l) /\ x.domain = l.domain
    BY <1>7
  <2>2. CASE Hit(f, h, l)
    BY <1>6, <2>1, <2>2 DEF Hit
  <2>3. CASE ~Hit(f, h, l)
    BY <2>1, <2>3 DEF MarkInv, OnlyDomainsMarked
  <2> QED  BY <2>2, <2>3
<1> QED  BY <1>8, <1>9, <1>10, <1>11, <1>12, <1>13, <1>14, <1>15 DEF TokenInv, MarkInv

\* What event_off_token() takes away is its own, and its own is gone afterwards.
LEMMA OffLockedTakesOwn ==
    ASSUME TypeOK, OffHasToken, TokenInv, NEW th \in Threads, OffLocked(th),
           NEW tok, tok = tokens[call[th].tok]
    PROVE  \A f \in Events, h \in Arrays :
              /\ Listeners(f, h)' \subseteq Listeners(f, h)
              /\ \A l \in Listeners(f, h) : l \in Listeners(f, h)' <=> l.id # tok.id
<1> SUFFICES ASSUME NEW f \in Events, NEW h \in Arrays, NEW m \in Listeners(f, h)
             PROVE  m \in Listeners(f, h)' <=> m.id # tok.id
  BY OffLockedEffect
<1>1. call[th].tok \in DOMAIN tokens
  BY OffLockedEffect
<1>2. CASE f # tok.event \/ h # tok.kind
  <2>1. Listeners(f, h)' = Listeners(f, h)
    BY <1>2, OffLockedEffect
  <2>2. m.id # tok.id
    BY <1>1, <1>2 DEF TokenInv, TokenFits
  <2> QED  BY <2>1, <2>2
<1>3. CASE f = tok.event /\ h = tok.kind
  <2>1. /\ \A l \in Listeners(f, h) : l \in Listeners(f, h)' \/ Owned(l, tok)
        /\ (\A l \in Listeners(f, h) : ~Owned(l, tok)) \/ \E l \in Listeners(f, h) : l \notin Listeners(f, h)'
    BY <1>3, OffLockedEffect
  <2>2. \A l \in Listeners(f, h) : Owned(l, tok) <=> l.id = tok.id
    <3>1. \A l \in Listeners(f, h) : l.id = tok.id => Owned(l, tok)
      BY <1>1 DEF TokenInv, TokenFits, Owned
    <3>2. \A l \in Listeners(f, h) : Owned(l, tok) => l.id = tok.id
      BY <1>1, <1>3 DEF TokenInv, TokenOwns
    <3> QED  BY <3>1, <3>2
  <2>3. \A l \in Listeners(f, h) : l.id = m.id => l = m
    BY DEF TokenInv, UniqueIds
  <2> QED  BY <2>1, <2>2, <2>3
<1> QED  BY <1>2, <1>3

LEMMA OffLockedKeeps ==
    ASSUME TypeOK, OffHasToken, TokenInv, MarkInv, NEW th \in Threads, OffLocked(th)
    PROVE  TokenInv' /\ MarkInv'
<1>0. PICK t : t = call[th].tok
  OBVIOUS
<1>00. PICK tok : tok = tokens[t]
  OBVIOUS
<1>1. t \in DOMAIN tokens /\ tok \in Issued
  BY <1>0, <1>00, OffLockedEffect
<1>2. \A f \in Events, h \in Arrays :
          /\ Listeners(f, h)' \subseteq Listeners(f, h)
          /\ \A l \in Listeners(f, h) : l \in Listeners(f, h)' <=> l.id # tok.id
  BY <1>0, <1>00, OffLockedTakesOwn
<1>3. tokens' = [tokens EXCEPT ![t].active = FALSE] /\ regs' = regs
  BY <1>0 DEF OffLocked
<1>4. /\ DOMAIN tokens' = DOMAIN tokens
      /\ \A i \in DOMAIN tokens : i # t => tokens'[i] = tokens[i]
      /\ tokens'[t] = [tok EXCEPT !.active = FALSE]
  BY <1>00, <1>1, <1>3 DEF TypeOK
<1>5. /\ tokens'[t].event = tok.event /\ tokens'[t].kind = tok.kind /\ tokens'[t].id = tok.id
      /\ tokens'[t].cb = tok.cb /\ tokens'[t].user = tok.user
  BY <1>1, <1>4 DEF Issued
<1>6. \A i \in DOMAIN tokens :
          /\ tokens'[i].event = tokens[i].event /\ tokens'[i].kind = tokens[i].kind
          /\ tokens'[i].cb = tokens[i].cb /\ tokens'[i].user = tokens[i].user
          /\ tokens'[i].id = tokens[i].id /\ (i # t => tokens'[i].active = tokens[i].active)
  BY <1>00, <1>4, <1>5
<1>7. UniqueIds' /\ IdsIssued'
  BY <1>2, <1>3, <1>4, <1>6 DEF TokenInv, UniqueIds, IdsIssued
<1>8. TokenFits'
  BY <1>2, <1>4, <1>6 DEF TokenInv, TokenFits
<1>9. TokenOwns'
  BY <1>2, <1>4, <1>6 DEF TokenInv, TokenOwns, Owned
<1>10. RetiredIsGone'
  <2> SUFFICES ASSUME NEW i \in DOMAIN tokens', ~tokens'[i].active,
                      NEW f \in Events, NEW h \in Arrays, NEW l \in Listeners(f, h)'
               PROVE  l.id # tokens'[i].id
    BY DEF RetiredIsGone, AllListeners, Arrays
  <2>1. l \in Listeners(f, h) /\ l.id # tok.id
    BY <1>2
  <2>2. CASE i = t
    BY <1>5, <2>1, <2>2
  <2>3. CASE i # t
    BY <1>4, <2>1, <2>3, AllListenersAre DEF TokenInv, RetiredIsGone
  <2> QED  BY <2>2, <2>3
<1>11. MarkInv'
  <2>1. TokensStay
    BY <1>4, <1>6 DEF TokensStay
  <2>2. MarksMove
    <3>1. call[th].op # "mark" /\ Idle.op # "mark" /\ call' = [call EXCEPT ![th] = Idle]
      BY DEF OffLocked, Idle
    <3> QED  BY <3>1, OtherCallMoves
  <2> QED  BY <1>2, <2>1, <2>2, LossKeepsMarks DEF MarksMove
<1> QED  BY <1>7, <1>8, <1>9, <1>10, <1>11 DEF TokenInv

OwnInv == BusInv /\ TokenInv /\ MarkInv

LEMMA OwnInit == Init => OwnInv
<1> SUFFICES ASSUME Init PROVE OwnInv
  OBVIOUS
<1>1. \A e \in Events, k \in Arrays : Listeners(e, k) = {}
  BY DEF Init, Listeners
<1>2. DOMAIN tokens = {} /\ \A th \in Threads : call[th].op # "mark"
  BY DEF Init, Idle
<1>3. TokenInv
  BY <1>1, <1>2 DEF TokenInv, UniqueIds, IdsIssued, TokenFits, TokenOwns, RetiredIsGone
<1>4. MarkInv
  <2>1. "text" \in Arrays
    BY DEF Arrays
  <2> QED  BY <1>1, <1>2, <2>1 DEF MarkInv, MarkerHasToken, MarkIsComing, OnlyDomainsMarked
<1> QED  BY <1>3, <1>4, BusInit DEF OwnInv

LEMMA OwnStep ==
    ASSUME FreshTriples
    PROVE  OwnInv /\ [Next]_vars => OwnInv'
<1> SUFFICES ASSUME OwnInv, [Next]_vars PROVE OwnInv'
  OBVIOUS
<1>1. BusInv /\ TypeOK /\ OffHasToken /\ TokenInv /\ MarkInv
  BY DEF OwnInv, BusInv
<1>2. BusInv'
  BY <1>1, BusStep
<1>3. Losing => TokenInv' /\ MarkInv'
  BY <1>1, LosingKeeps
<1>4. ASSUME NEW th \in Threads, Proceeding(th) PROVE TokenInv' /\ MarkInv'
  <2>1. CASE EmitNomatch(th) \/ EmitFire(th) \/ EmitReturn(th)
    BY <1>1, <1>3, <2>1, EmittingLoses
  <2> QED  BY <1>1, <1>4, <2>1, DomainOnRegisterKeeps, DomainOnMarkKeeps, OffLockedKeeps DEF Proceeding
<1>5. ASSUME NEW th \in Threads, Administering(th) \/ Removing(th)
      PROVE  TokenInv' /\ MarkInv'
  BY <1>1, <1>3, <1>5, AdministeringLoses, RemovingLoses
<1>6. ASSUME NEW th \in Threads, Registering(th) PROVE TokenInv' /\ MarkInv'
  BY <1>1, <1>6, RegisteringKeeps
<1>7. ASSUME NEW th \in Threads, \E k \in Kinds, e \in Events : EmitSnapshot(th, k, e)
      PROVE  TokenInv' /\ MarkInv'
  BY <1>1, <1>3, <1>7, EmittingLoses
<1>8. CASE (\E q \in queued : DispatchRun(q)) \/ UNCHANGED vars
  <2>1. UNCHANGED registry /\ call' = call
    BY <1>8 DEF DispatchRun, vars
  <2> QED  BY <1>2, <1>3, <2>1, SameRegistry DEF MarksMove, OwnInv
<1> QED  BY <1>2, <1>4, <1>5, <1>6, <1>7, <1>8 DEF Next, OwnInv

\* Once event_off_token() has retired a token its registration is in no array,
\* whatever else was registered, removed or marked meanwhile: as long as no
\* registration repeats the event, callback and user of an earlier token.
THEOREM RetiredStaysGone ==
    ASSUME FreshTriples
    PROVE  Spec => []RetiredIsGone
<1>1. OwnInv => RetiredIsGone
  BY DEF OwnInv, TokenInv
<1> QED  BY <1>1, OwnInit, OwnStep, PTL DEF Spec

\* The domain mark is on the listeners that event_on_domain_token() subscribed and
\* on no other, once no thread is on its way to set it.
THEOREM MarksAreExact ==
    ASSUME FreshTriples
    PROVE  Spec => []MarksExactly
<1>1. OwnInv => MarksExactly
  BY AllListenersAre DEF OwnInv, MarkInv, OnlyDomainsMarked, MarkIsComing, MarksExactly
<1> QED  BY <1>1, OwnInit, OwnStep, PTL DEF Spec

\* A thread in event_off_token() leaves it by its locked half only.
LEMMA OnlyOffLockedEnds ==
    ASSUME TypeOK, [Next]_vars, NEW th \in Threads, call[th].op = "off", call'[th] = Idle
    PROVE  OffLocked(th)
<1>1. call'[th] # call[th]
  BY DEF Idle
<1>2. ASSUME NEW o \in Threads, NEW c, call' = [call EXCEPT ![o] = c]
      PROVE  o = th
  BY <1>1, <1>2 DEF TypeOK
<1>3. Idle.op # "off"
  BY DEF Idle
<1>4. ASSUME NEW o \in Threads, Proceeding(o) PROVE OffLocked(th)
  <2>1. \E c : call' = [call EXCEPT ![o] = c]
    <3>1. CASE EmitNomatch(o) \/ EmitFire(o)
      BY <3>1, EmitMoves
    <3>2. CASE DomainOnRegister(o) \/ DomainOnMark(o) \/ OffLocked(o) \/ EmitReturn(o)
      BY <3>2 DEF DomainOnRegister, DomainOnMark, OffLocked, EmitReturn
    <3> QED  BY <1>4, <3>1, <3>2 DEF Proceeding
  <2>2. o = th
    BY <1>2, <2>1
  <2> QED  BY <1>4, <2>2 DEF Proceeding, DomainOnRegister, DomainOnMark, EmitNomatch, EmitFire, EmitReturn
<1>5. ASSUME NEW o \in Threads, Registering(o) PROVE FALSE
  <2>1. call' = call \/ (call[o] = Idle /\ \E c : call' = [call EXCEPT ![o] = c])
    <3>1. PICK k \in Kinds, e \in Events, cb \in Cbs, u \in Users :
             \/ \E disp \in Dispatchers \cup {Sync} :
                   EventOn(o, k, e, cb, u, disp) \/ EventOnToken(o, k, e, cb, u, disp)
             \/ \E d \in Domains : DomainOnLookup(o, k, e, cb, u, d)
      BY <1>5 DEF Registering
    <3>2. CASE \E d \in Domains : DomainOnLookup(o, k, e, cb, u, d)
      BY <3>2 DEF DomainOnLookup
    <3> QED  BY <3>1, <3>2 DEF EventOn, EventOnToken
  <2> QED  BY <1>1, <1>2, <1>3, <2>1
<1>6. ASSUME NEW o \in Threads, Removing(o) PROVE FALSE
  <2>1. call' = call \/ (call[o] = Idle /\ \E c : call' = [call EXCEPT ![o] = c])
    BY <1>6 DEF Removing, EventOff, OffCheck
  <2> QED  BY <1>1, <1>2, <1>3, <2>1
<1>7. ASSUME NEW o \in Threads, NEW k \in Kinds, NEW e \in Events, EmitSnapshot(o, k, e) PROVE FALSE
  <2>1. call[o] = Idle /\ \E c : call' = [call EXCEPT ![o] = c]
    BY <1>7 DEF EmitSnapshot
  <2> QED  BY <1>1, <1>2, <1>3, <2>1
<1>8. ASSUME NEW o \in Threads, Administering(o) PROVE FALSE
  BY <1>1, <1>8 DEF Administering, EventInit, EventShutdown, DomainRegister, DomainUnregister
<1>9. CASE (\E q \in queued : DispatchRun(q)) \/ UNCHANGED vars
  BY <1>1, <1>9 DEF DispatchRun, vars
<1> QED  BY <1>4, <1>5, <1>6, <1>7, <1>8, <1>9 DEF Next

LEMMA DropsOwn ==
    ASSUME OwnInv, [Next]_vars, NEW th \in Threads, call[th].op = "off", call'[th] = Idle,
           NEW e \in Events, NEW k \in Arrays
    PROVE  Dropped(e, k) \subseteq {tokens[call[th].tok].id}
<1>1. TypeOK /\ OffHasToken /\ TokenInv
  BY DEF OwnInv, BusInv
<1>2. PICK tok : tok = tokens[call[th].tok]
  OBVIOUS
<1>3. OffLocked(th)
  BY <1>1, OnlyOffLockedEnds
<1>4. \A l \in Listeners(e, k) : l \in Listeners(e, k)' <=> l.id # tok.id
  BY <1>1, <1>2, <1>3, OffLockedTakesOwn
<1> QED  BY <1>2, <1>4 DEF Dropped, Ids

\* event_off_token() drops the listener its token was issued for or none: as long
\* as no registration repeats the event, callback and user of an earlier token.
THEOREM TokensDropOwn ==
    ASSUME FreshTriples
    PROVE  Spec => TokenDropsOwn
<1>1. OwnInv /\ [Next]_vars =>
          [\A th \in Threads : call[th].op = "off" /\ call'[th] = Idle =>
              \A e \in Events, k \in {"text", "binary"} :
                  Dropped(e, k) \subseteq {tokens[call[th].tok].id}]_vars
  BY DropsOwn DEF Arrays
<1> QED  BY <1>1, OwnInit, OwnStep, PTL DEF Spec, TokenDropsOwn
=============================================================================
