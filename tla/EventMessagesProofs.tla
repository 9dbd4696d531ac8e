------------------------ MODULE EventMessagesProofs ------------------------
(***************************************************************************)
(* Proofs about message tokens, for any threads, loops, domains and        *)
(* bounds.  The main result: after event_off_token() and                   *)
(* event_message_token_drain() no callback of the token runs again.        *)
(***************************************************************************)
EXTENDS EventMessages, FiniteSetTheorems, TLAPS

-----------------------------------------------------------------------------
(* The inductive invariant.                                                *)

\* Levels above a thread's depth hold no call.
StackShape == \A th \in Threads : \A i \in Levels : i > depth[th] => frame[<<th, i>>].op = "none"

\* Calls on behalf of a token name an issued one.
FrameTokens ==
    \A c \in Places :
        /\ frame[c].op = "cb" => frame[c].tok \in Tokens
        /\ frame[c].op \in {"off", "wait", "woken"} => frame[c].tok \in 1 .. issued

\* A listener has a dispatcher or none on purpose.
LoopsKnown == \A t \in listeners : reg[t].loop # None

\* A token a drain returned for stays off and idle.
QuietStays == \A t \in quiet : ~active[t] /\ executing[t] = 0

TokenInv ==
    /\ TypeOK
    /\ StackShape
    /\ FrameTokens
    /\ ExecutingIsExact
    /\ ListenersAreActive
    /\ DomainOutlivesListeners
    /\ LoopsKnown
    /\ QuietStays

\* Every set of calls in progress is finite.
LEMMA PlacesFinite == IsFiniteSet(Places)
<1>1. IsFiniteSet(Threads) /\ IsFiniteSet(Levels)
  BY EventMessagesAssumption, FS_Interval DEF Levels
<1> QED  BY <1>1, FS_Product DEF Places

LEMMA RunningFinite ==
    ASSUME NEW t
    PROVE  IsFiniteSet(Running(t)) /\ Running(t) \subseteq Places
BY PlacesFinite, FS_Subset DEF Running

LEMMA IssuedAreTokens ==
    ASSUME TypeOK
    PROVE  1 .. issued \subseteq Tokens /\ listeners \subseteq Tokens /\ quiet \subseteq Tokens
<1>1. 1 .. issued \subseteq Tokens
  BY EventMessagesAssumption DEF TypeOK, Tokens
<1> QED  BY <1>1 DEF TypeOK

LEMMA InitTokens == Init => TokenInv
<1> SUFFICES ASSUME Init PROVE TokenInv
  OBVIOUS
<1> USE EventMessagesAssumption DEF Init
<1>1. TypeOK
  <2>1. frame \in [Places -> Frame]
    BY DEF Nothing, Frame
  <2>2. reg \in [Tokens -> [name : Names \cup {None}, loop : Loops \cup {Inline, None}, domain : Domains \cup {None}]]
    OBVIOUS
  <2>3. pending \in [Work -> Nat] /\ executing \in [Tokens -> Nat]
    OBVIOUS
  <2>4. issued \in 0 .. MaxTokens /\ emits \in 0 .. MaxEmit /\ depth \in [Threads -> 0 .. MaxDepth]
    OBVIOUS
  <2>5. domains \in [Domains -> Loops \cup {None}] /\ active \in [Tokens -> BOOLEAN] /\ up \in BOOLEAN
        /\ listeners = {} /\ quiet = {}
    OBVIOUS
  <2> HIDE DEF Init
  <2> QED  BY <2>1, <2>2, <2>3, <2>4, <2>5 DEF TypeOK
<1>2. StackShape /\ FrameTokens
  BY DEF StackShape, FrameTokens, Nothing, Places
<1>3. ASSUME NEW t \in Tokens PROVE executing[t] = Cardinality(Running(t))
  <2>1. Running(t) = {}
    BY DEF Running, Nothing
  <2> QED  BY <2>1, FS_EmptySet
<1>4. ListenersAreActive /\ DomainOutlivesListeners /\ LoopsKnown /\ QuietStays
  BY DEF ListenersAreActive, DomainOutlivesListeners, LoopsKnown, QuietStays
<1> QED  BY <1>1, <1>2, <1>3, <1>4 DEF TokenInv, ExecutingIsExact

-----------------------------------------------------------------------------
(* How the call stacks move.                                               *)

LEMMA TopIsPlace ==
    ASSUME TypeOK, NEW th \in Threads, depth[th] > 0
    PROVE  Top(th) \in Places
BY DEF TypeOK, Top, Places, Levels

\* A step that touches no callback frame.
LEMMA SameCallbacks ==
    ASSUME \A c \in Places : /\ frame'[c].op = "cb" <=> frame[c].op = "cb"
                             /\ frame[c].op = "cb" => frame'[c].tok = frame[c].tok,
           NEW t
    PROVE  Running(t)' = Running(t)
BY DEF Running, Places

\* A step that enters exactly one callback, of token t.
LEMMA EnterCallback ==
    ASSUME NEW p \in Places, NEW t \in Tokens,
           frame[p].op # "cb", frame'[p] = Call("cb", t),
           \A c \in Places \ {p} : /\ frame'[c].op = "cb" <=> frame[c].op = "cb"
                                   /\ frame[c].op = "cb" => frame'[c].tok = frame[c].tok,
           ExecutingIsExact, executing \in [Tokens -> Nat],
           executing' = [executing EXCEPT ![t] = @ + 1]
    PROVE  ExecutingIsExact'
<1>1. Running(t)' = Running(t) \cup {p} /\ p \notin Running(t)
  BY DEF Running, Call
<1>2. Cardinality(Running(t)') = Cardinality(Running(t)) + 1
  BY <1>1, RunningFinite, FS_AddElement
<1>3. ASSUME NEW u \in Tokens, u # t PROVE Running(u)' = Running(u)
  BY <1>3 DEF Running, Call
<1>4. executing'[t] = Cardinality(Running(t)')
  BY <1>2 DEF ExecutingIsExact
<1>5. \A u \in Tokens \ {t} : executing'[u] = Cardinality(Running(u)')
  BY <1>3 DEF ExecutingIsExact
<1> QED  BY <1>4, <1>5 DEF ExecutingIsExact

\* A step that leaves exactly one callback, of token t.
LEMMA LeaveCallback ==
    ASSUME NEW p \in Places, NEW t \in Tokens,
           frame[p].op = "cb", frame[p].tok = t, frame'[p].op # "cb",
           \A c \in Places \ {p} : /\ frame'[c].op = "cb" <=> frame[c].op = "cb"
                                   /\ frame[c].op = "cb" => frame'[c].tok = frame[c].tok,
           ExecutingIsExact, executing \in [Tokens -> Nat],
           executing' = [executing EXCEPT ![t] = @ - 1]
    PROVE  ExecutingIsExact' /\ executing' \in [Tokens -> Nat]
<1>1. Running(t)' = Running(t) \ {p} /\ p \in Running(t)
  BY DEF Running
<1>2. Cardinality(Running(t)') = Cardinality(Running(t)) - 1 /\ Cardinality(Running(t)') \in Nat
  BY <1>1, RunningFinite, FS_RemoveElement, FS_CardinalityType
<1>3. ASSUME NEW u \in Tokens, u # t PROVE Running(u)' = Running(u)
  BY <1>3 DEF Running
<1>4. executing'[t] = Cardinality(Running(t)')
  BY <1>2 DEF ExecutingIsExact
<1>5. \A u \in Tokens \ {t} : executing'[u] = Cardinality(Running(u)')
  BY <1>3 DEF ExecutingIsExact
<1>6. ExecutingIsExact'
  BY <1>4, <1>5 DEF ExecutingIsExact
<1>7. executing'[t] \in Nat
  BY <1>2, <1>4
<1> QED  BY <1>6, <1>7

-----------------------------------------------------------------------------
(* Steps on the registry leave the calls in progress alone.                *)

LEMMA SameStacks ==
    ASSUME TokenInv, UNCHANGED <<stacks, executing>>
    PROVE  StackShape' /\ ExecutingIsExact'
<1>1. frame' = frame /\ depth' = depth /\ executing' = executing
  BY DEF stacks
<1>2. ASSUME NEW t \in Tokens PROVE Running(t)' = Running(t)
  BY <1>1 DEF Running
<1> QED  BY <1>1, <1>2 DEF TokenInv, StackShape, ExecutingIsExact

LEMMA RegisterKeeps ==
    ASSUME TokenInv, NEW name \in Names, NEW loop \in Loops \cup {Inline}, NEW domain \in Domains \cup {None},
           domain # None => domains[domain] = loop,
           Register(name, loop, domain)
    PROVE  TokenInv'
<1> USE EventMessagesAssumption
<1> DEFINE t == issued + 1
<1>1. t \in Tokens /\ t \notin listeners /\ t \notin quiet /\ t \notin 1 .. issued
      /\ 1 .. issued \subseteq 1 .. t /\ issued \in Nat
  BY DEF TokenInv, TypeOK, Register, Tokens
<1>2. /\ issued' = t /\ listeners' = listeners \cup {t}
      /\ reg' = [reg EXCEPT ![t] = [name |-> name, loop |-> loop, domain |-> domain]]
      /\ active' = [active EXCEPT ![t] = TRUE]
      /\ UNCHANGED <<up, domains, executing, pending, frame, depth, emits, quiet>>
  BY DEF Register, stacks
<1> HIDE DEF t
<1>3. TypeOK'
  <2>1. reg' \in [Tokens -> [name : Names \cup {None}, loop : Loops \cup {Inline, None}, domain : Domains \cup {None}]]
    BY <1>1, <1>2 DEF TokenInv, TypeOK
  <2>2. issued' \in 0 .. MaxTokens
    BY <1>1, <1>2 DEF Tokens
  <2>3. listeners' \subseteq 1 .. issued' /\ quiet' \subseteq 1 .. issued'
    BY <1>1, <1>2 DEF TokenInv, TypeOK, t
  <2>4. active' \in [Tokens -> BOOLEAN]
    BY <1>1, <1>2 DEF TokenInv, TypeOK
  <2> QED  BY <1>2, <2>1, <2>2, <2>3, <2>4 DEF TokenInv, TypeOK
<1>4. FrameTokens'
  BY <1>1, <1>2 DEF TokenInv, FrameTokens
<1>5. ListenersAreActive'
  BY <1>1, <1>2 DEF TokenInv, TypeOK, ListenersAreActive
<1>6. DomainOutlivesListeners' /\ LoopsKnown'
  <2>1. /\ reg'[t].domain # None => domains'[reg'[t].domain] = reg'[t].loop
        /\ reg'[t].loop # None
    BY <1>1, <1>2 DEF TokenInv, TypeOK
  <2>2. \A u \in listeners : u \in Tokens /\ u # t
    BY <1>1, IssuedAreTokens DEF TokenInv
  <2>3. \A u \in listeners : reg'[u] = reg[u]
    BY <1>2, <2>2 DEF TokenInv, TypeOK
  <2> QED  BY <1>2, <2>1, <2>3 DEF TokenInv, DomainOutlivesListeners, LoopsKnown
<1>7. QuietStays'
  <2>1. \A u \in quiet : u \in Tokens /\ u # t
    BY <1>1, IssuedAreTokens DEF TokenInv
  <2> QED  BY <1>2, <2>1 DEF TokenInv, TypeOK, QuietStays
<1>8. StackShape' /\ ExecutingIsExact'
  BY <1>2, SameStacks DEF stacks
<1> QED  BY <1>3, <1>4, <1>5, <1>6, <1>7, <1>8 DEF TokenInv

RegistryStep(th) ==
    \/ EventInit(th)
    \/ EventShutdown(th)
    \/ \E d \in Domains, l \in Loops : DomainRegister(th, d, l)
    \/ \E d \in Domains : DomainUnregister(th, d)
    \/ \E n \in Names, l \in Loops \cup {Inline} : OnMessage(th, n, l)
    \/ \E n \in Names, d \in Domains : OnMessageDomain(th, n, d)

LEMMA RegistryKeeps ==
    ASSUME TokenInv, NEW th \in Threads, RegistryStep(th)
    PROVE  TokenInv'
<1> USE EventMessagesAssumption
<1>1. CASE EventInit(th)
  <2>1. StackShape' /\ ExecutingIsExact'
    BY <1>1, SameStacks DEF EventInit
  <2> QED  BY <1>1, <2>1 DEF EventInit, TokenInv, TypeOK, FrameTokens, ListenersAreActive,
                           DomainOutlivesListeners, LoopsKnown, QuietStays, stacks
<1>2. CASE EventShutdown(th)
  <2>1. StackShape' /\ ExecutingIsExact'
    BY <1>2, SameStacks DEF EventShutdown
  <2>2. \A t \in Tokens : ~active'[t]
    BY <1>2 DEF EventShutdown, TokenInv, TypeOK, ListenersAreActive
  <2>3. ListenersAreActive' /\ DomainOutlivesListeners' /\ LoopsKnown'
    BY <1>2, <2>2 DEF EventShutdown, ListenersAreActive, DomainOutlivesListeners, LoopsKnown
  <2>4. TypeOK' /\ FrameTokens'
    BY <1>2 DEF EventShutdown, TokenInv, TypeOK, FrameTokens, stacks
  <2>5. QuietStays'
    <3>1. quiet \subseteq Tokens
      BY DEF TokenInv, TypeOK, Tokens
    <3> QED  BY <1>2, <2>2, <3>1 DEF EventShutdown, TokenInv, QuietStays
  <2> QED  BY <2>1, <2>3, <2>4, <2>5 DEF TokenInv
<1>3. ASSUME NEW d \in Domains, NEW l \in Loops, DomainRegister(th, d, l) PROVE TokenInv'
  <2>1. StackShape' /\ ExecutingIsExact'
    BY <1>3, SameStacks DEF DomainRegister
  <2>2. DomainOutlivesListeners'
    <3> SUFFICES ASSUME NEW t \in listeners, reg[t].domain # None
                 PROVE  domains'[reg[t].domain] = reg[t].loop
      BY <1>3 DEF DomainRegister, DomainOutlivesListeners
    <3>1. t \in Tokens /\ reg[t].domain \in Domains /\ reg[t].loop # None
      BY DEF TokenInv, TypeOK, Tokens, LoopsKnown
    <3>2. domains[reg[t].domain] = reg[t].loop
      BY DEF TokenInv, DomainOutlivesListeners
    <3> QED  BY <1>3, <3>1, <3>2 DEF DomainRegister, TokenInv, TypeOK
  <2> QED  BY <1>3, <2>1, <2>2 DEF DomainRegister, TokenInv, TypeOK, FrameTokens, ListenersAreActive,
                           LoopsKnown, QuietStays, stacks
<1>4. ASSUME NEW d \in Domains, DomainUnregister(th, d) PROVE TokenInv'
  <2>1. StackShape' /\ ExecutingIsExact'
    BY <1>4, SameStacks DEF DomainUnregister
  <2>2. DomainOutlivesListeners'
    BY <1>4 DEF DomainUnregister, UsesDomain, DomainOutlivesListeners, TokenInv, TypeOK
  <2> QED  BY <1>4, <2>1, <2>2 DEF DomainUnregister, TokenInv, TypeOK, FrameTokens, ListenersAreActive,
                           LoopsKnown, QuietStays, stacks
<1>5. ASSUME NEW n \in Names, NEW l \in Loops \cup {Inline}, OnMessage(th, n, l) PROVE TokenInv'
  BY <1>5, RegisterKeeps DEF OnMessage
<1>6. ASSUME NEW n \in Names, NEW d \in Domains, OnMessageDomain(th, n, d) PROVE TokenInv'
  <2>1. domains[d] \in Loops
    BY <1>6 DEF OnMessageDomain, TokenInv, TypeOK
  <2> QED  BY <1>6, <2>1, RegisterKeeps DEF OnMessageDomain
<1> QED  BY <1>1, <1>2, <1>3, <1>4, <1>5, <1>6 DEF RegistryStep

-----------------------------------------------------------------------------
(* Steps of the calls in progress.                                         *)

StackTypes == frame \in [Places -> Frame] /\ depth \in [Threads -> 0 .. MaxDepth]

LEMMA PushMoves ==
    ASSUME TokenInv, NEW th \in Threads, depth[th] < MaxDepth, NEW f \in Frame, PushFrame(th, f)
    PROVE  /\ StackTypes' /\ StackShape'
           /\ <<th, depth[th] + 1>> \in Places
           /\ frame[<<th, depth[th] + 1>>].op = "none"
           /\ frame'[<<th, depth[th] + 1>>] = f
           /\ \A c \in Places \ {<<th, depth[th] + 1>>} : frame'[c] = frame[c]
<1> USE EventMessagesAssumption
<1>1. depth[th] + 1 \in Levels /\ depth[th] \in Nat
  BY DEF TokenInv, TypeOK, Levels
<1>2. <<th, depth[th] + 1>> \in Places /\ frame[<<th, depth[th] + 1>>].op = "none"
  BY <1>1 DEF TokenInv, StackShape, Places
<1>3. StackTypes'
  BY <1>1, <1>2 DEF StackTypes, PushFrame, TokenInv, TypeOK, Levels
<1>4. StackShape'
  BY <1>1, <1>2 DEF StackShape, PushFrame, TokenInv, TypeOK, Levels, Places
<1> QED  BY <1>2, <1>3, <1>4 DEF PushFrame, TokenInv, TypeOK

LEMMA PopMoves ==
    ASSUME TokenInv, NEW th \in Threads, depth[th] > 0, PopFrame(th)
    PROVE  /\ StackTypes' /\ StackShape'
           /\ Top(th) \in Places
           /\ frame'[Top(th)] = Nothing
           /\ \A c \in Places \ {Top(th)} : frame'[c] = frame[c]
<1> USE EventMessagesAssumption
<1>1. Top(th) \in Places /\ depth[th] \in 1 .. MaxDepth
  BY TopIsPlace DEF TokenInv, TypeOK
<1>2. Nothing \in Frame
  BY DEF Nothing, Frame
<1>3. StackTypes'
  BY <1>1, <1>2 DEF StackTypes, PopFrame, TokenInv, TypeOK
<1>4. StackShape'
  BY <1>1 DEF StackShape, PopFrame, TokenInv, TypeOK, Levels, Places, Top, Nothing
<1> QED  BY <1>1, <1>3, <1>4 DEF PopFrame, TokenInv, TypeOK

\* What a step that leaves the registry alone keeps for free.
LEMMA SameRegistry ==
    ASSUME TokenInv, UNCHANGED registry
    PROVE  /\ ListenersAreActive' /\ DomainOutlivesListeners' /\ LoopsKnown'
           /\ up' = up /\ domains' = domains /\ issued' = issued /\ reg' = reg
           /\ active' = active /\ listeners' = listeners
BY DEF registry, TokenInv, ListenersAreActive, DomainOutlivesListeners, LoopsKnown

LEMMA EmitSnapshotKeeps ==
    ASSUME TokenInv, NEW th \in Threads, NEW n \in Names, EmitSnapshot(th, n)
    PROVE  TokenInv'
<1> USE EventMessagesAssumption
<1> DEFINE f == Emission({t \in listeners : reg[t].name = n})
           p == <<th, depth[th] + 1>>
<1>0. {t \in listeners : reg[t].name = n} \subseteq Tokens
  BY IssuedAreTokens DEF TokenInv
<1>1. f \in Frame /\ f.op = "emit"
  BY <1>0 DEF Emission, Frame
<1>2. depth[th] < MaxDepth /\ PushFrame(th, f)
  BY DEF EmitSnapshot, TokenInv, TypeOK
<1> HIDE DEF f
<1>3. /\ StackTypes' /\ StackShape' /\ p \in Places /\ frame[p].op = "none" /\ frame'[p] = f
      /\ \A c \in Places \ {p} : frame'[c] = frame[c]
  BY <1>1, <1>2, PushMoves
<1>4. UNCHANGED <<registry, executing, pending, quiet>> /\ emits' \in 0 .. MaxEmit
  BY DEF EmitSnapshot, TokenInv, TypeOK
<1>5. TypeOK'
  BY <1>3, <1>4, SameRegistry DEF TokenInv, TypeOK, StackTypes
<1>6. FrameTokens'
  BY <1>1, <1>3, <1>4, SameRegistry DEF TokenInv, FrameTokens
<1>7. ExecutingIsExact'
  BY <1>1, <1>3, <1>4, SameCallbacks DEF TokenInv, ExecutingIsExact
<1>8. QuietStays'
  BY <1>4, SameRegistry DEF TokenInv, QuietStays
<1> QED  BY <1>3, <1>4, <1>5, <1>6, <1>7, <1>8, SameRegistry DEF TokenInv

\* event_off_token() up to the lock, and a drain that begins to wait.
LEMMA CallKeeps ==
    ASSUME TokenInv, NEW th \in Threads, NEW t \in 1 .. issued, NEW op \in {"off", "wait"},
           depth[th] < MaxDepth, PushFrame(th, Call(op, t)),
           UNCHANGED <<registry, executing, pending, emits, quiet>>
    PROVE  TokenInv'
<1> USE EventMessagesAssumption
<1> DEFINE p == <<th, depth[th] + 1>>
<1>1. Call(op, t) \in Frame /\ Call(op, t).op = op /\ Call(op, t).tok = t
  BY DEF Call, Frame, TokenInv, TypeOK, Tokens
<1>3. /\ StackTypes' /\ StackShape' /\ p \in Places /\ frame[p].op = "none" /\ frame'[p] = Call(op, t)
      /\ \A c \in Places \ {p} : frame'[c] = frame[c]
  BY <1>1, PushMoves
<1>5. TypeOK'
  BY <1>3, SameRegistry DEF TokenInv, TypeOK, StackTypes
<1>6. FrameTokens'
  BY <1>1, <1>3, SameRegistry DEF TokenInv, FrameTokens
<1>7. ExecutingIsExact'
  BY <1>1, <1>3, SameCallbacks DEF TokenInv, ExecutingIsExact
<1>8. QuietStays'
  BY SameRegistry DEF TokenInv, QuietStays
<1> QED  BY <1>3, <1>5, <1>6, <1>7, <1>8, SameRegistry DEF TokenInv

LEMMA DrainCallKeeps ==
    ASSUME TokenInv, NEW th \in Threads, NEW t \in Tokens, DrainCall(th, t)
    PROVE  TokenInv'
<1> USE EventMessagesAssumption
<1>1. t \in 1 .. issued /\ depth[th] < MaxDepth /\ UNCHANGED <<registry, executing, pending, emits>>
  BY DEF DrainCall, CanNest, TokenInv, TypeOK, Tokens
<1>2. CASE Idle(t) /\ quiet' = Quiet(t) /\ UNCHANGED stacks
  <2>1. StackShape' /\ ExecutingIsExact'
    BY <1>1, <1>2, SameStacks
  <2>2. TypeOK' /\ FrameTokens'
    BY <1>1, <1>2, SameRegistry DEF TokenInv, TypeOK, FrameTokens, stacks, Quiet
  <2>3. QuietStays'
    BY <1>1, <1>2, SameRegistry DEF TokenInv, QuietStays, Quiet, Idle
  <2> QED  BY <1>1, <2>1, <2>2, <2>3, SameRegistry DEF TokenInv
<1>3. CASE PushFrame(th, Call("wait", t)) /\ UNCHANGED quiet
  BY <1>1, <1>3, CallKeeps
<1> QED  BY <1>2, <1>3 DEF DrainCall

\* An emission that moves on to its next target, at the same level.
Left(th, t) == [frame EXCEPT ![Top(th)] = Emission(@.targets \ {t})]

LEMMA TargetTaken ==
    ASSUME TokenInv, NEW th \in Threads, In(th, "emit"), NEW t \in frame[Top(th)].targets
    PROVE  /\ t \in Tokens /\ Top(th) \in Places /\ depth[th] \in 1 .. MaxDepth
           /\ Left(th, t) \in [Places -> Frame]
           /\ Left(th, t)[Top(th)].op = "emit"
           /\ \A c \in Places \ {Top(th)} : Left(th, t)[c] = frame[c]
<1>1. Top(th) \in Places /\ depth[th] \in 1 .. MaxDepth
  BY TopIsPlace, EventMessagesAssumption DEF TokenInv, TypeOK, In
<1>2. frame[Top(th)].targets \subseteq Tokens
  BY <1>1 DEF TokenInv, TypeOK, Frame
<1>3. Emission(frame[Top(th)].targets \ {t}) \in Frame /\ Emission(frame[Top(th)].targets \ {t}).op = "emit"
  BY <1>2 DEF Emission, Frame
<1> QED  BY <1>1, <1>2, <1>3 DEF TokenInv, TypeOK, Left

LEMMA EmitDispatchKeeps ==
    ASSUME TokenInv, NEW th \in Threads, EmitDispatch(th)
    PROVE  TokenInv'
<1> USE EventMessagesAssumption
<1>1. PICK t \in frame[Top(th)].targets :
        /\ pending' = [pending EXCEPT ![<<reg[t].loop, t>>] = @ + 1]
        /\ frame' = Left(th, t)
  BY DEF EmitDispatch, Newest, Left
<1>2. In(th, "emit") /\ UNCHANGED <<registry, executing, depth, emits, quiet>>
  BY DEF EmitDispatch
<1>3. /\ t \in Tokens /\ Top(th) \in Places /\ depth[th] \in 1 .. MaxDepth
      /\ frame' \in [Places -> Frame] /\ frame'[Top(th)].op = "emit"
      /\ \A c \in Places \ {Top(th)} : frame'[c] = frame[c]
  BY <1>1, <1>2, TargetTaken
<1>4. frame[Top(th)].op = "emit"
  BY <1>2 DEF In
<1>5. pending' \in [Work -> Nat]
  <2>1. pending \in [Work -> Nat]
    BY DEF TokenInv, TypeOK
  <2> DEFINE w == <<reg[t].loop, t>>
  <2>2. \A v \in Work : pending'[v] = IF v = w THEN pending[v] + 1 ELSE pending[v]
    BY <1>1, <2>1
  <2>3. pending' = [v \in Work |-> pending'[v]]
    BY <1>1, <2>1
  <2> HIDE DEF w
  <2> QED  BY ONLY <2>1, <2>2, <2>3
<1>6. TypeOK'
  BY <1>2, <1>3, <1>5, SameRegistry DEF TokenInv, TypeOK
<1>7. StackShape'
  BY <1>2, <1>3 DEF TokenInv, StackShape, Top, Places, Levels
<1>8. FrameTokens'
  BY <1>2, <1>3, SameRegistry DEF TokenInv, FrameTokens
<1>9. ExecutingIsExact'
  BY <1>2, <1>3, <1>4, SameCallbacks DEF TokenInv, ExecutingIsExact
<1>10. QuietStays'
  BY <1>2, SameRegistry DEF TokenInv, QuietStays
<1> QED  BY <1>2, <1>6, <1>7, <1>8, <1>9, <1>10, SameRegistry DEF TokenInv

\* A callback is entered at place p, of an active token.
LEMMA EntryKeeps ==
    ASSUME TokenInv, NEW p \in Places, NEW t \in Tokens, active[t],
           StackTypes', StackShape',
           frame[p].op # "cb", frame'[p] = Call("cb", t),
           \A c \in Places \ {p} : frame'[c] = frame[c] \/ (frame[c].op = "emit" /\ frame'[c].op = "emit"),
           executing' = [executing EXCEPT ![t] = @ + 1],
           pending' \in [Work -> Nat],
           UNCHANGED <<registry, emits, quiet>>
    PROVE  TokenInv'
<1> USE EventMessagesAssumption
<1>1. ExecutingIsExact'
  BY EnterCallback DEF TokenInv, TypeOK
<1>2. executing' \in [Tokens -> Nat]
  BY DEF TokenInv, TypeOK
<1>3. TypeOK'
  BY <1>2, SameRegistry DEF TokenInv, TypeOK, StackTypes
<1>4. FrameTokens'
  <2>1. Call("cb", t).op = "cb" /\ Call("cb", t).tok = t
    BY DEF Call
  <2> QED  BY <2>1, SameRegistry DEF TokenInv, FrameTokens
<1>5. QuietStays'
  <2>1. t \notin quiet /\ quiet \subseteq Tokens
    BY IssuedAreTokens DEF TokenInv, QuietStays
  <2> QED  BY <2>1, SameRegistry DEF TokenInv, QuietStays, TypeOK
<1> QED  BY <1>1, <1>3, <1>4, <1>5, SameRegistry DEF TokenInv

LEMMA EmitInlineKeeps ==
    ASSUME TokenInv, NEW th \in Threads, EmitInline(th)
    PROVE  TokenInv'
<1> USE EventMessagesAssumption
<1> DEFINE p == <<th, depth[th] + 1>>
<1>1. PICK t \in frame[Top(th)].targets :
        \/ /\ MayRun(t)
           /\ depth[th] < MaxDepth
           /\ executing' = [executing EXCEPT ![t] = @ + 1]
           /\ depth' = [depth EXCEPT ![th] = @ + 1]
           /\ frame' = [Left(th, t) EXCEPT ![p] = Call("cb", t)]
        \/ /\ frame' = Left(th, t)
           /\ UNCHANGED <<executing, depth>>
  BY DEF EmitInline, Newest, Left
<1>2. In(th, "emit") /\ UNCHANGED <<registry, pending, emits, quiet>>
  BY DEF EmitInline
<1>3. /\ t \in Tokens /\ Top(th) \in Places /\ depth[th] \in 1 .. MaxDepth
      /\ Left(th, t) \in [Places -> Frame] /\ Left(th, t)[Top(th)].op = "emit"
      /\ \A c \in Places \ {Top(th)} : Left(th, t)[c] = frame[c]
  BY <1>2, TargetTaken
<1>4. frame[Top(th)].op = "emit"
  BY <1>2 DEF In
<1>5. CASE /\ MayRun(t)
           /\ depth[th] < MaxDepth
           /\ executing' = [executing EXCEPT ![t] = @ + 1]
           /\ depth' = [depth EXCEPT ![th] = @ + 1]
           /\ frame' = [Left(th, t) EXCEPT ![p] = Call("cb", t)]
  <2>1. p \in Places /\ p # Top(th) /\ frame[p].op = "none"
    BY <1>3, <1>5 DEF Places, Levels, Top, TokenInv, StackShape
  <2>2. Call("cb", t) \in Frame
    BY <1>3 DEF Call, Frame
  <2>3. frame' \in [Places -> Frame] /\ frame'[p] = Call("cb", t) /\ frame'[Top(th)].op = "emit"
        /\ \A c \in Places \ {p, Top(th)} : frame'[c] = frame[c]
    BY <1>3, <1>5, <2>1, <2>2
  <2>4. StackTypes'
    BY <1>3, <1>5, <2>3 DEF StackTypes, TokenInv, TypeOK
  <2>5. StackShape'
    BY <1>3, <1>5, <2>1, <2>3 DEF StackShape, TokenInv, TypeOK, Top, Places, Levels
  <2>6. active[t] /\ pending' \in [Work -> Nat]
    <3>1. active[t]
      BY <1>5 DEF MayRun
    <3> QED  BY <1>2, <3>1 DEF TokenInv, TypeOK
  <2>7. \A c \in Places \ {p} : frame'[c] = frame[c] \/ (frame[c].op = "emit" /\ frame'[c].op = "emit")
    <3>1. ASSUME NEW c \in Places \ {p} PROVE frame'[c] = frame[c] \/ (frame[c].op = "emit" /\ frame'[c].op = "emit")
      <4>1. CASE c = Top(th)
        BY <1>4, <2>3, <4>1
      <4>2. CASE c # Top(th)
        BY <2>3, <4>2
      <4> QED  BY <4>1, <4>2
    <3> QED  BY <3>1
  <2>8. frame[p].op # "cb" /\ UNCHANGED <<registry, emits, quiet>>
    BY <1>2, <2>1
  <2> QED  BY <1>3, <1>5, <2>1, <2>3, <2>4, <2>5, <2>6, <2>7, <2>8, EntryKeeps
<1>6. CASE frame' = Left(th, t) /\ UNCHANGED <<executing, depth>>
  <2>1. TypeOK'
    BY <1>2, <1>3, <1>6, SameRegistry DEF TokenInv, TypeOK
  <2>2. StackShape'
    BY <1>3, <1>6 DEF TokenInv, StackShape, Top, Places, Levels
  <2>3. FrameTokens'
    BY <1>2, <1>3, <1>6, SameRegistry DEF TokenInv, FrameTokens
  <2>4. ExecutingIsExact'
    BY <1>3, <1>4, <1>6, SameCallbacks DEF TokenInv, ExecutingIsExact
  <2>5. QuietStays'
    BY <1>2, <1>6, SameRegistry DEF TokenInv, QuietStays
  <2> QED  BY <1>2, <2>1, <2>2, <2>3, <2>4, <2>5, SameRegistry DEF TokenInv
<1> QED  BY <1>1, <1>5, <1>6

LEMMA LoopDeliverKeeps ==
    ASSUME TokenInv, NEW l \in Loops, NEW t \in Tokens, LoopDeliver(l, t)
    PROVE  TokenInv'
<1> USE EventMessagesAssumption
<1> DEFINE p == <<l, depth[l] + 1>>
<1>1. l \in Threads /\ depth[l] < MaxDepth /\ UNCHANGED <<registry, emits, quiet>>
  BY DEF LoopDeliver
<1>2. pending' \in [Work -> Nat]
  <2>1. pending \in [Work -> Nat] /\ <<l, t>> \in Work /\ pending[<<l, t>>] > 0
        /\ pending' = [pending EXCEPT ![<<l, t>>] = @ - 1]
    BY DEF LoopDeliver, TokenInv, TypeOK, Work
  <2>2. pending[<<l, t>>] - 1 \in Nat
    BY <2>1
  <2> QED  BY ONLY <2>1, <2>2
<1>3. CASE /\ MayRun(t) /\ executing' = [executing EXCEPT ![t] = @ + 1]
           /\ PushFrame(l, Call("cb", t))
  <2>1. Call("cb", t) \in Frame
    BY DEF Call, Frame
  <2>2. /\ StackTypes' /\ StackShape' /\ p \in Places /\ frame[p].op = "none" /\ frame'[p] = Call("cb", t)
        /\ \A c \in Places \ {p} : frame'[c] = frame[c]
    BY <1>1, <1>3, <2>1, PushMoves
  <2>3. active[t]
    BY <1>3 DEF MayRun
  <2> QED  BY <1>1, <1>2, <1>3, <2>2, <2>3, EntryKeeps
<1>4. CASE UNCHANGED <<executing, stacks>>
  <2>1. StackShape' /\ ExecutingIsExact'
    BY <1>4, SameStacks
  <2>2. TypeOK' /\ FrameTokens'
    BY <1>1, <1>2, <1>4, SameRegistry DEF TokenInv, TypeOK, FrameTokens, stacks
  <2>3. QuietStays'
    BY <1>1, <1>4, SameRegistry DEF TokenInv, QuietStays
  <2> QED  BY <1>1, <2>1, <2>2, <2>3, SameRegistry DEF TokenInv
<1> QED  BY <1>3, <1>4 DEF LoopDeliver

\* A call other than a callback ends: emission, off, or a woken drain.
LEMMA PopKeeps ==
    ASSUME TokenInv, NEW th \in Threads, depth[th] > 0, frame[Top(th)].op # "cb", PopFrame(th),
           UNCHANGED executing
    PROVE  StackTypes' /\ StackShape' /\ ExecutingIsExact' /\ (issued' = issued => FrameTokens')
<1>1. /\ StackTypes' /\ StackShape' /\ Top(th) \in Places /\ frame'[Top(th)] = Nothing
      /\ \A c \in Places \ {Top(th)} : frame'[c] = frame[c]
  BY PopMoves
<1>2. Nothing.op = "none"
  BY DEF Nothing
<1>3. \A c \in Places : /\ frame'[c].op = "cb" <=> frame[c].op = "cb"
                        /\ frame[c].op = "cb" => frame'[c].tok = frame[c].tok
  <2>1. ASSUME NEW c \in Places
        PROVE  /\ frame'[c].op = "cb" <=> frame[c].op = "cb"
               /\ frame[c].op = "cb" => frame'[c].tok = frame[c].tok
    <3>1. CASE c = Top(th)
      BY <1>1, <1>2, <3>1
    <3>2. CASE c # Top(th)
      BY <1>1, <3>2
    <3> QED  BY <3>1, <3>2
  <2> QED  BY <2>1
<1>4. ExecutingIsExact'
  BY <1>3, SameCallbacks DEF TokenInv, ExecutingIsExact
<1>5. ASSUME issued' = issued PROVE FrameTokens'
  BY <1>1, <1>2, <1>5 DEF TokenInv, FrameTokens
<1> QED  BY <1>1, <1>4, <1>5

LEMMA EmitReturnKeeps ==
    ASSUME TokenInv, NEW th \in Threads, EmitReturn(th)
    PROVE  TokenInv'
<1>1. /\ depth[th] > 0 /\ frame[Top(th)].op # "cb" /\ PopFrame(th)
      /\ UNCHANGED <<registry, executing, pending, emits, quiet>>
  BY DEF EmitReturn, In
<1>2. StackTypes' /\ StackShape' /\ ExecutingIsExact' /\ FrameTokens'
  BY <1>1, PopKeeps, SameRegistry
<1>3. TypeOK'
  BY <1>1, <1>2, SameRegistry DEF TokenInv, TypeOK, StackTypes
<1>4. QuietStays'
  BY <1>1, SameRegistry DEF TokenInv, QuietStays
<1> QED  BY <1>1, <1>2, <1>3, <1>4, SameRegistry DEF TokenInv

LEMMA OffLockedKeeps ==
    ASSUME TokenInv, NEW th \in Threads, OffLocked(th)
    PROVE  TokenInv'
<1> USE EventMessagesAssumption
<1> DEFINE t == frame[Top(th)].tok
<1>1. /\ depth[th] > 0 /\ frame[Top(th)].op = "off" /\ PopFrame(th)
      /\ UNCHANGED <<up, domains, issued, reg, executing, pending, emits, quiet>>
      /\ listeners' = listeners \ {t} /\ active' = [active EXCEPT ![t] = FALSE]
  BY DEF OffLocked, In
<1>2. t \in Tokens
  BY <1>1, TopIsPlace, IssuedAreTokens DEF TokenInv, FrameTokens
<1> HIDE DEF t
<1>3. StackTypes' /\ StackShape' /\ ExecutingIsExact' /\ FrameTokens'
  BY <1>1, PopKeeps
<1>4. TypeOK'
  BY <1>1, <1>2, <1>3 DEF TokenInv, TypeOK, StackTypes
<1>5. ListenersAreActive'
  BY <1>1, <1>2 DEF TokenInv, TypeOK, ListenersAreActive
<1>6. DomainOutlivesListeners' /\ LoopsKnown'
  BY <1>1 DEF TokenInv, DomainOutlivesListeners, LoopsKnown
<1>7. QuietStays'
  BY <1>1, <1>2, IssuedAreTokens DEF TokenInv, TypeOK, QuietStays
<1> QED  BY <1>3, <1>4, <1>5, <1>6, <1>7 DEF TokenInv

LEMMA DrainWokenKeeps ==
    ASSUME TokenInv, NEW th \in Threads, DrainWoken(th)
    PROVE  TokenInv'
<1> USE EventMessagesAssumption
<1> DEFINE t == frame[Top(th)].tok
<1>1. /\ depth[th] > 0 /\ frame[Top(th)].op = "woken" /\ Top(th) \in Places
      /\ UNCHANGED <<registry, executing, pending, emits>>
  BY TopIsPlace DEF DrainWoken, In, TokenInv
<1>2. t \in 1 .. issued
  BY <1>1 DEF TokenInv, FrameTokens
<1> HIDE DEF t
<1>3. CASE Idle(t) /\ quiet' = Quiet(t) /\ PopFrame(th)
  <2>1. StackTypes' /\ StackShape' /\ ExecutingIsExact' /\ FrameTokens'
    BY <1>1, <1>3, PopKeeps, SameRegistry
  <2>2. TypeOK'
    BY <1>1, <1>2, <1>3, <2>1, SameRegistry DEF TokenInv, TypeOK, StackTypes, Quiet
  <2>3. QuietStays'
    BY <1>1, <1>3, SameRegistry DEF TokenInv, QuietStays, Quiet, Idle
  <2> QED  BY <1>1, <2>1, <2>2, <2>3, SameRegistry DEF TokenInv
<1>4. CASE frame' = [frame EXCEPT ![Top(th)] = Call("wait", t)] /\ UNCHANGED <<depth, quiet>>
  <2>1. Call("wait", t) \in Frame /\ Call("wait", t).op = "wait" /\ Call("wait", t).tok = t
    BY <1>1, <1>2, IssuedAreTokens DEF Call, Frame, TokenInv
  <2>2. /\ frame' \in [Places -> Frame] /\ frame'[Top(th)] = Call("wait", t)
        /\ \A c \in Places \ {Top(th)} : frame'[c] = frame[c]
    BY <1>1, <1>4, <2>1 DEF TokenInv, TypeOK
  <2>3. TypeOK'
    BY <1>1, <1>4, <2>2, SameRegistry DEF TokenInv, TypeOK
  <2>4. StackShape'
    <3>1. \A i \in Levels : i > depth[th] => <<th, i>> # Top(th)
      BY DEF Top, TokenInv, TypeOK, Levels
    <3>2. \A u \in Threads, i \in Levels : <<u, i>> \in Places /\ (u # th => <<u, i>> # Top(th))
      BY DEF Places, Top
    <3> QED  BY <1>4, <2>2, <3>1, <3>2 DEF TokenInv, StackShape
  <2>5. FrameTokens'
    BY <1>1, <1>2, <2>1, <2>2, SameRegistry DEF TokenInv, FrameTokens
  <2>6. ExecutingIsExact'
    BY <1>1, <2>1, <2>2, SameCallbacks DEF TokenInv, ExecutingIsExact
  <2>7. QuietStays'
    BY <1>1, <1>4, SameRegistry DEF TokenInv, QuietStays
  <2> QED  BY <1>1, <2>3, <2>4, <2>5, <2>6, <2>7, SameRegistry DEF TokenInv
<1> QED  BY <1>3, <1>4 DEF DrainWoken, t

\* A broadcast turns waiters into woken drains and touches nothing else.
LEMMA WakeShape ==
    ASSUME NEW f \in [Places -> Frame], NEW g, g = f \/ g = Wake(f)
    PROVE  /\ g \in [Places -> Frame]
           /\ \A c \in Places : \/ g[c] = f[c]
                                \/ /\ f[c].op = "wait" /\ g[c].op = "woken"
                                   /\ g[c].tok = f[c].tok
<1>1. ASSUME NEW c \in Places, f[c].op = "wait"
      PROVE  /\ [f[c] EXCEPT !.op = "woken"] \in Frame
             /\ [f[c] EXCEPT !.op = "woken"].op = "woken"
             /\ [f[c] EXCEPT !.op = "woken"].tok = f[c].tok
  BY <1>1 DEF Frame
<1>2. CASE g = f
  BY <1>2
<1>3. CASE g = Wake(f)
  <2>1. ASSUME NEW c \in Places
        PROVE  g[c] = IF f[c].op = "wait" THEN [f[c] EXCEPT !.op = "woken"] ELSE f[c]
    BY <1>3 DEF Wake
  <2>2. g \in [Places -> Frame]
    BY <1>1, <1>3 DEF Wake
  <2> QED  BY <1>1, <2>1, <2>2
<1> QED  BY <1>2, <1>3

LEMMA CallbackReturnKeeps ==
    ASSUME TokenInv, NEW th \in Threads, CallbackReturn(th)
    PROVE  TokenInv'
<1> USE EventMessagesAssumption
<1> DEFINE t == frame[Top(th)].tok
           p == Top(th)
           popped == [frame EXCEPT ![p] = Nothing]
<1>1. /\ depth[th] > 0 /\ frame[p].op = "cb" /\ p \in Places
      /\ UNCHANGED <<registry, pending, emits, quiet>>
      /\ depth' = [depth EXCEPT ![th] = @ - 1]
      /\ executing' = [executing EXCEPT ![t] = @ - 1]
  BY TopIsPlace DEF CallbackReturn, In, TokenInv
<1>2. t \in Tokens /\ t \notin quiet
  <2>1. t \in Tokens
    BY <1>1 DEF TokenInv, FrameTokens
  <2>2. p \in Running(t)
    BY <1>1 DEF Running
  <2>3. Cardinality(Running(t)) # 0
    BY <2>2, RunningFinite, FS_EmptySet
  <2> QED  BY <2>1, <2>3 DEF TokenInv, QuietStays, ExecutingIsExact
<1>3. Nothing \in Frame /\ Nothing.op = "none"
  BY DEF Nothing, Frame
<1>4. popped \in [Places -> Frame] /\ popped[p] = Nothing /\ \A c \in Places \ {p} : popped[c] = frame[c]
  BY <1>1, <1>3 DEF TokenInv, TypeOK
<1>5. frame' = popped \/ frame' = Wake(popped)
  BY DEF CallbackReturn
<1>6. /\ frame' \in [Places -> Frame]
      /\ \A c \in Places : \/ frame'[c] = popped[c]
                           \/ /\ popped[c].op = "wait" /\ frame'[c].op = "woken"
                              /\ frame'[c].tok = popped[c].tok
  BY <1>4, <1>5, WakeShape
<1> HIDE DEF t, p, popped
<1>7. frame'[p].op = "none"
  BY <1>1, <1>3, <1>4, <1>6
<1>8. ASSUME NEW c \in Places \ {p}
      PROVE  \/ frame'[c] = frame[c]
             \/ /\ frame[c].op = "wait" /\ frame'[c].op = "woken"
                /\ frame'[c].tok = frame[c].tok
  BY <1>4, <1>6
<1>9. ExecutingIsExact' /\ executing' \in [Tokens -> Nat]
  <2>1. \A c \in Places \ {p} : /\ frame'[c].op = "cb" <=> frame[c].op = "cb"
                                /\ frame[c].op = "cb" => frame'[c].tok = frame[c].tok
    BY <1>8
  <2>2. frame[p].tok = t /\ frame'[p].op # "cb"
    BY <1>7 DEF t, p
  <2>3. ExecutingIsExact /\ executing \in [Tokens -> Nat]
    BY DEF TokenInv, TypeOK
  <2> QED  BY <1>1, <1>2, <2>1, <2>2, <2>3, LeaveCallback
<1>10. depth' \in [Threads -> 0 .. MaxDepth]
  BY <1>1 DEF TokenInv, TypeOK
<1>11. TypeOK'
  BY <1>1, <1>6, <1>9, <1>10, SameRegistry DEF TokenInv, TypeOK
<1>12. StackShape'
  <2> SUFFICES ASSUME NEW u \in Threads, NEW i \in Levels, i > depth'[u]
               PROVE  frame'[<<u, i>>].op = "none"
    BY DEF StackShape
  <2>1. <<u, i>> \in Places
    BY DEF Places
  <2>2. CASE <<u, i>> = p
    BY <1>7, <2>2
  <2>3. CASE <<u, i>> # p
    <3>1. i > depth[u]
      BY <1>1, <2>3 DEF p, Top, TokenInv, TypeOK, Levels
    <3>2. frame[<<u, i>>].op = "none"
      BY <3>1 DEF TokenInv, StackShape
    <3> QED  BY <1>8, <2>1, <2>3, <3>2
  <2> QED  BY <2>2, <2>3
<1>13. FrameTokens'
  <2>1. issued' = issued
    BY <1>1, SameRegistry
  <2> SUFFICES ASSUME NEW c \in Places
               PROVE  /\ frame'[c].op = "cb" => frame'[c].tok \in Tokens
                      /\ frame'[c].op \in {"off", "wait", "woken"} => frame'[c].tok \in 1 .. issued
    BY <2>1 DEF FrameTokens
  <2>2. CASE c = p
    BY <1>7, <2>2
  <2>3. CASE c # p
    BY <1>8, <2>3 DEF TokenInv, FrameTokens
  <2> QED  BY <2>2, <2>3
<1>14. QuietStays'
  <2>1. \A u \in quiet : u \in Tokens /\ u # t
    BY <1>2, IssuedAreTokens DEF TokenInv
  <2> QED  BY <1>1, <2>1, SameRegistry DEF TokenInv, TypeOK, QuietStays
<1> QED  BY <1>1, <1>9, <1>11, <1>12, <1>13, <1>14, SameRegistry DEF TokenInv

-----------------------------------------------------------------------------
(* The theorems.                                                           *)

LEMMA StepTokens == TokenInv /\ [Next]_vars => TokenInv'
<1> SUFFICES ASSUME TokenInv, [Next]_vars PROVE TokenInv'
  OBVIOUS
<1>1. ASSUME NEW th \in Threads, Proceed(th) PROVE TokenInv'
  BY <1>1, EmitDispatchKeeps, EmitInlineKeeps, EmitReturnKeeps, CallbackReturnKeeps, OffLockedKeeps,
     DrainWokenKeeps DEF Proceed
<1>2. ASSUME NEW l \in Loops, LoopStep(l) PROVE TokenInv'
  BY <1>2, LoopDeliverKeeps DEF LoopStep
<1>3. ASSUME NEW th \in Threads, Request(th) PROVE TokenInv'
  <2>1. ASSUME NEW n \in Names, EmitSnapshot(th, n) PROVE TokenInv'
    BY <2>1, EmitSnapshotKeeps
  <2>2. ASSUME NEW t \in Tokens, OffCheck(th, t) PROVE TokenInv'
    <3>1. t \in 1 .. issued /\ depth[th] < MaxDepth /\ PushFrame(th, Call("off", t))
          /\ UNCHANGED <<registry, executing, pending, emits, quiet>>
      BY <2>2, EventMessagesAssumption DEF OffCheck, CanNest, Tokens, TokenInv, TypeOK
    <3> QED  BY <3>1, CallKeeps
  <2>3. ASSUME NEW t \in Tokens, DrainCall(th, t) PROVE TokenInv'
    BY <2>3, DrainCallKeeps
  <2>4. CASE RegistryStep(th)
    BY <2>4, RegistryKeeps
  <2> QED  BY <1>3, <2>1, <2>2, <2>3, <2>4 DEF Request, RegistryStep
<1>4. CASE UNCHANGED vars
  <2>1. StackShape' /\ ExecutingIsExact'
    BY <1>4, SameStacks DEF vars
  <2> QED  BY <1>4, <2>1, SameRegistry DEF vars, stacks, TokenInv, TypeOK, FrameTokens, QuietStays
<1> QED  BY <1>1, <1>2, <1>3, <1>4 DEF Next

LEMMA TokenInvAlways == Spec => []TokenInv
<1> QED  BY InitTokens, StepTokens, PTL DEF Spec

\* Types of the registry, the counters and the call stacks.
THEOREM TokenTypes == Spec => []TypeOK
<1>1. TokenInv => TypeOK
  BY DEF TokenInv
<1> QED  BY <1>1, TokenInvAlways, PTL

\* token->executing always equals the number of running callbacks of the token.
THEOREM ExecutingExact == Spec => []ExecutingIsExact
<1>1. TokenInv => ExecutingIsExact
  BY DEF TokenInv
<1> QED  BY <1>1, TokenInvAlways, PTL

\* A token is active exactly while its listener is on the list.
THEOREM ListenersActive == Spec => []ListenersAreActive
<1>1. TokenInv => ListenersAreActive
  BY DEF TokenInv
<1> QED  BY <1>1, TokenInvAlways, PTL

\* event_domain_unregister() never succeeds under a registered message listener.
THEOREM DomainOutlives == Spec => []DomainOutlivesListeners
<1>1. TokenInv => DomainOutlivesListeners
  BY DEF TokenInv
<1> QED  BY <1>1, TokenInvAlways, PTL

\* After event_off_token() and a returned event_message_token_drain(), no
\* callback of the token runs, on any thread, for the rest of the execution.
THEOREM SafeToUnload == Spec => []NothingRunsAfterDrain
<1>1. ASSUME TokenInv, NEW t \in quiet PROVE Running(t) = {}
  <2>1. t \in Tokens /\ executing[t] = 0
    BY <1>1, IssuedAreTokens DEF TokenInv, QuietStays
  <2>2. Cardinality(Running(t)) = 0
    BY <1>1, <2>1 DEF TokenInv, ExecutingIsExact
  <2> QED  BY <2>2, RunningFinite, FS_EmptySet
<1>2. TokenInv => NothingRunsAfterDrain
  BY <1>1 DEF NothingRunsAfterDrain
<1> QED  BY <1>2, TokenInvAlways, PTL
============================================================================
