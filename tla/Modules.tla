------------------------------ MODULE Modules ------------------------------
(***************************************************************************)
(* module.c: shared objects that are loaded, run their init hook, are      *)
(* listed, and are unloaded through their guard and shutdown hook, while   *)
(* the logger holds pointers into their code.                              *)
(*                                                                         *)
(* A module's init hook registers one log callback and keeps its token;    *)
(* its shutdown hook removes that token, as the fixture of the tests does. *)
(***************************************************************************)
EXTENDS Logger

CONSTANTS Names,        \* names passed to rr_load_module()
          File(_),      \* the shared object a name resolves to
          MaxLoads,     \* bound: calls of rr_load_module()
          Tidy          \* do hooks that fail, or shut down, remove their callback?

Files == {File(n) : n \in Names}

\* A module's callback is named by its file and the load that registered it; the
\* subscribers of the program itself have names of their own.
CallbackIds == Subscribers \cup (Files \X (0 .. MaxLoads))

ASSUME ModulesAssumption ==
    /\ MaxLoads \in Nat /\ Tidy \in BOOLEAN
    /\ None \notin CallbackIds
    /\ Subscribers \cap (Files \X (0 .. MaxLoads)) = {}

VARIABLES modules,      \* the names in the list of loaded modules
          opened,       \* dlopen() calls not yet closed, per file
          token,        \* the static variable of each file: its callback, or None
          loads         \* calls of rr_load_module() so far

moduleVars == <<modules, opened, token, loads>>

Mapped(f) == opened[f] > 0

\* What the init hook registers.
CallbackOf(f) == <<f, loads>>
Owns(f, id) == id \in {<<f, k>> : k \in 0 .. MaxLoads}

\* rr_module_can_unload(): a module refuses while a delivery is inside its callback.
CanUnload(f) == ~\E id \in Ids(log_callbacks) : Owns(f, id) /\ Iterated(id)

-----------------------------------------------------------------------------
\* rr_load_module() of a name that is not listed: dlopen, init hook, list.
LoadModule(n) ==
    LET f == File(n) IN
    /\ AtRest /\ loads < MaxLoads
    /\ n \notin modules
    /\ loads' = loads + 1
    /\ Subscribed(CallbackOf(f), FILTERED)
    /\ token' = [token EXCEPT ![f] = CallbackOf(f)]
    /\ opened' = [opened EXCEPT ![f] = @ + 1]
    /\ modules' = modules \cup {n}
    /\ UNCHANGED <<switches, queue, log_filters, rates, now, submitting, issued, ocall, budget, stack>>

\* The init hook fails: the object is closed again and its shutdown hook not called.
LoadFails(n) ==
    LET f == File(n) IN
    /\ AtRest /\ loads < MaxLoads
    /\ n \notin modules
    /\ loads' = loads + 1
    /\ \/ Tidy /\ UNCHANGED <<subs, token>>
       \/ /\ ~Tidy
          /\ Subscribed(CallbackOf(f), FILTERED)
          /\ token' = [token EXCEPT ![f] = CallbackOf(f)]
    /\ UNCHANGED <<modules, opened>>
    /\ UNCHANGED <<switches, queue, log_filters, rates, now, submitting, issued, ocall, budget, stack>>

\* Mutant: the object is closed without its shutdown hook.
ShutdownNotCalled(f) == UNCHANGED <<subs, token, stack>>

\* rr_module_shutdown()
Shutdown(f) ==
    /\ token' = [token EXCEPT ![f] = None]
    /\ IF Tidy /\ token[f] \in Ids(log_callbacks)
       THEN Unsubscribed(token[f])
       ELSE UNCHANGED <<subs, stack>>

\* rr_unload_module(): guard, shutdown hook, out of the list, dlclose.
UnloadModule(n) ==
    LET f == File(n) IN
    /\ AtRest
    /\ n \in modules
    /\ CanUnload(f)
    /\ Shutdown(f)
    /\ modules' = modules \ {n}
    /\ opened' = [opened EXCEPT ![f] = @ - 1]
    /\ UNCHANGED loads
    /\ UNCHANGED <<switches, queue, log_filters, rates, now, submitting, issued, ocall, budget>>

ModulesStart ==
    /\ modules = {} /\ loads = 0
    /\ opened = [f \in Files |-> 0]
    /\ token = [f \in Files |-> None]

ModulesNext == \E n \in Names : LoadModule(n) \/ LoadFails(n) \/ UnloadModule(n)

\* The logger and the modules that use it, under one owner.
ModulesSpec ==
    /\ LoggerStart /\ ModulesStart
    /\ [][(LoggerNext /\ UNCHANGED moduleVars) \/ ModulesNext]_<<loggerVars, moduleVars>>

-----------------------------------------------------------------------------
\* Types of the logger and the loader.
ModulesTypeOK ==
    /\ LoggerTypes(CallbackIds)
    /\ modules \subseteq Names /\ loads \in 0 .. MaxLoads
    /\ opened \in [Files -> Nat] /\ token \in [Files -> CallbackIds \cup {None}]

\* No callback of the logger points into a module that has been unmapped, whatever
\* deliveries were in progress when it was unloaded ("A module that fails to clean up
\* is left loaded (never dlclose()d) so no stale function pointer can be called after
\* unmap").
ArmedCodeIsMapped ==
    \A id \in Ids(log_callbacks) : \A f \in Files : Owns(f, id) => Mapped(f)
=============================================================================
