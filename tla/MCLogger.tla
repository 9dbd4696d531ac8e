------------------------------ MODULE MCLogger ------------------------------
(* Model-checking instances of the logger and the module loader.             *)
EXTENDS Modules

CONSTANTS Scenarios     \* which of the questions below a run asks

VARIABLE scenario

SourcesUsed == {<<"bus.rx", 3>>, <<"bus", 5>>}

\* A rate for the bus, a rule whose rate cannot be read, and one with no level.
RulesUsed == <<[pattern |-> "bus.*", level |-> 4, count |-> 1, seconds |-> 1],
               [pattern |-> "gui",   level |-> 4, count |-> -1, seconds |-> 1],
               [pattern |-> "gui",   level |-> -1, count |-> 0, seconds |-> 0]>>

ExtraUsed == {[pattern |-> "*", level |-> 2, count |-> 0, seconds |-> 0],
              [pattern |-> "bus.rx", level |-> 5, count |-> 2, seconds |-> 2]}

OneFile(n) == IF n \in {"m", "m.so"} THEN "m" ELSE "k"

Unqueued == accepted = <<>> /\ \A t \in Threads : submitting[t] = Idle

\* What each scenario keeps apart: threads and sessions; callbacks, modules and
\* nested calls; filters, rates and time.
Focus ==
    \/ /\ scenario = "sessions"
       /\ now = 0 /\ loads = 0 /\ Len(stack) <= 1 /\ Len(log_callbacks) <= 1
       /\ \A i \in DOMAIN log_filters : log_filters[i].level = 4
    \/ /\ scenario = "walks"
       /\ now = 0 /\ session = 0 /\ Unqueued /\ issued <= 2
       /\ \A i \in DOMAIN log_filters : log_filters[i].pattern = "*" /\ i = 1
       /\ \A i \in DOMAIN stack : Len(stack[i].called) <= 3
    \/ /\ scenario = "rates"
       /\ session = 0 /\ loads = 0 /\ log_callbacks = <<>> /\ Unqueued

Init == LoggerStart /\ ModulesStart /\ scenario \in Scenarios

Next == /\ \/ LoggerNext /\ UNCHANGED moduleVars
           \/ ModulesNext
        /\ UNCHANGED scenario

Spec == Init /\ [][Next]_<<loggerVars, moduleVars, scenario>>
=============================================================================
