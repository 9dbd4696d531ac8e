----------------------------- MODULE MCServices -----------------------------
(* One run over the parts that face the operating system and the network, and  *)
(* over the drains of the owned-message bus, whose end is a liveness property  *)
(* like those of a stop and a close.  A behaviour exercises one part, so that  *)
(* their states add up and do not multiply.                                    *)
EXTENDS Subproc, Transport, Socks, Serial, Daemon

VARIABLES part,
          up, domains, issued, reg, active, executing, listeners, pending, frame, depth, emits, quiet

busVars == <<up, domains, issued, reg, active, executing, listeners, pending, frame, depth, emits, quiet>>

\* The bus of a loop and a worker, with two tokens; drains are called from outside
\* callbacks only.
BusThreads == {"loop", "worker"}
Bus == INSTANCE EventMessages WITH
          Threads <- BusThreads, Loops <- {"loop"}, Inline <- "inline", None <- "none",
          Names <- {"message"}, Domains <- {"domain"},
          MaxTokens <- 2, MaxDepth <- 3, MaxEmit <- 2, DrainInCallback <- FALSE

MappingsUsed ==
    {<<[source |-> a, target |-> b], [source |-> c, target |-> d]>> :
        a \in {0, 1}, b \in {1, 4}, c \in {1, 4}, d \in {0, 3}}

CloseListsUsed == {{}, {1, 3}}

Greeted == <<5, 0>>
Authenticated == <<5, 2, 1, 0>>
IPv4Reply == <<5, 0, 0, 1, 9, 9, 9, 9, 9, 9>>
IPv6Reply == <<5, 0, 0, 4>> \o [i \in 1 .. 18 |-> 9]
HostReply == <<5, 0, 0, 3, 1, 7, 9, 9>>
ScriptsUsed ==
    {[user |-> FALSE, bytes |-> Greeted \o IPv4Reply \o <<5, 0>>, payload |-> 2],
     [user |-> FALSE, bytes |-> Greeted \o IPv6Reply \o <<6>>, payload |-> 1],
     [user |-> FALSE, bytes |-> Greeted \o HostReply \o <<5>>, payload |-> 1],
     [user |-> TRUE,  bytes |-> Authenticated \o HostReply \o <<8>>, payload |-> 1],
     [user |-> TRUE,  bytes |-> <<5, 0, 1, 0>> \o HostReply, payload |-> 0],
     [user |-> TRUE,  bytes |-> <<5, 2, 1, 1>> \o HostReply, payload |-> 0],
     [user |-> FALSE, bytes |-> Greeted \o <<5, 5, 0, 1>>, payload |-> 0],
     [user |-> FALSE, bytes |-> Greeted \o <<5, 0, 0, 3, 0, 7>>, payload |-> 0]}

RequestsUsed ==
    {[baud |-> 1200, bits |-> 7, parity |-> "e", stops |-> 2],
     [baud |-> 115200, bits |-> 8, parity |-> "o", stops |-> 1],
     [baud |-> 9600, bits |-> 5, parity |-> "n", stops |-> 1],
     [baud |-> 300, bits |-> 8, parity |-> "n", stops |-> 1]}

-----------------------------------------------------------------------------
Init ==
    /\ SubprocStart /\ TransportStart /\ SocksStart /\ SerialStart /\ DaemonStart
    /\ Bus!Init
    /\ part \in {"subproc", "transport", "socks", "serial", "daemon", "bus"}

Next ==
    /\ \/ /\ part = "subproc" /\ SubprocNext
          /\ UNCHANGED <<transportVars, socksVars, serialVars, daemonVars, busVars>>
       \/ /\ part = "transport" /\ TransportNext
          /\ UNCHANGED <<subprocVars, socksVars, serialVars, daemonVars, busVars>>
       \/ /\ part = "socks" /\ SocksNext
          /\ UNCHANGED <<subprocVars, transportVars, serialVars, daemonVars, busVars>>
       \/ /\ part = "serial" /\ SerialNext
          /\ UNCHANGED <<subprocVars, transportVars, socksVars, daemonVars, busVars>>
       \/ /\ part = "daemon" /\ DaemonNext
          /\ UNCHANGED <<subprocVars, transportVars, socksVars, serialVars, busVars>>
       \/ /\ part = "bus" /\ Bus!Next
          /\ UNCHANGED <<subprocVars, transportVars, socksVars, serialVars, daemonVars>>
    /\ UNCHANGED part

vars == <<subprocVars, transportVars, socksVars, serialVars, daemonVars, busVars, part>>

\* Threads go on with the calls they are in, and the loop runs what was dispatched to it.
BusFairness ==
    /\ \A th \in BusThreads : WF_busVars(Bus!Proceed(th))
    /\ WF_busVars(Bus!LoopStep("loop"))

Spec == Init /\ [][Next]_vars /\ SubprocFairness /\ TransportFairness /\ BusFairness

\* What was asked to end ends: a stop of a child returns, and a transport that was
\* closed is told so.
EndingsComplete == StopReturns /\ CloseCompletes

\* A drain of the bus returns.
DrainReturns == Bus!DrainReturns
=============================================================================
