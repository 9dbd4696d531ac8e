----------------------------- MODULE Transport -----------------------------
(***************************************************************************)
(* transport.c and transport.mongoose.c: one connection with its states,   *)
(* the driver over a mongoose socket, and an application whose callback    *)
(* may send, close or release the transport it is being called about.      *)
(***************************************************************************)
EXTENDS Integers, Sequences, SequencesExt

CONSTANTS MaxEvents,    \* bound: events the driver emits
          QueueLimit    \* bound: frames in the socket's send buffer

ASSUME TransportAssumption == MaxEvents \in Nat /\ QueueLimit \in Nat

VARIABLES state,        \* t->state, or absent before adopt and freed after release
          socket,       \* what the driver's socket pointer stands for
          is_closing, is_draining, is_websocket,    \* flags of the mongoose connection
          sent,         \* frames in its send buffer
          told,         \* history: events given to the application, and its own hangup
          driven        \* events the driver has raised

transportVars == <<state, socket, is_closing, is_draining, is_websocket, sent, told, driven>>

Live == {"connecting", "open", "closing", "closed"}
Payload == {"message", "binary", "error"}

TransportStart ==
    /\ state = "absent" /\ socket = "none"
    /\ is_closing = FALSE /\ is_draining = FALSE /\ is_websocket = FALSE
    /\ sent = 0 /\ told = <<>> /\ driven = 0

\* rr_transport_mongoose_adopt(): the connection exists, its upgrade may come later.
Adopt ==
    /\ state = "absent"
    /\ state' = "connecting" /\ socket' = "up"
    /\ UNCHANGED <<is_closing, is_draining, is_websocket, sent, told, driven>>

\* check() and send_frame(): an open transport over a socket that takes frames.
MaySend(st, websocket) ==
    st = "open" /\ socket = "up" /\ ~is_closing /\ ~is_draining /\ websocket /\ sent < QueueLimit

\* rr_transport_mongoose_release(): only a closed transport is freed.
MayRelease(st) == st = "closed"

\* Mutant: close leaves the socket alone.
MarkedNot == is_closing

\* closing(): the driver marks its socket, if it still has one.
Marked == is_closing \/ socket = "up"

\* What the application makes of a transport in state st: rr_transport_close(), a
\* send, or a release, with the early returns of each.
Reaction(what, st, websocket) ==
    [state   |-> CASE what = "close" /\ st \in {"connecting", "open"} -> "closing"
                   [] what = "release" /\ MayRelease(st) -> "freed"
                   [] OTHER -> st,
     closing |-> IF what = "close" /\ st \in {"connecting", "open"} THEN Marked ELSE is_closing,
     sent    |-> IF what = "send" /\ MaySend(st, websocket) THEN sent + 1 ELSE sent,
     log     |-> IF what = "close" /\ st \in {"connecting", "open"} THEN <<"hangup">> ELSE <<>>]

Reactions == {"nothing", "close", "send", "release"}

\* Mutant: events of a transport that is being closed still reach the application.
PassesAlways(event) == state \in {"connecting", "open", "closing"}

\* rr_transport_emit(): does the event reach the callback?
Passes(event) ==
    /\ state \in Live \ {"closed"}
    /\ event = "open" => state = "connecting"
    /\ event \notin {"open", "close", "error"} => state = "open"

StateAtCallback(event) ==
    CASE event = "open" -> "open" [] event = "close" -> "closed" [] OTHER -> state

\* An event of the driver, and the application's reaction inside the callback.
Emit(event, websocket) ==
    IF Passes(event)
    THEN \E what \in Reactions :
            LET after == Reaction(what, StateAtCallback(event), websocket)
            IN  /\ told' = Append(told, event) \o after.log
                /\ state' = after.state
                /\ is_closing' = after.closing
                /\ sent' = after.sent
    ELSE UNCHANGED <<state, is_closing, sent, told>>

\* The websocket upgrade completed: rr_transport_mongoose_open().
MongooseOpen ==
    /\ socket = "up" /\ ~is_closing /\ ~is_websocket /\ driven < MaxEvents
    /\ driven' = driven + 1
    /\ is_websocket' = TRUE
    /\ UNCHANGED <<socket, is_draining>>
    /\ Emit("open", TRUE)

\* Traffic or an error on the socket.
MongooseEvent(event) ==
    /\ socket = "up" /\ state # "freed" /\ driven < MaxEvents
    /\ event # "error" => is_websocket
    /\ driven' = driven + 1
    /\ UNCHANGED <<socket, is_draining, is_websocket>>
    /\ Emit(event, is_websocket)

\* The manager drops the connection, asked to or not: rr_transport_mongoose_closed()
\* forgets the socket, then tells the application.
MongooseClosed ==
    /\ socket = "up"
    /\ socket' = "none"
    /\ UNCHANGED <<is_draining, is_websocket, driven>>
    /\ Emit("close", is_websocket)

\* The manager writes a frame.
MongooseFlush ==
    /\ socket = "up" /\ sent > 0
    /\ sent' = sent - 1
    /\ UNCHANGED <<state, socket, is_closing, is_draining, is_websocket, told, driven>>

\* The peer has sent its close frame: the manager empties the buffer before it ends.
MongooseDrain ==
    /\ socket = "up" /\ is_websocket /\ ~is_draining
    /\ is_draining' = TRUE
    /\ UNCHANGED <<state, socket, is_closing, is_websocket, sent, told, driven>>

\* The application acts on its own: rr_transport_send_message(), rr_transport_close(),
\* or rr_transport_mongoose_release(), which frees only a closed transport.
Application(what) ==
    LET after == Reaction(what, state, is_websocket) IN
    /\ state \in Live
    /\ after.state # state \/ after.sent # sent
    /\ state' = after.state
    /\ is_closing' = after.closing
    /\ sent' = after.sent
    /\ told' = told \o after.log
    /\ UNCHANGED <<socket, is_draining, is_websocket, driven>>

TransportNext ==
    \/ Adopt \/ MongooseOpen \/ MongooseClosed \/ MongooseFlush \/ MongooseDrain
    \/ \E e \in Payload : MongooseEvent(e)
    \/ \E w \in Reactions : Application(w)

TransportSpec == TransportStart /\ [][TransportNext]_transportVars

\* The manager's poll drops a connection that is marked as closing.
TransportFairness == WF_transportVars(is_closing /\ MongooseClosed)

-----------------------------------------------------------------------------
\* Types of the transport and its socket.
TransportTypeOK ==
    /\ state \in Live \cup {"absent", "freed"}
    /\ socket \in {"none", "up"} /\ is_closing \in BOOLEAN
    /\ is_draining \in BOOLEAN /\ is_websocket \in BOOLEAN
    /\ sent \in 0 .. QueueLimit /\ driven \in 0 .. MaxEvents
    /\ told \in Seq(Payload \cup {"open", "close", "hangup"})

InOrder(log) ==
    \A i \in DOMAIN log :
        /\ log[i] \in {"message", "binary"} => \E j \in 1 .. i - 1 : log[j] = "open"
        /\ log[i] = "open" => \A j \in 1 .. i - 1 : log[j] = "error"
        /\ log[i] \in {"open", "message", "binary"} => \A j \in 1 .. i - 1 : log[j] # "hangup"
        /\ log[i] = "close" => i = Len(log)

\* The application sees one OPEN before any message, nothing but errors before it,
\* no message between its own close and CLOSE, and nothing after a single CLOSE,
\* even when its callback closes or releases the transport; and a transport is closed
\* and freed only once the driver has no socket that could call into it.
EventOrder ==
    /\ state \in {"closed", "freed"} => socket = "none"
    /\ InOrder(told)

\* A transport the application closed is told about the end.
CloseCompletes == state = "closing" ~> state \in {"closed", "freed"}
=============================================================================
