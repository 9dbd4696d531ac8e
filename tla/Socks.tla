------------------------------- MODULE Socks -------------------------------
(***************************************************************************)
(* socks.c: the SOCKS5 client handshake over a mongoose connection.  The   *)
(* proxy's bytes arrive in pieces of any size; every read event parses     *)
(* whatever has arrived so far.                                            *)
(***************************************************************************)
EXTENDS Integers, Sequences, SequencesExt

CONSTANTS Scripts       \* what a proxy may send, the bytes behind its reply, and whether we have a user name

VARIABLES stage,        \* s->stage
          script,       \* the proxy's bytes and our credentials
          coming,       \* bytes that have not arrived yet
          recv,         \* c->recv
          requests,     \* what we have sent
          closing,      \* c->is_closing
          expired,      \* the deadline has passed
          cause         \* what ended the handshake (history)

socksVars == <<stage, script, coming, recv, requests, closing, expired, cause>>

Stages == {"off", "greeting", "auth", "connect", "ready", "failed"}
Causes == {"none", "refused", "bytes", "queue", "deadline", "closed"}
From(bytes, n) == SubSeq(bytes, n + 1, Len(bytes))

SocksStart ==
    /\ stage = "off" /\ script = <<>> /\ coming = <<>> /\ recv = <<>> /\ requests = <<>>
    /\ closing = FALSE /\ expired = FALSE /\ cause = "none"

\* rr_socks_init() and MG_EV_CONNECT: a usable address and complete credentials; the
\* greeting offers one method.
SocksConnect(s) ==
    /\ stage = "off"
    /\ stage' = "greeting"
    /\ script' = s /\ coming' = s.bytes
    /\ requests' = <<"greeting">>
    /\ UNCHANGED <<recv, closing, expired, cause>>

\* MG_EV_CONNECT when mongoose cannot queue the greeting.
SocksGreetingFails ==
    /\ stage = "off"
    /\ stage' = "failed" /\ closing' = TRUE /\ cause' = "queue"
    /\ UNCHANGED <<script, coming, recv, requests, expired>>

\* rr_socks_init() that refuses its arguments.
SocksRefuse ==
    /\ stage = "off"
    /\ stage' = "failed" /\ cause' = "refused"
    /\ UNCHANGED <<script, coming, recv, requests, closing, expired>>

-----------------------------------------------------------------------------
(* rr_socks_event(MG_EV_READ): one turn of the loop on a client record *)

Method(user) == IF user THEN 2 ELSE 0

Client(st, bytes, sent, flow) == [stage |-> st, recv |-> bytes, requests |-> sent, flow |-> flow]
Fails(c) == Client("failed", c.recv, c.requests, "return")
Pends(c) == Client(c.stage, c.recv, c.requests, "return")
Asks(c, what, st, n) == Client(st, From(c.recv, n), Append(c.requests, what), "continue")

ParseGreeting(c, user) ==
    CASE Len(c.recv) < 2 -> Pends(c)
      [] Len(c.recv) >= 2 /\ (c.recv[1] # 5 \/ c.recv[2] # Method(user)) -> Fails(c)
      [] OTHER -> IF user THEN Asks(c, "auth", "auth", 2) ELSE Asks(c, "connect", "connect", 2)

ParseAuth(c) ==
    CASE Len(c.recv) < 2 -> Pends(c)
      [] Len(c.recv) >= 2 /\ (c.recv[1] # 1 \/ c.recv[2] # 0) -> Fails(c)
      [] OTHER -> Asks(c, "connect", "connect", 2)

\* Mutant: the reply is taken as complete once its header is there.
ReplyLengthShort(bytes) == 5

\* The length of a CONNECT reply: IPv4, IPv6 or a host name with its length byte.
ReplyLength(bytes) ==
    CASE bytes[4] = 1 -> 10 [] bytes[4] = 4 -> 22 [] OTHER -> 7 + bytes[5]

ParseConnect(c) ==
    LET p == c.recv IN
    CASE Len(p) < 4 -> Pends(c)
      [] Len(p) >= 4 /\ (p[1] # 5 \/ p[3] # 0 \/ p[2] # 0 \/ p[4] \notin {1, 3, 4}) -> Fails(c)
      [] Len(p) = 4 /\ p[1] = 5 /\ p[2] = 0 /\ p[3] = 0 /\ p[4] = 3 -> Pends(c)
      [] Len(p) >= 5 /\ p[4] = 3 /\ p[5] = 0 -> Fails(c)
      [] OTHER -> IF Len(p) < ReplyLength(p) THEN Pends(c)
                  ELSE Client("ready", From(p, ReplyLength(p)), c.requests, "return")

\* What stands before the reply to CONNECT, and the reply as the protocol lays it out:
\* a header of four bytes, the address and a port.  Behind it stands only the payload.
Before(user) == IF user THEN 4 ELSE 2
ReplyLayout(reply) == 4 + (CASE reply[4] = 1 -> 4 [] reply[4] = 4 -> 16 [] OTHER -> 1 + reply[5]) + 2

ASSUME SocksAssumption ==
    \A s \in Scripts :
        /\ s.bytes \in Seq(0 .. 255) /\ s.user \in BOOLEAN /\ s.payload \in Nat
        /\ LET reply == From(s.bytes, Before(s.user))
           IN  Len(reply) >= 5 => Len(reply) <= ReplyLayout(reply) + s.payload

Turn(c, user) ==
    CASE c.flow = "return" -> c
      [] c.stage = "greeting" /\ c.flow = "continue" -> ParseGreeting(c, user)
      [] c.stage = "auth" /\ c.flow = "continue" -> ParseAuth(c)
      [] c.stage = "connect" /\ c.flow = "continue" -> ParseConnect(c)

\* The loop: at most one turn in each of the three stages.
Parsed(st, bytes, sent, user) ==
    LET start == Client(st, bytes, sent, "continue")
    IN  Turn(Turn(Turn(start, user), user), user)

-----------------------------------------------------------------------------
\* What stands in c->recv once n more bytes are in.
Heard(n) == recv \o SubSeq(coming, 1, n)

\* Bytes arrive and are parsed; once ready, they are left to the caller.
SocksRead(n) ==
    /\ stage # "off" /\ ~closing /\ coming # <<>>
    /\ n \in 1 .. Len(coming)
    /\ coming' = From(coming, n)
    /\ LET c == IF stage \in {"ready", "failed"} THEN Client(stage, Heard(n), requests, "return")
                ELSE Parsed(stage, Heard(n), requests, script.user)
       IN  /\ stage' = c.stage /\ recv' = c.recv /\ requests' = c.requests
           /\ closing' = (c.stage = "failed")
           /\ cause' = IF c.stage = "failed" THEN "bytes" ELSE cause
    /\ UNCHANGED <<script, expired>>

\* A read during which mongoose cannot queue one of the requests the bytes call for: the
\* two bytes of every answer up to it are taken, and only j requests went out.
SocksSendFails(n) ==
    /\ stage \in {"greeting", "auth", "connect"} /\ ~closing
    /\ n \in 1 .. Len(coming)
    /\ LET asked == Parsed(stage, Heard(n), requests, script.user).requests
       IN  \E j \in Len(requests) .. Len(asked) - 1 :
              /\ requests' = SubSeq(asked, 1, j)
              /\ recv' = From(Heard(n), 2 * (j + 1 - Len(requests)))
    /\ coming' = From(coming, n)
    /\ stage' = "failed" /\ closing' = TRUE /\ cause' = "queue"
    /\ UNCHANGED <<script, expired>>

SocksDeadline ==
    /\ stage # "off" /\ ~expired
    /\ expired' = TRUE
    /\ UNCHANGED <<stage, script, coming, recv, requests, closing, cause>>

\* MG_EV_POLL after the deadline.
Overdue == expired /\ stage \notin {"off", "ready", "failed"}

SocksTimeout ==
    /\ Overdue /\ ~closing
    /\ stage' = "failed" /\ closing' = TRUE /\ cause' = "deadline"
    /\ UNCHANGED <<script, coming, recv, requests, expired>>

\* MG_EV_ERROR or MG_EV_CLOSE.
SocksClosed ==
    /\ stage \notin {"off", "failed"} /\ ~closing
    /\ stage' = "failed" /\ closing' = TRUE /\ cause' = "closed"
    /\ UNCHANGED <<script, coming, recv, requests, expired>>

SocksNext ==
    \/ \E s \in Scripts : SocksConnect(s)
    \/ SocksGreetingFails \/ SocksRefuse \/ SocksDeadline \/ SocksTimeout \/ SocksClosed
    \/ \E n \in 1 .. Len(coming) : SocksRead(n) \/ SocksSendFails(n)

SocksSpec == SocksStart /\ [][SocksNext]_socksVars

-----------------------------------------------------------------------------
\* Types of the handshake.
SocksTypeOK == stage \in Stages /\ closing \in BOOLEAN /\ expired \in BOOLEAN /\ cause \in Causes

\* How the proxy's bytes are cut into reads makes no difference: unless a full send
\* buffer, the deadline or the connection's end broke it off, a handshake is where the
\* same bytes in one piece would have left it.  It fails on them when they would have
\* failed in one piece and never else, and one that is ready kept every byte behind the
\* reply for the caller.
ChunksDoNotMatter ==
    stage # "off" /\ cause \in {"none", "bytes"} =>
        LET arrived == SubSeq(script.bytes, 1, Len(script.bytes) - Len(coming))
            once    == Parsed("greeting", arrived, <<"greeting">>, script.user)
        IN  stage = once.stage /\ recv = once.recv /\ requests = once.requests

\* Credentials are sent only to a proxy that asked for them, a connection is asked for
\* only after every step before it was granted, and a proxy's success is believed only
\* with its whole reply at hand.
NothingEarly ==
    /\ Contains(requests, "auth") => script.user /\ script.bytes[2] = 2
    /\ Contains(requests, "connect") =>
          IF script.user THEN script.bytes[4] = 0 ELSE script.bytes[2] = 0
    /\ stage = "ready" => Len(coming) <= script.payload

\* Both: whatever the cut, the proxy's bytes alone lead to the same stage, the same
\* requests and the same bytes left over, and nothing is asked for or believed early,
\* not even by a handshake that was broken off.
HandshakeExact == ChunksDoNotMatter /\ NothingEarly
=============================================================================
