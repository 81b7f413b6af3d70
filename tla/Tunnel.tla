------------------------------- MODULE Tunnel -------------------------------
(***************************************************************************)
(* tunnel/tunnel.py: the server keeps a pool of authenticated tunnels to   *)
(* clients elsewhere and a SOCKS5 port; each SOCKS connection picks a      *)
(* tunnel, has its client open the target and then exchanges data frames   *)
(* with it.  All connections of a tunnel share its two ordered wires, one  *)
(* reader task at the server and one at the client.                        *)
(*                                                                         *)
(* A broken link loses what is on its wires; each end finds out by itself, *)
(* the server at the latest by a ping it cannot send.  Stream ids are      *)
(* drawn from 2^31: here a connection is its own id.                       *)
(*                                                                         *)
(* Whoever writes to a wire waits in drain while it is full, the server's  *)
(* handlers with the tunnel's lock, which its reader and all its handlers  *)
(* need.  A reader also waits for the SOCKS client or the target it has    *)
(* written to, and these need not read.  (Pings, and the ten bytes that    *)
(* answer a SOCKS request, are taken to find room.)                        *)
(***************************************************************************)
EXTENDS Naturals, Sequences, FiniteSets

CONSTANTS Conn, Tun, NoTun, NoConn,
          ROOM,          \* frames a wire and the buffers at its ends take
          MAX_DATA       \* bound: data frames of a connection, each way

ASSUME TunnelConstants ==
    NoTun \notin Tun /\ NoConn \notin Conn /\ ROOM \in Nat \ {0} /\ MAX_DATA \in Nat

VARIABLES link,      \* Tun -> the connection between the two hosts
          toClient, toServer,   \* Tun -> frames on the wire
          pending, streams,     \* Tun -> the tables of the server's Tunnel
          sock,      \* Conn -> the SOCKS handler
          opening,   \* Tun -> the target the client's reader waits for
          blocked,   \* Tun -> the connections for whose SOCKS client the
                     \* server's reader, for whose target the client's waits
          targets,   \* Tun -> the client's table of open targets
          target,    \* Conn -> the target's connection and its relay task
          down, up   \* Conn -> data sent by one end, and written to the other

serverSide == <<pending, streams, sock>>
clientSide == <<opening, targets, target>>
tunnelVars == <<link, toClient, toServer, serverSide, clientSide, blocked, down, up>>

Frame(cmd, c) == [cmd |-> cmd, conn |-> c]
NoSock == [at |-> "none", tun |-> NoTun, event |-> FALSE, reset |-> FALSE]

TunnelTypeOK ==
    /\ link \in [Tun -> {"off", "auth", "up", "broken", "closed"}]
    /\ \A t \in Tun :
         /\ toClient[t] \in Seq([cmd : {"CONNECT", "DATA", "CLOSE"}, conn : Conn])
         /\ toServer[t] \in Seq([cmd : {"OK", "FAIL", "DATA", "CLOSE"}, conn : Conn])
         /\ pending[t] \cap streams[t] = {}
    /\ pending \in [Tun -> SUBSET Conn]
    /\ streams \in [Tun -> SUBSET Conn]
    /\ sock \in [Conn -> [at : {"none", "method", "greeted", "picked", "asking", "wait", "relay", "done"},
                          tun : Tun \cup {NoTun}, event : BOOLEAN, reset : BOOLEAN]]
    /\ opening \in [Tun -> Conn \cup {NoConn}]
    /\ blocked \in [Tun -> [socks : Conn \cup {NoConn}, target : Conn \cup {NoConn}]]
    /\ targets \in [Tun -> SUBSET Conn]
    /\ target \in [Conn -> {"none", "open", "shut", "ended", "reset"}]
    /\ down \in [Conn -> [sent : 0 .. MAX_DATA, got : 0 .. MAX_DATA]]
    /\ up \in [Conn -> [sent : 0 .. MAX_DATA, got : 0 .. MAX_DATA]]

TunnelInit ==
    /\ link = [t \in Tun |-> "off"]
    /\ toClient = [t \in Tun |-> <<>>]
    /\ toServer = [t \in Tun |-> <<>>]
    /\ pending = [t \in Tun |-> {}]
    /\ streams = [t \in Tun |-> {}]
    /\ sock = [c \in Conn |-> NoSock]
    /\ opening = [t \in Tun |-> NoConn]
    /\ blocked = [t \in Tun |-> [socks |-> NoConn, target |-> NoConn]]
    /\ targets = [t \in Tun |-> {}]
    /\ target = [c \in Conn |-> "none"]
    /\ down = [c \in Conn |-> [sent |-> 0, got |-> 0]]
    /\ up = [c \in Conn |-> [sent |-> 0, got |-> 0]]

Alive(t) == link[t] \in {"up", "broken"}

(* What is written to a broken link is lost.                               *)
Send(wire, t, cmd, c) == IF link[t] = "up" THEN [wire EXCEPT ![t] = Append(@, Frame(cmd, c))]
                         ELSE wire
Full(wire, t) == Len(wire[t]) >= ROOM
SockAt(c, pc) == [sock EXCEPT ![c].at = pc]
ThisTun(c) == sock[c].tun

(* tun.lock is not held by a handler that waits for room.                  *)
LockFree(t) == ~Full(toClient, t)
ServerFree(t) == blocked[t].socks = NoConn /\ LockFree(t)
ClientFree(t) == blocked[t].target = NoConn /\ opening[t] = NoConn

-----------------------------------------------------------------------------
(* Links.                                                                  *)

(* The client connects and sends the hash of its token.                    *)
Connect(t) ==
    /\ link[t] = "off"
    /\ link' = [link EXCEPT ![t] = "auth"]
    /\ UNCHANGED <<blocked, toClient, toServer, serverSide, clientSide, down, up>>

(* The server compares it, answers and adds the tunnel to its pool.        *)
Join(t) ==
    /\ link[t] = "auth"
    /\ link' = [link EXCEPT ![t] = "up"]
    /\ UNCHANGED <<blocked, toClient, toServer, serverSide, clientSide, down, up>>

(* Another token, no frame or no answer within AUTH_TIMEOUT: the client    *)
(* tries again in 3 s.                                                     *)
Refuse(t) ==
    /\ link[t] = "auth"
    /\ link' = [link EXCEPT ![t] = "off"]
    /\ UNCHANGED <<blocked, toClient, toServer, serverSide, clientSide, down, up>>

(* The network fails or the client is restarted: its tables are gone, and  *)
(* it will come back as another tunnel.  So too when a reader is timed out *)
(* (30 s) in the middle of a frame: what it had read of it is lost, and    *)
(* what it reads next is bad magic, which ends the tunnel.                 *)
Break(t) ==
    /\ link[t] = "up"
    /\ link' = [link EXCEPT ![t] = "broken"]
    /\ toClient' = [toClient EXCEPT ![t] = <<>>]
    /\ toServer' = [toServer EXCEPT ![t] = <<>>]
    /\ opening' = [opening EXCEPT ![t] = NoConn]
    /\ targets' = [targets EXCEPT ![t] = {}]
    /\ blocked' = [blocked EXCEPT ![t].target = NoConn]
    /\ UNCHANGED <<serverSide, target, down, up>>

(* Mutation: the open streams are not closed with the tunnel.              *)
DiscardWaiting(t) ==
    /\ link[t] = "broken"
    /\ ServerFree(t)
    /\ link' = [link EXCEPT ![t] = "closed"]
    /\ sock' = [c \in Conn |-> IF c \in pending[t] THEN [sock[c] EXCEPT !.event = TRUE]
                               ELSE sock[c]]
    /\ pending' = [pending EXCEPT ![t] = {}]
    /\ UNCHANGED <<blocked, toClient, toServer, streams, clientSide, down, up>>

(* The end of _handle_tunnel: the tunnel leaves the pool, its connections  *)
(* are woken and closed.                                                   *)
Discard(t) ==
    /\ link[t] = "broken"
    /\ ServerFree(t)
    /\ link' = [link EXCEPT ![t] = "closed"]
    /\ sock' = [c \in Conn |-> IF c \in pending[t] THEN [sock[c] EXCEPT !.event = TRUE]
                               ELSE sock[c]]
    /\ pending' = [pending EXCEPT ![t] = {}]
    /\ streams' = [streams EXCEPT ![t] = {}]
    /\ UNCHANGED <<blocked, toClient, toServer, clientSide, down, up>>

-----------------------------------------------------------------------------
(* _handle_socks                                                           *)

(* The negotiation of a method, then the request: each as RFC 1928 has it  *)
(* and within 10 s (but for the list of methods), or the connection is     *)
(* closed.                                                                 *)
Greet(c) ==
    /\ sock[c].at = "none"
    /\ \E at \in {"method", "done"} : sock' = SockAt(c, at)
    /\ UNCHANGED <<blocked, link, toClient, toServer, pending, streams, clientSide, down, up>>

Request(c) ==
    /\ sock[c].at = "method"
    /\ \E at \in {"greeted", "done"} : sock' = SockAt(c, at)
    /\ UNCHANGED <<blocked, link, toClient, toServer, pending, streams, clientSide, down, up>>

(* A tunnel of the pool; without one the connection is refused.            *)
PickTunnel(c) ==
    /\ sock[c].at = "greeted"
    /\ IF \E t \in Tun : Alive(t)
       THEN \E t \in Tun : Alive(t) /\ sock' = [sock EXCEPT ![c].at = "picked", ![c].tun = t]
       ELSE sock' = SockAt(c, "done")
    /\ UNCHANGED <<blocked, link, toClient, toServer, pending, streams, clientSide, down, up>>

(* The tunnel may have been discarded since.                               *)
Register(c) ==
    /\ sock[c].at = "picked"
    /\ LockFree(ThisTun(c))
    /\ pending' = [pending EXCEPT ![ThisTun(c)] = @ \cup {c}]
    /\ sock' = SockAt(c, "asking")
    /\ UNCHANGED <<blocked, link, toClient, toServer, streams, clientSide, down, up>>

Ask(c) ==
    /\ sock[c].at = "asking"
    /\ LockFree(ThisTun(c))
    /\ toClient' = Send(toClient, ThisTun(c), "CONNECT", c)
    /\ sock' = SockAt(c, IF Alive(ThisTun(c)) THEN "wait" ELSE "done")
    /\ UNCHANGED <<blocked, link, toServer, pending, streams, clientSide, down, up>>

(* 30 s without an answer.                                                 *)
GiveUp(c) ==
    /\ sock[c].at = "wait" /\ ~sock[c].event
    /\ LockFree(ThisTun(c))
    /\ pending' = [pending EXCEPT ![ThisTun(c)] = @ \ {c}]
    /\ sock' = SockAt(c, "done")
    /\ UNCHANGED <<blocked, link, toClient, toServer, streams, clientSide, down, up>>

Answered(c) ==
    /\ sock[c].at = "wait" /\ sock[c].event
    /\ LockFree(ThisTun(c))
    /\ sock' = SockAt(c, IF c \in streams[ThisTun(c)] THEN "relay" ELSE "done")
    /\ UNCHANGED <<blocked, link, toClient, toServer, pending, streams, clientSide, down, up>>

(* The SOCKS client resets the connection while it waits.                  *)
ResetWaiting(c) ==
    /\ sock[c].at = "wait" /\ ~sock[c].event
    /\ sock' = [sock EXCEPT ![c].reset = TRUE]
    /\ UNCHANGED <<blocked, link, toClient, toServer, pending, streams, clientSide, down, up>>

Forward(c) ==
    /\ sock[c].at = "relay"
    /\ LockFree(ThisTun(c))
    /\ up[c].sent < MAX_DATA
    /\ toClient' = Send(toClient, ThisTun(c), "DATA", c)
    /\ up' = [up EXCEPT ![c].sent = @ + 1]
    /\ UNCHANGED <<blocked, link, toServer, serverSide, clientSide, down>>

(* The SOCKS client closes, or sends nothing for IDLE_TIMEOUT, whatever    *)
(* comes from the target.                                                  *)
HangUp(c) ==
    /\ sock[c].at = "relay"
    /\ LockFree(ThisTun(c))
    /\ toClient' = Send(toClient, ThisTun(c), "CLOSE", c)
    /\ sock' = SockAt(c, "done")
    /\ UNCHANGED <<blocked, link, toServer, pending, streams, clientSide, down, up>>

(* The writer was closed by the tunnel's reader: so is the reading side.   *)
SeesClose(c) ==
    /\ sock[c].at = "relay"
    /\ c \notin streams[ThisTun(c)]
    /\ HangUp(c)

-----------------------------------------------------------------------------
(* The server's reader of a tunnel.                                        *)
Receives(wire, t, cmd, c) == wire[t] # <<>> /\ Head(wire[t]) = Frame(cmd, c)
Consume(wire, t) == [wire EXCEPT ![t] = Tail(@)]

(* CONNECT_OK and CONNECT_FAIL, for a connection still waiting.            *)
Reply(t, c) ==
    /\ ServerFree(t)
    /\ \E cmd \in {"OK", "FAIL"} :
          /\ Receives(toServer, t, cmd, c)
          /\ c \in pending[t]
          /\ ~sock[c].reset
          /\ streams' = [streams EXCEPT ![t] = IF cmd = "OK" THEN @ \cup {c} ELSE @]
    /\ pending' = [pending EXCEPT ![t] = @ \ {c}]
    /\ sock' = [sock EXCEPT ![c].event = TRUE]
    /\ toServer' = Consume(toServer, t)
    /\ UNCHANGED <<blocked, link, toClient, clientSide, down, up>>

(* Its SOCKS client has reset: the write of the reply fails and ends the   *)
(* reader, and with it the tunnel and every connection on it.              *)
ReplyFails(t, c) ==
    /\ Receives(toServer, t, "OK", c) \/ Receives(toServer, t, "FAIL", c)
    /\ ServerFree(t)
    /\ c \in pending[t] /\ sock[c].reset
    /\ pending' = [pending EXCEPT ![t] = @ \ {c}]
    /\ link' = [link EXCEPT ![t] = "broken"]
    /\ toClient' = [toClient EXCEPT ![t] = <<>>]
    /\ toServer' = [toServer EXCEPT ![t] = <<>>]
    /\ opening' = [opening EXCEPT ![t] = NoConn]
    /\ targets' = [targets EXCEPT ![t] = {}]
    /\ blocked' = [blocked EXCEPT ![t].target = NoConn]
    /\ UNCHANGED <<streams, sock, target, down, up>>

(* The connection gave up: nobody is told.                                 *)
ReplyLate(t, c) ==
    /\ Receives(toServer, t, "OK", c) \/ Receives(toServer, t, "FAIL", c)
    /\ ServerFree(t)
    /\ c \notin pending[t]
    /\ toServer' = Consume(toServer, t)
    /\ UNCHANGED <<blocked, link, toClient, serverSide, clientSide, down, up>>

(* DATA for a known stream is written, unless its SOCKS client has gone;   *)
(* the reader waits in drain if the client does not read.                  *)
Deliver(t, c) ==
    /\ Receives(toServer, t, "DATA", c)
    /\ ServerFree(t)
    /\ LET gone == sock[c].at = "done" IN
       /\ streams' = [streams EXCEPT ![t] = IF gone THEN @ \ {c} ELSE @]
       /\ down' = [down EXCEPT ![c].got = IF c \in streams[t] /\ ~gone THEN @ + 1 ELSE @]
       /\ \/ UNCHANGED blocked
          \/ c \in streams[t] /\ ~gone /\ blocked' = [blocked EXCEPT ![t].socks = c]
    /\ toServer' = Consume(toServer, t)
    /\ UNCHANGED <<link, toClient, pending, sock, clientSide, up>>

ServerCloses(t, c) ==
    /\ Receives(toServer, t, "CLOSE", c)
    /\ ServerFree(t)
    /\ streams' = [streams EXCEPT ![t] = @ \ {c}]
    /\ toServer' = Consume(toServer, t)
    /\ UNCHANGED <<blocked, link, toClient, pending, sock, clientSide, down, up>>

(* Its drain returns, or fails as the SOCKS client has gone.               *)
DrainedAtServer(t) ==
    LET c == blocked[t].socks IN
    /\ c # NoConn
    /\ blocked' = [blocked EXCEPT ![t].socks = NoConn]
    /\ \/ UNCHANGED streams
       \/ /\ sock[c].at = "done" /\ LockFree(t)
          /\ streams' = [streams EXCEPT ![t] = @ \ {c}]
    /\ UNCHANGED <<link, toClient, toServer, pending, sock, clientSide, down, up>>

-----------------------------------------------------------------------------
(* The client's reader, which waits while it opens a target.               *)
Open(t, c) ==
    /\ ClientFree(t)
    /\ Receives(toClient, t, "CONNECT", c)
    /\ opening' = [opening EXCEPT ![t] = c]
    /\ toClient' = Consume(toClient, t)
    /\ UNCHANGED <<blocked, link, toServer, serverSide, targets, target, down, up>>

(* Mutation: the relay task starts before the answer is sent.              *)
OpenedEarly(t, c) ==
    /\ opening[t] = c
    /\ ~Full(toServer, t)
    /\ IF target[c] = "none"
       THEN target' = [target EXCEPT ![c] = "open"] /\ UNCHANGED <<targets, toServer, opening>>
       ELSE /\ targets' = [targets EXCEPT ![t] = @ \cup {c}]
            /\ toServer' = Send(toServer, t, "OK", c)
            /\ opening' = [opening EXCEPT ![t] = NoConn]
            /\ UNCHANGED target
    /\ UNCHANGED <<blocked, link, toClient, serverSide, down, up>>

(* The relay task starts when the answer is on the wire.                   *)
Opened(t, c) ==
    /\ opening[t] = c
    /\ ~Full(toServer, t)
    /\ targets' = [targets EXCEPT ![t] = @ \cup {c}]
    /\ target' = [target EXCEPT ![c] = "open"]
    /\ toServer' = Send(toServer, t, "OK", c)
    /\ opening' = [opening EXCEPT ![t] = NoConn]
    /\ UNCHANGED <<blocked, link, toClient, serverSide, down, up>>

OpenFails(t, c) ==
    /\ opening[t] = c
    /\ ~Full(toServer, t)
    /\ toServer' = Send(toServer, t, "FAIL", c)
    /\ opening' = [opening EXCEPT ![t] = NoConn]
    /\ UNCHANGED <<blocked, link, toClient, serverSide, targets, target, down, up>>

(* DATA for an open target.  close_stream when the write fails; the reader *)
(* waits in drain if the target does not read.                             *)
Write(t, c) ==
    /\ ClientFree(t)
    /\ Receives(toClient, t, "DATA", c)
    /\ IF target[c] = "reset"
       THEN targets' = [targets EXCEPT ![t] = @ \ {c}] /\ UNCHANGED <<blocked, up>>
       ELSE /\ up' = [up EXCEPT ![c].got = IF c \in targets[t] THEN @ + 1 ELSE @]
            /\ \/ UNCHANGED blocked
               \/ c \in targets[t] /\ blocked' = [blocked EXCEPT ![t].target = c]
            /\ UNCHANGED targets
    /\ toClient' = Consume(toClient, t)
    /\ UNCHANGED <<link, toServer, serverSide, opening, target, down>>

(* close_stream; a relay that still reads will read the end.               *)
ClientCloses(t, c) ==
    /\ ClientFree(t)
    /\ Receives(toClient, t, "CLOSE", c)
    /\ target' = [target EXCEPT ![c] = IF c \in targets[t] /\ @ = "open" THEN "shut" ELSE @]
    /\ targets' = [targets EXCEPT ![t] = @ \ {c}]
    /\ toClient' = Consume(toClient, t)
    /\ UNCHANGED <<blocked, link, toServer, serverSide, opening, down, up>>

(* Its drain returns, or fails as the target has reset.                    *)
DrainedAtClient(t) ==
    LET c == blocked[t].target IN
    /\ c # NoConn
    /\ blocked' = [blocked EXCEPT ![t].target = NoConn]
    /\ \/ UNCHANGED targets
       \/ target[c] = "reset" /\ targets' = [targets EXCEPT ![t] = @ \ {c}]
    /\ UNCHANGED <<link, toClient, toServer, serverSide, opening, target, down, up>>

-----------------------------------------------------------------------------
(* relay_from_target                                                       *)
RelayTarget(c) ==
    /\ target[c] = "open"
    /\ ~Full(toServer, ThisTun(c))
    /\ down[c].sent < MAX_DATA
    /\ toServer' = Send(toServer, ThisTun(c), "DATA", c)
    /\ down' = [down EXCEPT ![c].sent = @ + 1]
    /\ UNCHANGED <<blocked, link, toClient, serverSide, clientSide, up>>

(* The target closes, or the client has closed it.                         *)
RelayEnds(c) ==
    /\ target[c] \in {"open", "shut"}
    /\ ~Full(toServer, ThisTun(c))
    /\ toServer' = Send(toServer, ThisTun(c), "CLOSE", c)
    /\ target' = [target EXCEPT ![c] = "ended"]
    /\ UNCHANGED <<blocked, link, toClient, serverSide, opening, targets, down, up>>

(* The target resets: the relay ends and says nothing.                     *)
RelayFails(c) ==
    /\ target[c] = "open"
    /\ target' = [target EXCEPT ![c] = "reset"]
    /\ UNCHANGED <<blocked, link, toClient, toServer, serverSide, opening, targets, down, up>>

-----------------------------------------------------------------------------
ReadsAtServer(t) ==
    \E c \in Conn : \/ Reply(t, c) \/ ReplyFails(t, c) \/ ReplyLate(t, c)
                    \/ Deliver(t, c) \/ ServerCloses(t, c)
ReadsAtClient(t) ==
    \E c \in Conn : \/ Open(t, c) \/ Opened(t, c) \/ OpenFails(t, c)
                    \/ Write(t, c) \/ ClientCloses(t, c)
Ends(c) == RelayEnds(c) /\ target[c] = "shut"

TunnelNext ==
    \/ \E t \in Tun : Connect(t) \/ Join(t) \/ Refuse(t) \/ Break(t) \/ Discard(t)
                   \/ ReadsAtServer(t) \/ DrainedAtServer(t)
                   \/ ReadsAtClient(t) \/ DrainedAtClient(t)
    \/ \E c \in Conn : \/ Greet(c) \/ Request(c) \/ PickTunnel(c) \/ Register(c) \/ Ask(c)
                       \/ GiveUp(c) \/ Answered(c) \/ ResetWaiting(c) \/ Forward(c) \/ HangUp(c)
                       \/ RelayTarget(c) \/ RelayEnds(c) \/ RelayFails(c)

(* A reader reads when nothing holds it, a handler that may go on does (it *)
(* gets the lock in its turn), a wait has an end, and a dead link is found *)
(* out by the next ping.  Nobody need close a connection, and neither a    *)
(* SOCKS client nor a target need read: the drains are owed no end.        *)
TunnelFairness ==
    /\ \A t \in Tun : /\ WF_tunnelVars(ReadsAtServer(t))
                      /\ WF_tunnelVars(ReadsAtClient(t))
                      /\ WF_tunnelVars(Discard(t))
    /\ \A c \in Conn : /\ WF_tunnelVars(Register(c)) /\ WF_tunnelVars(Ask(c))
                       /\ WF_tunnelVars(GiveUp(c)) /\ WF_tunnelVars(Answered(c))
                       /\ WF_tunnelVars(SeesClose(c)) /\ WF_tunnelVars(Ends(c))

TunnelSpec == TunnelInit /\ [][TunnelNext]_tunnelVars /\ TunnelFairness

-----------------------------------------------------------------------------
OnWire(wire, t, c) == Cardinality({i \in 1 .. Len(wire[t]) : wire[t][i] = Frame("DATA", c)})

(* No byte is lost or doubled while the link holds: what either end of an  *)
(* established connection sent was written to the other or is on its wire, *)
(* although the tables are filled while frames are under way.              *)
Accounted ==
    \A c \in Conn : \A t \in {ThisTun(c)} :
        (sock[c].at \in {"wait", "relay"} /\ link[t] = "up") =>
            /\ target[c] # "none" /\ (sock[c].at = "relay" \/ c \in pending[t] \/ sock[c].event) =>
                  down[c].got + OnWire(toServer, t, c) = down[c].sent
            /\ target[c] = "open" => up[c].got + OnWire(toClient, t, c) = up[c].sent

(* The tunnel stands still: its server's reader waits for a SOCKS client   *)
(* or, as a handler waits for room and has the lock, for a client's reader *)
(* that waits itself, for a target or, each for the other, for room.       *)
Stalled(t) ==
    \/ blocked[t].socks # NoConn
    \/ Full(toClient, t) /\ (blocked[t].target # NoConn \/ Full(toServer, t))

(* The end of the target, or of the tunnel, reaches the SOCKS client: its  *)
(* connection is not left open, unless its tunnel stands still for good.   *)
(* That is the code's weakness: one SOCKS client or one target that stops  *)
(* reading holds up every connection of the tunnel, even a broken one's,   *)
(* and when both wires are full both ends wait for ever (until the link    *)
(* breaks).  (A target that resets is not reported: only the idle timeout  *)
(* ends such a connection.)                                                *)
EndReaches ==
    \A c \in Conn :
        \/ <>[](\E t \in Tun : ThisTun(c) = t /\ Stalled(t))
        \/ (sock[c].at = "relay" /\ (target[c] = "ended" \/ link[ThisTun(c)] # "up"))
               ~> sock[c].at = "done"
=============================================================================
