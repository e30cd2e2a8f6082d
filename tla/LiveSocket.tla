------------------------------- MODULE LiveSocket -------------------------------
(***************************************************************************)
(* The WebSocket server (apps/ws) with its connection limiter, and the     *)
(* hook through which the feed page listens (use-websocket.ts).  The page  *)
(* sets no filter, so it hears what goes to the room feed:all, which every *)
(* accepted socket joins.                                                  *)
(*                                                                         *)
(* A connection that breaks is noticed by the two ends at different times: *)
(* until the server notices (a ping goes unanswered), the dead connection  *)
(* counts against the limit.  A refused client has seen `connect' and is   *)
(* then disconnected by the server, after which socket.io does not         *)
(* reconnect by itself.                                                    *)
(***************************************************************************)
EXTENDS Integers, Sequences, FiniteSets

CONSTANTS
  Conns,           \* connections, each used once
  MaxConnections,  \* MAX_CONNECTIONS
  MaxAttempts,     \* reconnectionAttempts
  MaxPublished,    \* bound: events published
  None             \* no connection, no event, no timer

ASSUME SocketAssumption ==
  /\ IsFiniteSet(Conns) /\ None \notin Conns \cup Int
  /\ MaxConnections \in Nat /\ MaxAttempts \in Nat \ {0} /\ MaxPublished \in Nat

(* Packets: the events are their numbers.                                  *)
Connect == 0
Disconnect == -1

VARIABLES
  conn,           \* server: the state of each connection
  current,        \* server: the limiter's count
  published,      \* events published on the Redis channel so far
  socket,         \* client: its connection, or None
  link,           \* client: "dialling", "up", or "stopped" (no more attempts)
  attempts,       \* client: reconnection attempts since it was last connected
  wire,           \* packets under way to the client
  isConnected,    \* hook state
  everConnected,  \* hook state
  lastEvent,      \* hook state: the one slot for an event, or None
  overwritten,    \* history: events replaced in the slot before a render
  since           \* history: the last event published before it connected

serverVars == <<conn, current, published>>
hookVars == <<socket, link, attempts, wire, isConnected, everConnected,
              lastEvent, overwritten, since>>
socketVars == <<serverVars, hookVars>>

SocketInit ==
  /\ conn = [c \in Conns |-> "new"] /\ current = 0 /\ published = 0
  /\ socket = None /\ link = "dialling" /\ attempts = 0 /\ wire = <<>>
  /\ isConnected = FALSE /\ everConnected = FALSE
  /\ lastEvent = None /\ overwritten = {} /\ since = 0

-----------------------------------------------------------------------------
(* The server's connection handler: over the limit the client is told so   *)
(* and disconnected; otherwise the limiter counts it.                      *)
CanConnect == current < MaxConnections
Accept(c) ==
  IF CanConnect
  THEN conn' = [conn EXCEPT ![c] = "open"] /\ current' = current + 1
  ELSE conn' = [conn EXCEPT ![c] = "refused"] /\ UNCHANGED current

(* Its disconnect handler, which only an accepted connection has.          *)
Closed(c) ==
  /\ conn[c] = "open"
  /\ conn' = [conn EXCEPT ![c] = "closed"]
  /\ current' = IF current > 0 THEN current - 1 ELSE current

(* Other clients come and go.                                              *)
OtherConnects(c) ==
  /\ conn[c] = "new" /\ Accept(c)
  /\ UNCHANGED <<published, hookVars>>
OtherCloses(c) ==
  /\ c # socket /\ Closed(c)
  /\ UNCHANGED <<published, hookVars>>

(* A message on the Redis channel is sent to feed:all.                     *)
Publish ==
  /\ published < MaxPublished
  /\ published' = published + 1
  /\ wire' = IF socket # None /\ conn[socket] = "open"
             THEN Append(wire, published + 1) ELSE wire
  /\ UNCHANGED <<conn, current, socket, link, attempts, isConnected,
                 everConnected, lastEvent, overwritten, since>>

-----------------------------------------------------------------------------
(* The client dials, at first, after a break and when asked to reconnect.  *)
Dial(c) ==
  /\ link = "dialling" /\ socket = None
  /\ conn[c] = "new" /\ Accept(c)
  /\ socket' = c /\ since' = published
  /\ wire' = IF CanConnect THEN <<Connect>> ELSE <<Connect, Disconnect>>
  /\ UNCHANGED <<published, link, attempts, isConnected, everConnected,
                 lastEvent, overwritten>>

(* connect_error: after the first attempt MaxAttempts more are made.       *)
ConnectError ==
  /\ link = "dialling" /\ socket = None
  /\ isConnected' = FALSE
  /\ attempts' = IF attempts < MaxAttempts THEN attempts + 1 ELSE attempts
  /\ link' = IF attempts < MaxAttempts THEN link ELSE "stopped"
  /\ UNCHANGED <<serverVars, socket, wire, everConnected, lastEvent, overwritten, since>>

Received(packet) == wire # <<>> /\ Head(wire) = packet /\ wire' = Tail(wire)

OnConnect ==
  /\ Received(Connect)
  /\ link' = "up" /\ attempts' = 0
  /\ isConnected' = TRUE /\ everConnected' = TRUE
  /\ UNCHANGED <<serverVars, socket, lastEvent, overwritten, since>>

(* The server's disconnect: socket.io leaves it to the user to come back.  *)
OnRefused ==
  /\ Received(Disconnect)
  /\ link' = "stopped" /\ socket' = None /\ isConnected' = FALSE
  /\ UNCHANGED <<serverVars, attempts, everConnected, lastEvent, overwritten, since>>

(* The client notices a break; the server may not have yet.                *)
OnBreak ==
  /\ link = "up" /\ conn[socket] \in {"open", "closed"}
  /\ link' = "dialling" /\ attempts' = 1
  /\ socket' = None /\ wire' = <<>> /\ isConnected' = FALSE
  /\ UNCHANGED <<serverVars, everConnected, lastEvent, overwritten, since>>

(* The server notices the break first: the ping timeout.                   *)
PingTimeout ==
  /\ socket # None /\ Closed(socket)
  /\ UNCHANGED <<published, hookVars>>

(* setLastEvent: an event that was not rendered yet is replaced.           *)
OnEvent ==
  /\ wire # <<>> /\ Head(wire) > 0 /\ Received(Head(wire))
  /\ lastEvent' = Head(wire)
  /\ overwritten' = overwritten \cup ({lastEvent} \ {None})
  /\ UNCHANGED <<serverVars, socket, link, attempts, isConnected, everConnected, since>>

(* The effect's cleanup and a new run: the old socket is disconnected, so  *)
(* nothing more of it is heard, and a new one dials.                       *)
NewSocket ==
  /\ IF socket # None /\ conn[socket] = "open" THEN Closed(socket)
     ELSE UNCHANGED <<conn, current>>
  /\ socket' = None /\ wire' = <<>> /\ link' = "dialling" /\ attempts' = 0
  /\ isConnected' = FALSE
  /\ UNCHANGED published

SocketNext ==
  \/ \E c \in Conns : OtherConnects(c) \/ OtherCloses(c) \/ Dial(c)
  \/ Publish \/ ConnectError \/ OnConnect \/ OnRefused \/ OnBreak
  \/ PingTimeout \/ OnEvent

-----------------------------------------------------------------------------
(* The limiter counts exactly the sockets that were accepted and have not  *)
(* been seen to close, and never more than the limit.                      *)
LimiterCounts ==
  /\ current = Cardinality({c \in Conns : conn[c] = "open"})
  /\ current <= MaxConnections

(* The page is offline with no attempt under way only when the attempts    *)
(* ran out or the server was full: in the latter case the hook never dials *)
(* again by itself, although it may be the page's own dead connection that *)
(* fills the server.                                                       *)
StoppedMeansGivenUp ==
  link = "stopped" =>
    /\ ~isConnected /\ socket = None
    /\ attempts = MaxAttempts \/ \E c \in Conns : conn[c] = "refused"
=============================================================================
