----------------------------- MODULE WebsocketServer -----------------------------
(***************************************************************************)
(* WebsocketServer (websocket_server.cpp): the control server.  It talks   *)
(* to one client at a time, over m_socket; a new connection takes the      *)
(* place of the one before.  Connections come and go on the main thread,   *)
(* sendMessage is called by the worker thread: m_socket_mutex makes each   *)
(* of the steps below atomic.  What is sent while nobody is connected      *)
(* waits in m_pending_messages.                                            *)
(*                                                                         *)
(* A client is one connection.  Messages are numbered as they are sent.    *)
(* QWebSocket and the network are external.                                *)
(***************************************************************************)
EXTENDS Integers, Sequences, FiniteSets

CONSTANTS
  Clients,      \* the connections that may be made
  NoClient,     \* m_socket is NULL
  Messages,     \* what the worker sends
  MaxSent       \* bound: the number of messages sent

ASSUME ServerAssumption ==
  NoClient \notin Clients /\ MaxSent \in Nat

VARIABLES
  socket,    \* m_socket: the client it talks to, or NoClient
  pending,   \* m_pending_messages, by their numbers
  link,      \* link[c]: the connection and the QWebSocket of client c
  sent,      \* history: the messages sent
  received,  \* received[c]: the numbers of the messages that reached client c
  lost       \* history: the messages written to a client that had left

vars == <<socket, pending, link, sent, received, lost>>

(* "new" before the connection, "open", "left" once the client has closed  *)
(* it or lost the network, "deleted" when the server's QWebSocket is gone. *)
LinkStates == {"new", "open", "left", "deleted"}

Init ==
  /\ socket = NoClient
  /\ pending = <<>>
  /\ link = [c \in Clients |-> "new"]
  /\ sent = <<>>
  /\ received = [c \in Clients |-> <<>>]
  /\ lost = {}

--------------------------------------------------------------------------------
Numbers(ns) == {ns[i] : i \in DOMAIN ns}

(* Mutation: takeLast instead of takeFirst.                                *)
FlushedBackwards ==
  [i \in DOMAIN pending |-> pending[Len(pending) + 1 - i]]

(* Mutation: a message is taken before it is known that there is one.      *)
FlushedAtLeastOnce == IF pending = <<>> THEN <<0>> ELSE pending

(* What onNewConnection takes from the list and sends, in order.           *)
Flushed == pending

(* onNewConnection: the old socket is deleted, without a disconnected()    *)
(* signal, and the new client gets all that was pending.                   *)
OnNewConnection(c) ==
  /\ link[c] = "new"
  /\ socket' = c
  /\ link' = [d \in Clients |-> IF d = c THEN "open"
                                ELSE IF d = socket THEN "deleted" ELSE link[d]]
  /\ received' = [received EXCEPT ![c] = @ \o Flushed]
  /\ pending' = <<>>
  /\ UNCHANGED <<sent, lost>>

(* The client goes away; the server does not know yet.                     *)
ClientLeaves(c) ==
  /\ link[c] = "open"
  /\ link' = [link EXCEPT ![c] = "left"]
  /\ UNCHANGED <<socket, pending, sent, received, lost>>

(* Mutation: the pointer to the deleted socket is kept.                    *)
SocketDisconnectedKeepingSocket(c) ==
  /\ link[c] = "left"
  /\ link' = [link EXCEPT ![c] = "deleted"]
  /\ UNCHANGED <<socket, pending, sent, received, lost>>

(* socketDisconnected                                                      *)
SocketDisconnected(c) ==
  /\ link[c] = "left"
  /\ link' = [link EXCEPT ![c] = "deleted"]
  /\ socket' = IF socket = c THEN NoClient ELSE socket
  /\ UNCHANGED <<pending, sent, received, lost>>

(* Mutation: what is sent while nobody is connected is dropped.            *)
SendMessageOrDrop(m) ==
  /\ sent' = Append(sent, m)
  /\ received' = IF socket # NoClient /\ link[socket] = "open"
                 THEN [received EXCEPT ![socket] = Append(@, Len(sent) + 1)]
                 ELSE received
  /\ UNCHANGED <<socket, link, lost, pending>>

(* sendMessage: written to the socket, and lost if the client has left, or *)
(* kept for the next client.                                               *)
SendMessage(m) ==
  LET n == Len(sent) + 1
      delivered == socket # NoClient /\ link[socket] = "open"
  IN  /\ sent' = Append(sent, m)
      /\ received' = IF delivered
                     THEN [received EXCEPT ![socket] = Append(@, n)] ELSE received
      /\ lost' = IF socket # NoClient /\ ~delivered THEN lost \cup {n} ELSE lost
      /\ pending' = IF socket = NoClient THEN Append(pending, n) ELSE pending
      /\ UNCHANGED <<socket, link>>

(* processTextMessage lets a client's message through, and emits           *)
(* messageReceived, only while m_socket is the socket it came from: also   *)
(* what its client sent before it left.                                    *)
LetThrough(c) == link[c] \in {"open", "left"} /\ socket = c

--------------------------------------------------------------------------------
(* The server on its own: any client connects and leaves at any time, and  *)
(* the worker sends what it likes.                                         *)
WorkerSends == Len(sent) < MaxSent /\ \E m \in Messages : SendMessage(m)

Next ==
  \/ \E c \in Clients : OnNewConnection(c) \/ ClientLeaves(c) \/ SocketDisconnected(c)
  \/ WorkerSends

(* The main thread's event loop reports each lost connection.              *)
Spec == Init /\ [][Next]_vars /\ \A c \in Clients : WF_vars(SocketDisconnected(c))

--------------------------------------------------------------------------------
(* The types of the variables.                                             *)
TypeOK ==
  /\ socket \in Clients \cup {NoClient}
  /\ pending \in Seq(Nat \ {0})
  /\ link \in [Clients -> LinkStates]
  /\ sent \in Seq(Messages)
  /\ received \in [Clients -> Seq(Nat \ {0})]
  /\ lost \in SUBSET (Nat \ {0})

(* m_socket never points to a deleted QWebSocket, whatever the order in    *)
(* which connections are made, replaced and lost.                          *)
SocketIsAlive == socket # NoClient => link[socket] \in {"open", "left"}

(* Every message sent is in exactly one place: pending, with one client,   *)
(* or lost with a client that had left.  While there is a client nothing   *)
(* is pending.                                                             *)
EveryMessageAccountedFor ==
  LET taken == UNION {Numbers(received[c]) : c \in Clients}
  IN  /\ taken \cup Numbers(pending) \cup lost = DOMAIN sent
      /\ taken \cap (Numbers(pending) \cup lost) = {}
      /\ Numbers(pending) \cap lost = {}
      /\ socket # NoClient => pending = <<>>

(* The clients get the messages in the order they were sent, each message  *)
(* at most one client.                                                     *)
Relay == INSTANCE MessageRelay WITH count <- Len(sent), got <- received
ImplementsRelay == Relay!Spec

(* The server never stays with a client that has left: from then on, what  *)
(* is sent is kept for the next one.                                       *)
LeftClientIsReleased == \A c \in Clients : link[c] = "left" ~> socket # c
================================================================================
