------------------------------- MODULE Signalling -------------------------------
(***************************************************************************)
(* How a client gets its session description and ICE candidates:           *)
(* WebsocketServer on the main thread, ControlServerHandler and Conductor  *)
(* on the worker thread (webrtc/control_server_handler.cpp).  The server's *)
(* signals reach the handler as events queued for the worker, once the     *)
(* worker has made the handler; a signal emitted before is lost.           *)
(*                                                                         *)
(* The worker runs one handler at a time.  The messages a handler sends go *)
(* to the server one by one, between the steps of the main thread.         *)
(***************************************************************************)
EXTENDS Conductor, Sequences, FiniteSets

CONSTANTS
  Clients,        \* the connections clients make
  NoClient,       \* no client
  WiredFirst,     \* no client connects before the handler is there
  OfferMayFail,   \* the library may fail to make an offer, or to set it
  MaxRequests,    \* bound: the requests of each client
  MaxCandidates   \* bound: the ICE candidates of a peer connection

ASSUME SignallingAssumption ==
  /\ NoClient \notin Clients
  /\ WiredFirst \in BOOLEAN /\ OfferMayFail \in BOOLEAN
  /\ MaxRequests \in Nat /\ MaxCandidates \in Nat

(* Session descriptions and candidates, by connection and by number.       *)
Description(k) == [connection |-> k, candidate |-> 0]
Candidate(k, n) == [connection |-> k, candidate |-> n]
Messages == [connection : Nat, candidate : Nat]

Requests == {"reset", "getIceCandidates", "getSessionDescription", "remote"}

VARIABLES
  socket, pending, link, sent, received, lost,   \* WebsocketServer
  wired,       \* the handler exists and is connected to the server
  events,      \* the worker's event queue
  conductor,   \* the state of the Conductor
  iceSubs,     \* the lambdas connected to iceCandidateAppeared
  descSubs,    \* the lambdas connected to localDescriptionAppeared
  outbox,      \* what the handler under way has still to send
  asked,       \* asked[c]: the requests client c has made, in order
  served       \* history: the requests handled, with their clients

Server == INSTANCE WebsocketServer WITH MaxSent <- 0

server == <<socket, pending, link, sent, received, lost>>
handler == <<iceSubs, descSubs, outbox>>
vars == <<server, wired, events, conductor, handler, asked, served>>

Init ==
  /\ Server!Init
  /\ wired = FALSE
  /\ events = <<>>
  /\ conductor = Start
  /\ iceSubs = 0
  /\ descSubs = 0
  /\ outbox = <<>>
  /\ asked = [c \in Clients |-> <<>>]
  /\ served = {}

--------------------------------------------------------------------------------
(* The main thread                                                         *)

(* A signal of the server is queued for the handler, if it is connected.   *)
Emit(event) == events' = IF wired THEN Append(events, event) ELSE events

Connect(c) ==
  /\ WiredFirst => wired
  /\ Server!OnNewConnection(c)
  /\ Emit([type |-> "clientConnected", from |-> c])
  /\ UNCHANGED <<wired, conductor, handler, asked, served>>

ClientSends(c, type) ==
  /\ Server!LetThrough(c)
  /\ Len(asked[c]) < MaxRequests
  /\ asked' = [asked EXCEPT ![c] = Append(@, type)]
  /\ Emit([type |-> type, from |-> c])
  /\ UNCHANGED <<server, wired, conductor, handler, served>>

(* Nobody listens to clientDisconnected: the conductor is not told.        *)
Disconnect(c) ==
  /\ Server!ClientLeaves(c) \/ Server!SocketDisconnected(c)
  /\ UNCHANGED <<wired, events, conductor, handler, asked, served>>

--------------------------------------------------------------------------------
(* The worker thread                                                       *)

Alive == ~conductor.failed

(* Worker::run makes the handler, which connects itself to the server.     *)
MakeHandler ==
  /\ ~wired
  /\ wired' = TRUE
  /\ UNCHANGED <<server, events, conductor, handler, asked, served>>

(* The next event is of this type, and no handler is under way.            *)
Handle(type) ==
  /\ Alive
  /\ outbox = <<>>
  /\ events # <<>>
  /\ Head(events).type = type
  /\ events' = Tail(events)
  /\ served' = served \cup {Head(events)}
  /\ UNCHANGED <<server, wired, asked>>

HandleClientConnected ==
  /\ Handle("clientConnected")
  /\ conductor' = Opened(conductor)
  /\ UNCHANGED handler

HandleReset ==
  /\ Handle("reset")
  /\ conductor' = Opened(Closed(conductor))
  /\ UNCHANGED handler

(* Mutation: the client is told what is known, and not what comes later.   *)
HandleGetIceCandidatesOnce ==
  /\ Handle("getIceCandidates")
  /\ conductor' = Used(conductor)
  /\ outbox' = [n \in 1 .. conductor.candidates |->
                  Candidate(conductor.connection, n)]
  /\ UNCHANGED <<iceSubs, descSubs>>

(* Mutation: the lambda is connected to the wrong signal.                  *)
HandleGetIceCandidatesMisconnected ==
  /\ Handle("getIceCandidates")
  /\ conductor' = Used(conductor)
  /\ outbox' = [n \in 1 .. conductor.candidates |->
                  Candidate(conductor.connection, n)]
  /\ descSubs' = descSubs + 1
  /\ UNCHANGED iceSubs

(* The known candidates are sent; those to come are subscribed to.         *)
HandleGetIceCandidates ==
  /\ Handle("getIceCandidates")
  /\ conductor' = Used(conductor)
  /\ outbox' = [n \in 1 .. conductor.candidates |->
                  Candidate(conductor.connection, n)]
  /\ iceSubs' = iceSubs + 1
  /\ UNCHANGED descSubs

(* Mutation: the known description is sent, those to come are not.         *)
HandleGetSessionDescriptionOnce ==
  /\ Handle("getSessionDescription")
  /\ conductor' = Used(conductor)
  /\ outbox' = IF conductor.described
               THEN <<Description(conductor.connection)>> ELSE <<>>
  /\ UNCHANGED <<iceSubs, descSubs>>

(* The same for the session description.                                   *)
HandleGetSessionDescription ==
  /\ Handle("getSessionDescription")
  /\ conductor' = Used(conductor)
  /\ outbox' = IF conductor.described
               THEN <<Description(conductor.connection)>> ELSE <<>>
  /\ descSubs' = descSubs + 1
  /\ UNCHANGED iceSubs

(* The client's own description or candidate: passed on if it is valid.    *)
HandleRemote ==
  /\ Handle("remote")
  /\ conductor' \in {conductor, Used(conductor)}
  /\ UNCHANGED handler

(* The library's callbacks.  Each subscription sends its own copy.         *)
Callback ==
  /\ Alive
  /\ outbox = <<>>
  /\ UNCHANGED <<server, wired, events, iceSubs, descSubs, asked, served>>

OnSuccess ==
  /\ Callback
  /\ conductor.offering
  /\ conductor' = Described(conductor)
  /\ outbox' = [i \in 1 .. descSubs |-> Description(conductor.connection)]

(* The description is announced even if it has not been set.               *)
OnSuccessInVain ==
  /\ OfferMayFail
  /\ Callback
  /\ conductor.offering
  /\ conductor' = DescribedInVain(conductor)
  /\ outbox' = [i \in 1 .. descSubs |-> Description(conductor.connection)]

OnFailure ==
  /\ OfferMayFail
  /\ Callback
  /\ conductor.offering
  /\ conductor' = OfferFailed(conductor)
  /\ UNCHANGED outbox

OnIceCandidate ==
  /\ Callback
  /\ conductor.described
  /\ conductor.candidates < MaxCandidates
  /\ conductor' = Gathered(conductor)
  /\ outbox' = [i \in 1 .. iceSubs |->
                  Candidate(conductor.connection, conductor.candidates + 1)]

SendNext ==
  /\ outbox # <<>>
  /\ Server!SendMessage(Head(outbox))
  /\ outbox' = Tail(outbox)
  /\ UNCHANGED <<wired, events, conductor, iceSubs, descSubs, asked, served>>

--------------------------------------------------------------------------------
HandleEvent ==
  \/ HandleClientConnected \/ HandleReset
  \/ HandleGetIceCandidates \/ HandleGetSessionDescription \/ HandleRemote

Next ==
  \/ \E c \in Clients : Connect(c) \/ Disconnect(c)
                        \/ \E type \in Requests : ClientSends(c, type)
  \/ MakeHandler
  \/ HandleEvent
  \/ OnSuccess \/ OnSuccessInVain \/ OnFailure \/ OnIceCandidate
  \/ SendNext

(* The worker's loop serves the library and the event queue in turn.       *)
Spec ==
  /\ Init /\ [][Next]_vars
  /\ WF_vars(MakeHandler) /\ WF_vars(HandleEvent) /\ WF_vars(SendNext)
  /\ SF_vars(OnSuccess)

--------------------------------------------------------------------------------
(* What client c has received, in order.                                   *)
Got(c) == [i \in DOMAIN received[c] |-> sent[received[c][i]]]
Has(c, message) == \E i \in DOMAIN received[c] : Got(c)[i] = message

(* Client c is connected and has had this request handled.                 *)
Served(c, type) ==
  socket = c /\ link[c] = "open" /\ [type |-> type, from |-> c] \in served

(* The types of the variables.                                             *)
TypeOK ==
  /\ Server!TypeOK
  /\ wired \in BOOLEAN
  /\ events \in Seq([type : Requests \cup {"clientConnected"}, from : Clients])
  /\ conductor \in [connection : {None, conductor.made}, made : Nat, stream : BOOLEAN,
                    offering : BOOLEAN, described : BOOLEAN,
                    candidates : 0 .. MaxCandidates, failed : BOOLEAN]
  /\ iceSubs \in Nat /\ descSubs \in Nat
  /\ outbox \in Seq(Messages)
  /\ asked \in [Clients -> Seq(Requests)]

(* The handler never calls a peer connection that is not there, nor opens  *)
(* one over another's stream, whatever the order in which clients connect, *)
(* reset and ask, and however late their requests are handled.             *)
ConnectionIsThere == Alive

(* A client never gets anything of an older peer connection after          *)
(* something of a newer one: what was made before a reset is not sent      *)
(* after it, also when it had to wait for a client.                        *)
GenerationsInOrder ==
  \A c \in Clients : \A i, j \in DOMAIN received[c] :
    i <= j => Got(c)[i].connection <= Got(c)[j].connection

(* Between reading what is known and subscribing to what comes nothing is  *)
(* missed: a connected client whose request has been handled has all there *)
(* is of the current peer connection, through any number of resets.        *)
NothingMissed ==
  outbox = <<>> =>
    \A c \in Clients :
      /\ Served(c, "getSessionDescription") /\ conductor.described
           => Has(c, Description(conductor.connection))
      /\ Served(c, "getIceCandidates")
           => \A n \in 1 .. conductor.candidates :
                Has(c, Candidate(conductor.connection, n))

(* Each request makes the server send a message at most once, either with  *)
(* what is known or as it appears: no message is sent more often than all  *)
(* clients together have asked for its kind.                               *)
Kind(message) ==
  IF message.candidate = 0 THEN "getSessionDescription" ELSE "getIceCandidates"

TimesSent(message) == Cardinality({i \in DOMAIN sent : sent[i] = message})

TimesAsked(type) ==
  Cardinality({r \in Clients \X (1 .. MaxRequests) :
                 r[2] \in DOMAIN asked[r[1]] /\ asked[r[1]][r[2]] = type})

SentAsOftenAsAsked ==
  \A i \in DOMAIN sent : TimesSent(sent[i]) <= TimesAsked(Kind(sent[i]))

(* A client that asks for the session description gets one, through resets *)
(* and the requests of others, unless it leaves or is replaced, or the     *)
(* library fails to make an offer or to set it as the local description.   *)
Waiting(c) == \E i \in DOMAIN asked[c] : asked[c][i] = "getSessionDescription"

GotDescription(c) == \E i \in DOMAIN received[c] : Got(c)[i].candidate = 0

NoOffer ==
  conductor.connection # None /\ ~conductor.offering /\ ~conductor.described

DescriptionArrives ==
  \A c \in Clients : Waiting(c) ~> link[c] # "open" \/ GotDescription(c) \/ NoOffer
================================================================================
