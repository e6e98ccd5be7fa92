---------------------------- MODULE SignallingProofs ----------------------------
(***************************************************************************)
(* The handler never meets a missing peer connection once it is there      *)
(* before the clients, and no client gets anything of an older connection  *)
(* after something of a newer one: for any number of clients, requests and *)
(* candidates.  What the server does with a message is taken from          *)
(* WebsocketServerProofs.                                                  *)
(***************************************************************************)
EXTENDS Signalling, TLAPS

ServerFacts == INSTANCE WebsocketServerProofs WITH MaxSent <- 0

--------------------------------------------------------------------------------
(* The server keeps its invariant in each of its steps taken here.         *)
ServerInv == ServerFacts!ServerInv

LEMMA ServerBegins == Server!Init => ServerInv
BY ServerFacts!ServerStart, SignallingAssumption
   DEF ServerInv, Server!Init, ServerFacts!Init

LEMMA ServerKeeps ==
  ASSUME ServerInv
  PROVE  /\ \A c \in Clients :
              Server!OnNewConnection(c) \/ Server!ClientLeaves(c)
                \/ Server!SocketDisconnected(c) => ServerInv'
         /\ \A m \in Messages : Server!SendMessage(m) => ServerInv'
         /\ UNCHANGED server => ServerInv'
<1> USE SignallingAssumption DEF ServerInv
<1>1. ASSUME NEW c \in Clients, Server!OnNewConnection(c) PROVE ServerInv'
  <2>1. ServerFacts!OnNewConnection(c)
    BY <1>1 DEF Server!OnNewConnection, Server!Flushed,
                ServerFacts!OnNewConnection, ServerFacts!Flushed
  <2>2. QED BY <2>1, ServerFacts!ConnectionStep
<1>2. ASSUME NEW c \in Clients, Server!ClientLeaves(c) \/ Server!SocketDisconnected(c)
      PROVE  ServerInv'
  <2>1. ServerFacts!ClientLeaves(c) \/ ServerFacts!SocketDisconnected(c)
    BY <1>2 DEF Server!ClientLeaves, Server!SocketDisconnected,
                ServerFacts!ClientLeaves, ServerFacts!SocketDisconnected
  <2>2. QED BY <2>1, ServerFacts!LossStep
<1>3. ASSUME NEW m \in Messages, Server!SendMessage(m) PROVE ServerInv'
  <2>1. ServerFacts!SendMessage(m)
    BY <1>3 DEF Server!SendMessage, ServerFacts!SendMessage
  <2>2. QED BY <2>1, ServerFacts!SendStep
<1>4. ASSUME UNCHANGED server PROVE ServerInv'
  <2>1. UNCHANGED ServerFacts!vars
    BY <1>4 DEF server, ServerFacts!vars
  <2>2. QED BY <2>1, ServerFacts!ServerStep
<1>5. QED BY <1>1, <1>2, <1>3, <1>4

(* What is needed of the server's invariant.                               *)
LEMMA ServerGives ==
  ASSUME ServerInv
  PROVE  /\ Server!TypeOK
         /\ link \in [Clients -> {"new", "open", "left", "deleted"}]
         /\ \A c \in Clients : link[c] = "open" => socket = c
         /\ sent \in Seq(Messages)
         /\ \A c \in Clients : \A i \in DOMAIN received[c] :
              received[c][i] \in DOMAIN sent
         /\ \A c \in Clients : \A i, j \in DOMAIN received[c] :
              i < j => received[c][i] < received[c][j]
<1>1. ServerFacts!TypeOK /\ ServerFacts!ReceivedRises
      /\ ServerFacts!EveryMessageAccountedFor
  BY DEF ServerInv, ServerFacts!ServerInv
<1>2. Server!TypeOK
  BY <1>1 DEF ServerFacts!TypeOK, Server!TypeOK, ServerFacts!LinkStates, Server!LinkStates
<1>3. ASSUME NEW c \in Clients, NEW i \in DOMAIN received[c]
      PROVE  received[c][i] \in DOMAIN sent
  BY <1>1 DEF ServerFacts!EveryMessageAccountedFor, ServerFacts!Numbers
<1>4. \A c \in Clients : link[c] = "open" => socket = c
  BY DEF ServerInv, ServerFacts!ServerInv, ServerFacts!OnlyTheSocketLives
<1>5. QED
  BY <1>1, <1>2, <1>3, <1>4
  DEF ServerFacts!TypeOK, ServerFacts!LinkStates, ServerFacts!ReceivedRises,
      ServerFacts!Rising

--------------------------------------------------------------------------------
Conductors ==
  [connection : Nat, made : Nat, stream : BOOLEAN, offering : BOOLEAN,
   described : BOOLEAN, candidates : 0 .. MaxCandidates, failed : BOOLEAN]

(* The conductor's connection is the latest made, and without one there is *)
(* no stream, offer, description or candidate.                             *)
ConductorOK(s) ==
  /\ s \in Conductors
  /\ s.connection \in {None, s.made}
  /\ s.connection = None =>
       ~s.stream /\ ~s.offering /\ ~s.described /\ s.candidates = 0

(* Neither more connections nor a failure.                                 *)
Same(s, t) == t.failed = s.failed /\ t.made = s.made

LEMMA ClosedOK ==
  ASSUME NEW s, ConductorOK(s)
  PROVE  ConductorOK(Closed(s)) /\ Closed(s).connection = None /\ Same(s, Closed(s))
<1> DEFINE t == Closed(s)
<1>1. s \in Conductors /\ s.made \in Nat
  BY DEF ConductorOK, Conductors
<1>2. t \in Conductors
  <2>1. 0 \in 0 .. MaxCandidates /\ 0 \in Nat /\ FALSE \in BOOLEAN
    BY SignallingAssumption
  <2>2. t = [s EXCEPT !.connection = 0, !.stream = FALSE, !.offering = FALSE,
                      !.described = FALSE, !.candidates = 0]
    BY DEF Closed, None
  <2> HIDE DEF t
  <2>3. QED BY <1>1, <2>1, <2>2 DEF Conductors
<1>3. /\ t.connection = None /\ t.made = s.made /\ t.failed = s.failed
      /\ t.stream = FALSE /\ t.offering = FALSE /\ t.described = FALSE
      /\ t.candidates = 0
  BY <1>1 DEF Closed, Conductors
<1> HIDE DEF t
<1>4. QED BY <1>2, <1>3 DEF ConductorOK, Same, t

(* A connection that is opened has no stream to get in its way.            *)
LEMMA OpenedOK ==
  ASSUME NEW s, ConductorOK(s)
  PROVE  /\ ConductorOK(Opened(s)) /\ Opened(s).connection # None
         /\ Opened(s).failed = s.failed /\ Opened(s).made >= s.made
<1> DEFINE t == Opened(s)
<1>1. s \in Conductors /\ s.made \in Nat
  BY DEF ConductorOK, Conductors
<1>2. CASE s.connection # None
  <2>1. t = s
    BY <1>2 DEF Opened
  <2>2. QED BY <1>1, <1>2, <2>1
<1>3. CASE s.connection = None
  <2>1. s.stream = FALSE /\ s.failed \in BOOLEAN
    <3>1. s.stream \in BOOLEAN /\ s.failed \in BOOLEAN
      BY <1>1 DEF Conductors
    <3>2. QED BY <3>1, <1>3 DEF ConductorOK
  <2>2. (s.failed \/ s.stream) = s.failed
    BY <2>1
  <2>3. t = [s EXCEPT !.connection = s.made + 1, !.made = s.made + 1, !.stream = TRUE,
                      !.offering = TRUE, !.failed = s.failed]
    BY <1>3, <2>2 DEF Opened
  <2> HIDE DEF t
  <2>4. t \in Conductors
    <3>1. t = [connection |-> s.made + 1, made |-> s.made + 1, stream |-> TRUE,
               offering |-> TRUE, described |-> s.described,
               candidates |-> s.candidates, failed |-> s.failed]
      BY <1>1, <2>3 DEF Conductors
    <3>2. s.made + 1 \in Nat /\ s.described \in BOOLEAN /\ TRUE \in BOOLEAN
          /\ s.candidates \in 0 .. MaxCandidates
      BY <1>1 DEF Conductors
    <3>3. QED BY <2>1, <3>1, <3>2 DEF Conductors
  <2>5. t.connection = s.made + 1 /\ t.made = s.made + 1 /\ t.failed = s.failed
    BY <1>1, <2>3 DEF Conductors
  <2>6. QED BY <1>1, <2>4, <2>5 DEF ConductorOK, None, t
<1>4. QED BY <1>2, <1>3

(* A connection that is there can be used.                                 *)
LEMMA UsedOK ==
  ASSUME NEW s, ConductorOK(s)
  PROVE  /\ ConductorOK(Used(s)) /\ Used(s).made = s.made
         /\ Used(s).connection = s.connection
         /\ s.connection # None => Used(s) = s
<1> DEFINE failed == s.failed \/ s.connection = None
           t == Used(s)
<1>1. s \in Conductors /\ s.failed \in BOOLEAN /\ failed \in BOOLEAN
  BY DEF ConductorOK, Conductors
<1>2. t = [s EXCEPT !.failed = failed]
  BY DEF Used
<1>3. ASSUME s.connection # None PROVE t = s
  <2>1. failed = s.failed
    BY <1>1, <1>3
  <2> HIDE DEF failed
  <2>2. QED BY <1>1, <1>2, <2>1 DEF Conductors
<1> HIDE DEF failed, t
<1>4. t \in Conductors
  BY <1>1, <1>2 DEF Conductors
<1>5. /\ t.made = s.made /\ t.connection = s.connection /\ t.stream = s.stream
      /\ t.offering = s.offering /\ t.described = s.described
      /\ t.candidates = s.candidates
  BY <1>1, <1>2 DEF Conductors
<1>6. QED BY <1>3, <1>4, <1>5 DEF ConductorOK, t

(* The callbacks, when there is an offer or a description.                 *)
LEMMA CallbacksOK ==
  ASSUME NEW s, ConductorOK(s)
  PROVE  /\ s.offering => ConductorOK(Described(s)) /\ Same(s, Described(s))
         /\ s.offering => ConductorOK(OfferFailed(s)) /\ Same(s, OfferFailed(s))
         /\ s.offering => DescribedInVain(s) = OfferFailed(s)
         /\ s.described /\ s.candidates < MaxCandidates =>
              ConductorOK(Gathered(s)) /\ Same(s, Gathered(s))
<1>1. ASSUME s.offering PROVE ConductorOK(Described(s)) /\ Same(s, Described(s))
  <2>1. s.connection # None /\ Used(s) = s
    BY <1>1, UsedOK DEF ConductorOK
  <2>2. Described(s) = [s EXCEPT !.offering = FALSE, !.described = TRUE]
    BY <2>1 DEF Described
  <2>3. QED BY <2>1, <2>2 DEF ConductorOK, Conductors, Same
<1>2. ASSUME s.offering PROVE ConductorOK(OfferFailed(s)) /\ Same(s, OfferFailed(s))
  BY <1>2 DEF ConductorOK, Conductors, OfferFailed, Same
<1>3. ASSUME s.described, s.candidates < MaxCandidates
      PROVE  ConductorOK(Gathered(s)) /\ Same(s, Gathered(s))
  BY <1>3, SignallingAssumption DEF ConductorOK, Conductors, Gathered, Same, None
<1>4. ASSUME s.offering PROVE DescribedInVain(s) = OfferFailed(s)
  <2>1. Used(s) = s
    BY <1>4, UsedOK DEF ConductorOK
  <2>2. QED BY <2>1 DEF DescribedInVain, OfferFailed
<1>5. QED BY <1>1, <1>2, <1>3, <1>4

--------------------------------------------------------------------------------
Events == [type : Requests \cup {"clientConnected"}, from : Clients]

(* The types, the server's invariant and the conductor's.                  *)
Typed ==
  /\ ServerInv
  /\ wired \in BOOLEAN
  /\ events \in Seq(Events)
  /\ ConductorOK(conductor)
  /\ iceSubs \in Nat /\ descSubs \in Nat
  /\ outbox \in Seq(Messages)
  /\ asked \in [Clients -> Seq(Requests)]

(* What is still to be sent is of the latest connection, and nothing sent  *)
(* is newer than that.                                                     *)
OldestFirst ==
  /\ \A i \in DOMAIN sent : sent[i].connection <= conductor.made
  /\ \A i, j \in DOMAIN sent : i <= j => sent[i].connection <= sent[j].connection
  /\ \A i \in DOMAIN outbox : outbox[i].connection = conductor.made

SignalInv == Typed /\ OldestFirst

LEMMA SignalStart == Init => SignalInv
<1> SUFFICES ASSUME Init PROVE SignalInv
  OBVIOUS
<1>1. ServerInv /\ sent = <<>> /\ outbox = <<>>
  BY ServerBegins DEF Init, Server!Init
<1>2. ConductorOK(conductor)
  BY SignallingAssumption DEF Init, Start, ConductorOK, Conductors, None
<1>3. wired \in BOOLEAN /\ events \in Seq(Events) /\ iceSubs \in Nat /\ descSubs \in Nat
      /\ outbox \in Seq(Messages) /\ asked \in [Clients -> Seq(Requests)]
  <2>1. wired = FALSE /\ events = <<>> /\ iceSubs = 0 /\ descSubs = 0
        /\ outbox = <<>> /\ asked = [c \in Clients |-> <<>>]
    BY DEF Init
  <2>2. wired \in BOOLEAN
    BY <2>1
  <2>3. QED BY <2>1, <2>2
<1>4. OldestFirst
  BY <1>1 DEF OldestFirst
<1>5. QED BY <1>1, <1>2, <1>3, <1>4 DEF SignalInv, Typed

(* The main thread leaves the worker's side alone, but for the events.     *)
LEMMA EmitStep ==
  ASSUME Typed, NEW e \in Events, Emit(e)
  PROVE  events' \in Seq(Events)
         /\ (events # <<>> => events' # <<>> /\ Head(events') = Head(events))
         /\ (events' = events \/ (wired /\ events' = Append(events, e)))
BY DEF Typed, Emit

LEMMA MainThreadStep ==
  ASSUME SignalInv, NEW c \in Clients,
         \/ Connect(c) \/ Disconnect(c) \/ \E type \in Requests : ClientSends(c, type)
  PROVE  SignalInv'
<1>1. Typed /\ OldestFirst
  BY DEF SignalInv
<1>2. CASE Connect(c)
  <2>1. Server!OnNewConnection(c) /\ Emit([type |-> "clientConnected", from |-> c])
        /\ UNCHANGED <<wired, conductor, handler, asked, served>>
    BY <1>2 DEF Connect
  <2>2. events' \in Seq(Events)
    BY <1>1, <2>1, EmitStep DEF Events
  <2>3. ServerInv' /\ sent' = sent
    BY <1>1, <2>1, ServerKeeps DEF Typed, Server!OnNewConnection
  <2>4. Typed'
    BY <1>1, <2>1, <2>2, <2>3 DEF Typed, handler
  <2>5. QED BY <1>1, <2>1, <2>3, <2>4 DEF SignalInv, OldestFirst, handler
<1>3. CASE Disconnect(c)
  <2>1. Server!ClientLeaves(c) \/ Server!SocketDisconnected(c)
    BY <1>3 DEF Disconnect
  <2>2. UNCHANGED <<wired, events, conductor, handler, asked, served>>
    BY <1>3 DEF Disconnect
  <2>3. ServerInv' /\ sent' = sent
    BY <1>1, <2>1, ServerKeeps
    DEF Typed, Server!ClientLeaves, Server!SocketDisconnected
  <2>4. Typed'
    BY <1>1, <2>2, <2>3 DEF Typed, handler
  <2>5. QED BY <1>1, <2>2, <2>3, <2>4 DEF SignalInv, OldestFirst, handler
<1>4. ASSUME NEW type \in Requests, ClientSends(c, type) PROVE SignalInv'
  <2>1. /\ asked' = [asked EXCEPT ![c] = Append(@, type)]
        /\ Emit([type |-> type, from |-> c])
        /\ UNCHANGED <<server, wired, conductor, handler, served>>
    BY <1>4 DEF ClientSends
  <2>2. events' \in Seq(Events)
    BY <1>1, <2>1, EmitStep DEF Events
  <2>3. ServerInv' /\ sent' = sent
    BY <1>1, <2>1, ServerKeeps DEF Typed, server
  <2>4. asked' \in [Clients -> Seq(Requests)]
    BY <1>1, <2>1 DEF Typed
  <2>5. Typed'
    BY <1>1, <2>1, <2>2, <2>3, <2>4 DEF Typed, handler
  <2>6. QED BY <1>1, <2>1, <2>3, <2>5 DEF SignalInv, OldestFirst, handler
<1>5. QED BY <1>2, <1>3, <1>4

(* A step of the worker that keeps the server and queues messages of the   *)
(* latest connection.                                                      *)
LEMMA WorkerKeeps ==
  ASSUME SignalInv, UNCHANGED <<server, asked>>, wired' \in BOOLEAN,
         events' \in Seq(Events),
         ConductorOK(conductor'), conductor'.made >= conductor.made,
         iceSubs' \in Nat, descSubs' \in Nat, outbox' \in Seq(Messages),
         \A i \in DOMAIN outbox' : outbox'[i].connection = conductor'.made
  PROVE  SignalInv'
<1>1. Typed /\ OldestFirst
  BY DEF SignalInv
<1>2. ServerInv' /\ sent' = sent /\ asked' = asked
  BY <1>1, ServerKeeps DEF Typed, server
<1>3. Typed'
  BY <1>1, <1>2 DEF Typed
<1>4. conductor.made \in Nat /\ conductor'.made \in Nat
      /\ \A i \in DOMAIN sent : sent[i].connection \in Nat
  <2>1. conductor.made \in Nat /\ conductor'.made \in Nat
    BY <1>1 DEF Typed, ConductorOK, Conductors
  <2>2. sent \in Seq(Messages)
    BY <1>1, ServerGives DEF Typed
  <2>3. ASSUME NEW i \in DOMAIN sent PROVE sent[i].connection \in Nat
    <3>1. sent[i] \in Messages
      BY <2>2
    <3>2. QED BY <3>1 DEF Messages
  <2>4. QED BY <2>1, <2>3
<1>5. OldestFirst'
  BY <1>1, <1>2, <1>4 DEF OldestFirst
<1>6. QED BY <1>3, <1>5 DEF SignalInv

(* What an event's handler leaves and what it takes.                       *)
LEMMA HandleTakes ==
  ASSUME SignalInv, NEW type, Handle(type)
  PROVE  /\ events # <<>> /\ Head(events).type = type /\ Head(events) \in Events
         /\ events' = Tail(events) /\ events' \in Seq(Events)
         /\ outbox = <<>> /\ conductor.failed = FALSE
         /\ UNCHANGED <<server, wired, asked>>
         /\ wired' \in BOOLEAN
         /\ served' = served \cup {Head(events)}
<1>1. events \in Seq(Events) /\ wired \in BOOLEAN /\ conductor.failed \in BOOLEAN
  BY DEF SignalInv, Typed, ConductorOK, Conductors
<1>2. /\ ~conductor.failed
      /\ events # <<>> /\ Head(events).type = type
      /\ events' = Tail(events) /\ served' = served \cup {Head(events)}
      /\ outbox = <<>> /\ UNCHANGED <<server, wired, asked>>
  BY DEF Handle, Alive
<1>3. wired' \in BOOLEAN
  BY <1>1, <1>2
<1>4. conductor.failed = FALSE
  BY <1>1, <1>2
<1>5. Head(events) \in Events /\ Tail(events) \in Seq(Events)
  BY <1>1, <1>2
<1>6. QED BY <1>2, <1>3, <1>4, <1>5

(* What a description or the candidates known are sent as.                 *)
LEMMA Queued ==
  ASSUME SignalInv
  PROVE  /\ conductor.made \in Nat /\ conductor.candidates \in Nat
         /\ LET known == [n \in 1 .. conductor.candidates |->
                            Candidate(conductor.connection, n)]
            IN  /\ known \in Seq(Messages)
                /\ \A i \in DOMAIN known : known[i].connection = conductor.made
         /\ conductor.described \/ conductor.offering =>
              /\ conductor.connection = conductor.made
              /\ Description(conductor.connection) \in Messages
              /\ Description(conductor.connection).connection = conductor.made
              /\ \A n \in Nat :
                   /\ Candidate(conductor.connection, n) \in Messages
                   /\ Candidate(conductor.connection, n).connection = conductor.made
<1> DEFINE k == conductor.connection
           known == [n \in 1 .. conductor.candidates |-> Candidate(k, n)]
<1>1. /\ k \in {None, conductor.made} /\ k \in Nat
      /\ conductor.made \in Nat /\ conductor.candidates \in Nat
      /\ k = None => conductor.candidates = 0
                     /\ ~conductor.described /\ ~conductor.offering
  BY DEF SignalInv, Typed, ConductorOK, Conductors
<1>2. Description(k) \in Messages /\ Description(k).connection = k
  BY <1>1 DEF Description, Messages
<1>3. ASSUME NEW n \in Nat
      PROVE  Candidate(k, n) \in Messages /\ Candidate(k, n).connection = k
  BY <1>1 DEF Candidate, Messages
<1> HIDE DEF k
<1>4. known \in Seq(Messages)
  BY <1>1, <1>3
<1>5. ASSUME NEW i \in DOMAIN known PROVE known[i].connection = conductor.made
  <2>1. i \in 1 .. conductor.candidates /\ known[i] = Candidate(k, i) /\ i \in Nat
    BY <1>1, <1>5
  <2>2. k = conductor.made
    BY <1>1, <2>1
  <2>3. QED BY <1>3, <2>1, <2>2
<1> HIDE DEF known
<1>6. ASSUME conductor.described \/ conductor.offering
      PROVE  k = conductor.made
  BY <1>1, <1>6
<1>7. QED BY <1>1, <1>2, <1>3, <1>4, <1>5, <1>6 DEF k, known

LEMMA HandlerStep ==
  ASSUME SignalInv, HandleEvent
  PROVE  SignalInv'
<1>1. ConductorOK(conductor) /\ iceSubs \in Nat /\ descSubs \in Nat
      /\ conductor.made \in Nat
  BY DEF SignalInv, Typed, ConductorOK, Conductors
<1>2. <<>> \in Seq(Messages) /\ DOMAIN <<>> = {}
  OBVIOUS
<1>3. CASE HandleClientConnected
  <2>1. Handle("clientConnected") /\ conductor' = Opened(conductor) /\ UNCHANGED handler
    BY <1>3 DEF HandleClientConnected
  <2>2. ConductorOK(conductor') /\ conductor'.made >= conductor.made
    BY <1>1, <2>1, OpenedOK
  <2>3. QED BY <1>1, <1>2, <2>1, <2>2, HandleTakes, WorkerKeeps DEF handler
<1>4. CASE HandleReset
  <2>1. Handle("reset") /\ conductor' = Opened(Closed(conductor)) /\ UNCHANGED handler
    BY <1>4 DEF HandleReset
  <2>2. ConductorOK(Closed(conductor)) /\ Closed(conductor).made = conductor.made
    BY <1>1, ClosedOK DEF Same
  <2>3. ConductorOK(conductor') /\ conductor'.made >= conductor.made
    BY <2>1, <2>2, OpenedOK
  <2>4. QED BY <1>1, <1>2, <2>1, <2>3, HandleTakes, WorkerKeeps DEF handler
<1>5. CASE HandleGetIceCandidates
  <2>1. /\ Handle("getIceCandidates") /\ conductor' = Used(conductor)
        /\ outbox' = [n \in 1 .. conductor.candidates |->
                        Candidate(conductor.connection, n)]
        /\ iceSubs' = iceSubs + 1 /\ descSubs' = descSubs
    BY <1>5 DEF HandleGetIceCandidates
  <2>2. ConductorOK(conductor') /\ conductor'.made = conductor.made
        /\ conductor'.made >= conductor.made
    BY <1>1, <2>1, UsedOK
  <2>3. outbox' \in Seq(Messages)
        /\ \A i \in DOMAIN outbox' : outbox'[i].connection = conductor'.made
    BY <2>1, <2>2, Queued
  <2>4. iceSubs' \in Nat /\ descSubs' \in Nat
    BY <1>1, <2>1
  <2>5. /\ UNCHANGED <<server, asked>> /\ wired' \in BOOLEAN
        /\ events' \in Seq(Events)
    BY <2>1, HandleTakes
  <2>6. QED BY <2>2, <2>3, <2>4, <2>5, WorkerKeeps
<1>6. CASE HandleGetSessionDescription
  <2>1. /\ Handle("getSessionDescription") /\ conductor' = Used(conductor)
        /\ outbox' = IF conductor.described
                     THEN <<Description(conductor.connection)>> ELSE <<>>
        /\ descSubs' = descSubs + 1 /\ iceSubs' = iceSubs
    BY <1>6 DEF HandleGetSessionDescription
  <2>2. ConductorOK(conductor') /\ conductor'.made = conductor.made
        /\ conductor'.made >= conductor.made
    BY <1>1, <2>1, UsedOK
  <2>3. outbox' \in Seq(Messages)
        /\ \A i \in DOMAIN outbox' : outbox'[i].connection = conductor'.made
    <3>1. CASE conductor.described
      BY <2>1, <2>2, <3>1, Queued
    <3>2. CASE ~conductor.described
      BY <1>2, <2>1, <3>2
    <3>3. QED BY <3>1, <3>2
  <2>4. iceSubs' \in Nat /\ descSubs' \in Nat
    BY <1>1, <2>1
  <2>5. /\ UNCHANGED <<server, asked>> /\ wired' \in BOOLEAN
        /\ events' \in Seq(Events)
    BY <2>1, HandleTakes
  <2>6. QED BY <2>2, <2>3, <2>4, <2>5, WorkerKeeps
<1>7. CASE HandleRemote
  <2>1. /\ Handle("remote") /\ conductor' \in {conductor, Used(conductor)}
        /\ UNCHANGED handler
    BY <1>7 DEF HandleRemote
  <2>2. ConductorOK(conductor') /\ conductor'.made = conductor.made
        /\ conductor'.made >= conductor.made
    BY <1>1, <2>1, UsedOK
  <2>3. QED BY <1>1, <1>2, <2>1, <2>2, HandleTakes, WorkerKeeps DEF handler
<1>8. QED BY <1>3, <1>4, <1>5, <1>6, <1>7 DEF HandleEvent

(* The library's callbacks, and the handler's creation.                    *)
LEMMA CallbackStep ==
  ASSUME SignalInv,
         OnSuccess \/ OnSuccessInVain \/ OnFailure \/ OnIceCandidate \/ MakeHandler
  PROVE  SignalInv'
<1>1. /\ ConductorOK(conductor) /\ iceSubs \in Nat /\ descSubs \in Nat
      /\ conductor.made \in Nat /\ conductor.candidates \in Nat
      /\ events \in Seq(Events) /\ wired \in BOOLEAN
      /\ conductor.made >= conductor.made
  <2>1. conductor.made \in Nat /\ conductor.candidates \in Nat
    BY Queued
  <2>2. QED BY <2>1 DEF SignalInv, Typed
<1>2. <<>> \in Seq(Messages) /\ DOMAIN <<>> = {}
  OBVIOUS
<1>3. ASSUME Callback
      PROVE  /\ UNCHANGED <<server, asked>> /\ wired' \in BOOLEAN
             /\ events' \in Seq(Events) /\ iceSubs' \in Nat /\ descSubs' \in Nat
             /\ outbox = <<>>
  <2>1. outbox = <<>> /\ UNCHANGED <<server, wired, events, iceSubs, descSubs, asked>>
    BY <1>3 DEF Callback
  <2>2. wired' \in BOOLEAN
    BY <1>1, <2>1
  <2>3. QED BY <1>1, <2>1, <2>2
<1>4. ASSUME Same(conductor, conductor')
      PROVE  conductor'.made = conductor.made /\ conductor'.made >= conductor.made
  BY <1>1, <1>4 DEF Same
<1>5. CASE OnSuccess
  <2>1. /\ Callback /\ conductor.offering /\ conductor' = Described(conductor)
        /\ outbox' = [i \in 1 .. descSubs |-> Description(conductor.connection)]
    BY <1>5 DEF OnSuccess
  <2>2. ConductorOK(conductor') /\ Same(conductor, conductor')
    BY <1>1, <2>1, CallbacksOK
  <2>3. outbox' \in Seq(Messages)
        /\ \A i \in DOMAIN outbox' : outbox'[i].connection = conductor'.made
    BY <1>1, <1>4, <2>1, <2>2, Queued
  <2>4. QED BY <1>3, <1>4, <2>1, <2>2, <2>3, WorkerKeeps
<1>6. CASE OnFailure
  <2>1. /\ Callback /\ conductor.offering /\ conductor' = OfferFailed(conductor)
        /\ outbox' = outbox
    BY <1>6 DEF OnFailure
  <2>2. ConductorOK(conductor') /\ Same(conductor, conductor')
    BY <1>1, <2>1, CallbacksOK
  <2>3. QED BY <1>2, <1>3, <1>4, <2>1, <2>2, WorkerKeeps
<1>7. CASE OnIceCandidate
  <2>1. /\ Callback /\ conductor.described /\ conductor.candidates < MaxCandidates
        /\ conductor' = Gathered(conductor)
        /\ outbox' = [i \in 1 .. iceSubs |->
                        Candidate(conductor.connection, conductor.candidates + 1)]
    BY <1>7 DEF OnIceCandidate
  <2>2. ConductorOK(conductor') /\ Same(conductor, conductor')
    BY <1>1, <2>1, CallbacksOK
  <2>3. conductor.candidates + 1 \in Nat
    BY <1>1
  <2>4. outbox' \in Seq(Messages)
        /\ \A i \in DOMAIN outbox' : outbox'[i].connection = conductor'.made
    BY <1>1, <1>4, <2>1, <2>2, <2>3, Queued
  <2>5. QED BY <1>3, <1>4, <2>1, <2>2, <2>4, WorkerKeeps
<1>8. CASE MakeHandler
  <2>1. wired' = TRUE /\ UNCHANGED <<server, events, conductor, handler, asked, served>>
    BY <1>8 DEF MakeHandler
  <2>2. wired' \in BOOLEAN
    BY <2>1
  <2>3. outbox' \in Seq(Messages)
        /\ \A i \in DOMAIN outbox' : outbox'[i].connection = conductor'.made
    BY <2>1 DEF SignalInv, Typed, OldestFirst, handler
  <2>4. QED BY <1>1, <2>1, <2>2, <2>3, WorkerKeeps DEF handler
<1>9. CASE OnSuccessInVain
  <2>1. /\ Callback /\ conductor.offering /\ conductor' = DescribedInVain(conductor)
        /\ outbox' = [i \in 1 .. descSubs |-> Description(conductor.connection)]
    BY <1>9 DEF OnSuccessInVain
  <2>2. ConductorOK(conductor') /\ Same(conductor, conductor')
    BY <1>1, <2>1, CallbacksOK
  <2>3. outbox' \in Seq(Messages)
        /\ \A i \in DOMAIN outbox' : outbox'[i].connection = conductor'.made
    BY <1>1, <1>4, <2>1, <2>2, Queued
  <2>4. QED BY <1>3, <1>4, <2>1, <2>2, <2>3, WorkerKeeps
<1>10. QED BY <1>5, <1>6, <1>7, <1>8, <1>9

(* The next message is sent: it is at least as new as all before it.       *)
LEMMA SendingStep ==
  ASSUME SignalInv, SendNext
  PROVE  SignalInv'
<1> DEFINE m == Head(outbox)
<1>1. /\ outbox # <<>> /\ Server!SendMessage(m) /\ outbox' = Tail(outbox)
      /\ UNCHANGED <<wired, events, conductor, iceSubs, descSubs, asked, served>>
  BY DEF SendNext
<1>2. Typed /\ OldestFirst /\ outbox \in Seq(Messages) /\ sent \in Seq(Messages)
  BY ServerGives DEF SignalInv, Typed
<1>3. m \in Messages /\ m.connection = conductor.made /\ outbox' \in Seq(Messages)
      /\ \A i \in DOMAIN outbox' : i + 1 \in DOMAIN outbox /\ outbox'[i] = outbox[i + 1]
  BY <1>1, <1>2 DEF OldestFirst
<1>4. sent' = Append(sent, m)
  BY <1>1 DEF Server!SendMessage
<1> HIDE DEF m
<1>5. ServerInv'
  BY <1>1, <1>2, <1>3, ServerKeeps DEF Typed
<1>6. wired' \in BOOLEAN
  BY <1>1, <1>2 DEF Typed
<1>7. Typed'
  BY <1>1, <1>2, <1>3, <1>5, <1>6 DEF Typed
<1>8. /\ DOMAIN sent' = DOMAIN sent \cup {Len(sent) + 1} /\ Len(sent) \in Nat
      /\ \A i \in DOMAIN sent : sent'[i] = sent[i] /\ i \in 1 .. Len(sent)
      /\ sent'[Len(sent) + 1] = m
  BY <1>2, <1>3, <1>4
<1>9. conductor.made \in Nat
  BY <1>2 DEF Typed, ConductorOK, Conductors
<1>10. \A i \in DOMAIN sent' : sent'[i].connection <= conductor'.made
  BY <1>1, <1>2, <1>3, <1>8, <1>9 DEF OldestFirst
<1>11. ASSUME NEW i \in DOMAIN sent', NEW j \in DOMAIN sent', i <= j
       PROVE  sent'[i].connection <= sent'[j].connection
  <2>1. CASE j = Len(sent) + 1
    BY <1>1, <1>3, <1>8, <1>10, <2>1
  <2>2. CASE j \in DOMAIN sent
    <3>1. i \in DOMAIN sent
      BY <1>8, <1>11, <2>2
    <3>2. QED BY <1>2, <1>8, <1>11, <2>2, <3>1 DEF OldestFirst
  <2>3. QED BY <1>8, <2>1, <2>2
<1>12. \A i \in DOMAIN outbox' : outbox'[i].connection = conductor'.made
  BY <1>1, <1>2, <1>3 DEF OldestFirst
<1>13. QED BY <1>7, <1>10, <1>11, <1>12 DEF SignalInv, OldestFirst

LEMMA SignalStep == SignalInv /\ [Next]_vars => SignalInv'
<1> SUFFICES ASSUME SignalInv, [Next]_vars PROVE SignalInv'
  OBVIOUS
<1>1. CASE UNCHANGED vars
  <2>1. Typed /\ OldestFirst /\ UNCHANGED server
        /\ UNCHANGED <<wired, events, conductor, handler, asked>>
    BY <1>1 DEF vars, SignalInv
  <2>2. ServerInv' /\ sent' = sent
    BY <2>1, ServerKeeps DEF Typed, server
  <2>3. QED BY <2>1, <2>2 DEF SignalInv, Typed, OldestFirst, handler
<1>2. CASE Next
  BY <1>2, MainThreadStep, HandlerStep, CallbackStep, SendingStep DEF Next
<1>3. QED BY <1>1, <1>2

(* The inductive invariant of the composition: what the subscriptions, the *)
(* queue of events and the peer connection have to do with each other.     *)
THEOREM SignalInvariant == Spec => []SignalInv
BY SignalStart, SignalStep, PTL DEF Spec

(* The variables of the server, the handler and the conductor keep their   *)
(* types; the conductor has the latest connection made or none.            *)
THEOREM SignallingTypeCorrect == Spec => []TypeOK
<1>1. SignalInv => TypeOK
  <2> SUFFICES ASSUME SignalInv PROVE TypeOK
    OBVIOUS
  <2>1. Typed /\ Server!TypeOK
    BY ServerGives DEF SignalInv, Typed
  <2>2. conductor \in [connection : {None, conductor.made}, made : Nat, stream : BOOLEAN,
                       offering : BOOLEAN, described : BOOLEAN,
                       candidates : 0 .. MaxCandidates, failed : BOOLEAN]
    BY <2>1 DEF Typed, ConductorOK, Conductors
  <2>3. QED BY <2>1, <2>2 DEF TypeOK, Typed, Events
<1>2. QED BY <1>1, SignalInvariant, PTL

(* No client gets anything of an older peer connection after something of  *)
(* a newer one.                                                            *)
THEOREM NewerNeverBeforeOlder == Spec => []GenerationsInOrder
<1>1. SignalInv => GenerationsInOrder
  <2> SUFFICES ASSUME SignalInv, NEW c \in Clients,
                      NEW i \in DOMAIN received[c], NEW j \in DOMAIN received[c], i <= j
               PROVE  Got(c)[i].connection <= Got(c)[j].connection
    BY DEF GenerationsInOrder
  <2>1. /\ received[c][i] \in DOMAIN sent /\ received[c][j] \in DOMAIN sent
        /\ i < j => received[c][i] < received[c][j]
        /\ sent \in Seq(Messages) /\ received[c] \in Seq(Nat \ {0})
    BY ServerGives DEF SignalInv, Typed, Server!TypeOK
  <2>2. received[c][i] <= received[c][j]
    <3>1. \A s \in Seq(Nat \ {0}) : \A k \in DOMAIN s : k \in Nat /\ s[k] \in Nat
      OBVIOUS
    <3>2. /\ i \in Nat /\ received[c][i] \in Nat
          /\ j \in Nat /\ received[c][j] \in Nat
      BY <2>1, <3>1, Zenon
    <3>3. \A k, l, a, b \in Nat : k <= l /\ (k < l => a < b) => k = l \/ a <= b
      OBVIOUS
    <3>4. i = j \/ received[c][i] <= received[c][j]
      BY <2>1, <3>2, <3>3, Zenon
    <3>5. QED BY <3>2, <3>4
  <2>3. Got(c)[i] = sent[received[c][i]] /\ Got(c)[j] = sent[received[c][j]]
    BY DEF Got
  <2>4. QED BY <2>1, <2>2, <2>3 DEF SignalInv, OldestFirst
<1>2. QED BY <1>1, SignalInvariant, PTL

--------------------------------------------------------------------------------
(* There is a connection before anything asks for it                       *)

(* Until the first clientConnected is handled it is the first event there  *)
(* is, and until a client connects there is no event at all.               *)
ConnectsFirst ==
  /\ conductor.failed = FALSE
  /\ ~wired => events = <<>> /\ \A c \in Clients : link[c] = "new"
  /\ conductor.connection = None =>
       \/ events = <<>> /\ \A c \in Clients : link[c] = "new"
       \/ events # <<>> /\ Head(events).type = "clientConnected"

(* With an open connection the queue may hold anything.                    *)
LEMMA ConnectedIsEnough ==
  ASSUME SignalInv, ConnectsFirst, conductor'.connection # None,
         conductor'.failed = FALSE, UNCHANGED <<wired, link>>,
         conductor.connection # None \/ events # <<>>,
         events' = events \/ events # <<>>
  PROVE  ConnectsFirst'
<1>1. wired \in BOOLEAN /\ (conductor.connection # None /\ ~wired => events = <<>>)
  BY DEF SignalInv, Typed, ConnectsFirst
<1>2. ~wired' => events' = <<>> /\ \A c \in Clients : link'[c] = "new"
  BY <1>1 DEF ConnectsFirst
<1>3. QED BY <1>2 DEF ConnectsFirst

LEMMA ConnectsFirstStep ==
  ASSUME SignalInv, ConnectsFirst, [Next]_vars, WiredFirst
  PROVE  ConnectsFirst'
<1>1. /\ ConductorOK(conductor) /\ events \in Seq(Events) /\ conductor.failed = FALSE
      /\ link \in [Clients -> {"new", "open", "left", "deleted"}]
  BY ServerGives DEF SignalInv, Typed, ConnectsFirst
<1>2. ASSUME NEW c \in Clients, Connect(c) PROVE ConnectsFirst'
  <2>1. /\ wired /\ Emit([type |-> "clientConnected", from |-> c])
        /\ UNCHANGED <<wired, conductor>>
    BY <1>2 DEF Connect
  <2>2. events' = Append(events, [type |-> "clientConnected", from |-> c])
    BY <2>1 DEF Emit
  <2>3. events' # <<>> /\ (events = <<>> => Head(events').type = "clientConnected")
        /\ (events # <<>> => Head(events') = Head(events))
    BY <1>1, <2>2
  <2>4. QED BY <2>1, <2>3 DEF ConnectsFirst
<1>3. ASSUME NEW c \in Clients, Disconnect(c) PROVE ConnectsFirst'
  <2>1. UNCHANGED <<wired, events, conductor>> /\ link[c] # "new"
    BY <1>3 DEF Disconnect, Server!ClientLeaves, Server!SocketDisconnected
  <2>2. QED BY <2>1 DEF ConnectsFirst
<1>4. ASSUME NEW c \in Clients, NEW type \in Requests, ClientSends(c, type)
      PROVE  ConnectsFirst'
  <2>1. /\ link[c] # "new" /\ Emit([type |-> type, from |-> c])
        /\ UNCHANGED <<link, wired, conductor>>
    BY <1>4 DEF ClientSends, Server!LetThrough, server
  <2>2. wired /\ events' = Append(events, [type |-> type, from |-> c])
    BY <2>1 DEF ConnectsFirst, Emit
  <2>3. events # <<>> => events' # <<>> /\ Head(events') = Head(events)
    BY <1>1, <2>2
  <2>4. QED BY <2>1, <2>2, <2>3 DEF ConnectsFirst
<1>5. CASE MakeHandler
  BY <1>5 DEF MakeHandler, ConnectsFirst, server
<1>6. CASE HandleEvent
  <2>1. PICK type \in Requests \cup {"clientConnected"} : Handle(type)
    BY <1>6 DEF HandleEvent, HandleClientConnected, HandleReset, HandleGetIceCandidates,
                HandleGetSessionDescription, HandleRemote, Requests
  <2>2. /\ events # <<>> /\ Head(events).type = type /\ events' = Tail(events)
        /\ UNCHANGED <<wired, link>>
    BY <2>1, HandleTakes DEF server
  <2>3. type # "clientConnected" => conductor.connection # None
    BY <2>2 DEF ConnectsFirst
  <2>4. conductor'.connection # None /\ conductor'.failed = FALSE
    <3>1. CASE HandleClientConnected
      BY <1>1, <3>1, OpenedOK DEF HandleClientConnected
    <3>2. CASE HandleReset
      <4>1. ConductorOK(Closed(conductor)) /\ Closed(conductor).failed = FALSE
        BY <1>1, ClosedOK DEF Same
      <4>2. QED BY <3>2, <4>1, OpenedOK DEF HandleReset
    <3>3. CASE HandleGetIceCandidates \/ HandleGetSessionDescription \/ HandleRemote
      <4>1. conductor.connection # None
        BY <2>2, <3>3 DEF HandleGetIceCandidates, HandleGetSessionDescription,
                          HandleRemote, Handle, ConnectsFirst
      <4>2. Used(conductor) = conductor
        BY <1>1, <4>1, UsedOK
      <4>3. conductor' = conductor
        BY <3>3, <4>2 DEF HandleGetIceCandidates, HandleGetSessionDescription,
                          HandleRemote
      <4>4. QED BY <1>1, <4>1, <4>3
    <3>4. QED BY <1>6, <3>1, <3>2, <3>3 DEF HandleEvent
  <2>5. QED BY <2>2, <2>4, ConnectedIsEnough
<1>7. CASE OnSuccess \/ OnSuccessInVain \/ OnFailure \/ OnIceCandidate
  <2>1. /\ UNCHANGED <<wired, events, link>> /\ conductor.connection # None
    BY <1>1, <1>7 DEF OnSuccess, OnSuccessInVain, OnFailure, OnIceCandidate, Callback, server, ConductorOK
  <2>2. Used(conductor) = conductor
    BY <1>1, <2>1, UsedOK
  <2>3. conductor'.connection = conductor.connection
        /\ conductor'.failed = conductor.failed
    <3>1. conductor \in Conductors
      BY <1>1 DEF ConductorOK
    <3>2. \/ conductor' = [conductor EXCEPT !.offering = FALSE, !.described = TRUE]
          \/ conductor' = [conductor EXCEPT !.offering = FALSE]
          \/ conductor' = [conductor EXCEPT !.candidates = @ + 1]
      BY <1>7, <2>2 DEF OnSuccess, OnSuccessInVain, OnFailure, OnIceCandidate, Described,
                        DescribedInVain, OfferFailed, Gathered
    <3>3. QED BY <3>1, <3>2 DEF Conductors
  <2>4. QED BY <1>1, <2>1, <2>3, ConnectedIsEnough
<1>8. CASE SendNext
  BY <1>8 DEF SendNext, Server!SendMessage, ConnectsFirst
<1>9. CASE UNCHANGED vars
  BY <1>9 DEF vars, server, ConnectsFirst
<1>10. QED BY <1>2, <1>3, <1>4, <1>5, <1>6, <1>7, <1>8, <1>9 DEF Next

(* With the handler there before the clients, nothing is ever called on a  *)
(* missing peer connection.                                                *)
THEOREM NeverWithoutConnection == WiredFirst /\ Spec => []ConnectionIsThere
<1>1. Init => ConnectsFirst
  BY DEF Init, Start, Server!Init, ConnectsFirst, None
<1>2. ConnectsFirst => ConnectionIsThere
  BY DEF ConnectsFirst, ConnectionIsThere, Alive
<1>3. SUFFICES ASSUME WiredFirst PROVE Spec => []ConnectionIsThere
  OBVIOUS
<1>4. SignalInv /\ ConnectsFirst /\ [Next]_vars => ConnectsFirst'
  BY <1>3, ConnectsFirstStep
<1>5. QED BY <1>1, <1>2, <1>4, SignalInvariant, PTL DEF Spec

--------------------------------------------------------------------------------
(* Nothing is missed between reading and subscribing                       *)

(* What has been asked was asked by clients that had connected, and what   *)
(* has been handled has subscribed.                                        *)
AskedByConnected ==
  /\ served \subseteq Events
  /\ \A e \in served : link[e.from] # "new"
  /\ \A i \in DOMAIN events : link[events[i].from] # "new"
  /\ \A e \in served : /\ e.type = "getSessionDescription" => descSubs > 0
                       /\ e.type = "getIceCandidates" => iceSubs > 0

(* Message m is of the current connection, and client c has asked for it.  *)
Due(c, m) ==
  \/ /\ m = Description(conductor.connection) /\ conductor.described
     /\ Served(c, "getSessionDescription")
  \/ /\ \E n \in 1 .. conductor.candidates : m = Candidate(conductor.connection, n)
     /\ Served(c, "getIceCandidates")

InOutbox(m) == \E i \in DOMAIN outbox : outbox[i] = m

(* Client c has it or is about to be sent it.                              *)
DueIsSent ==
  \A c \in Clients, m \in Messages : Due(c, m) => Has(c, m) \/ InOutbox(m)

LEMMA AskedStep ==
  ASSUME SignalInv, AskedByConnected, [Next]_vars
  PROVE  AskedByConnected'
<1>1. /\ events \in Seq(Events) /\ descSubs \in Nat /\ iceSubs \in Nat
      /\ link \in [Clients -> {"new", "open", "left", "deleted"}]
      /\ \A e \in Events : e.from \in Clients
      /\ socket \in Clients \cup {NoClient}
  BY ServerGives DEF SignalInv, Typed, Events, Server!TypeOK
<1> DEFINE Kept == \A c \in Clients : link[c] # "new" => link'[c] # "new"
<1>2. ASSUME NEW c \in Clients, NEW type,
             [type |-> type, from |-> c] \in Events,
             Emit([type |-> type, from |-> c]), Kept, link'[c] # "new",
             UNCHANGED <<served, descSubs, iceSubs>>
      PROVE  AskedByConnected'
  <2>1. /\ events' \in Seq(Events)
        /\ \A i \in DOMAIN events' :
             events'[i] = [type |-> type, from |-> c]
               \/ (i \in DOMAIN events /\ events'[i] = events[i])
    BY <1>1, <1>2 DEF Emit
  <2>2. ASSUME NEW i \in DOMAIN events' PROVE link'[events'[i].from] # "new"
    <3>1. CASE events'[i] = [type |-> type, from |-> c]
      BY <1>2, <3>1
    <3>2. CASE i \in DOMAIN events /\ events'[i] = events[i]
      <4>1. events[i].from \in Clients /\ link[events[i].from] # "new"
        BY <1>1, <3>2 DEF AskedByConnected
      <4>2. QED BY <1>2, <3>2, <4>1
    <3>3. QED BY <2>1, <3>1, <3>2
  <2>3. \A e \in served' : link'[e.from] # "new"
    BY <1>1, <1>2 DEF AskedByConnected
  <2>4. QED BY <1>2, <2>2, <2>3 DEF AskedByConnected
<1>3. ASSUME Kept, UNCHANGED <<served, events>>, descSubs' >= descSubs,
             iceSubs' >= iceSubs, descSubs' \in Nat, iceSubs' \in Nat
      PROVE  AskedByConnected'
  <2>1. ASSUME NEW i \in DOMAIN events PROVE link'[events[i].from] # "new"
    <3>1. events[i].from \in Clients /\ link[events[i].from] # "new"
      BY <1>1 DEF AskedByConnected
    <3>2. QED BY <1>3, <3>1
  <2>2. QED BY <1>1, <1>3, <2>1 DEF AskedByConnected
<1>4. ASSUME NEW c \in Clients, Connect(c) PROVE AskedByConnected'
  <2>1. /\ Emit([type |-> "clientConnected", from |-> c])
        /\ UNCHANGED <<served, descSubs, iceSubs>>
        /\ link' = [d \in Clients |-> IF d = c THEN "open"
                                      ELSE IF d = socket THEN "deleted" ELSE link[d]]
    BY <1>4 DEF Connect, handler, Server!OnNewConnection
  <2>2. Kept /\ link'[c] # "new"
    BY <2>1
  <2>3. [type |-> "clientConnected", from |-> c] \in Events
    BY DEF Events
  <2>4. QED BY <1>2, <2>1, <2>2, <2>3
<1>5. ASSUME NEW c \in Clients, Disconnect(c) PROVE AskedByConnected'
  <2>1. /\ UNCHANGED <<served, events, descSubs, iceSubs>>
        /\ \/ link' = [link EXCEPT ![c] = "left"]
           \/ link' = [link EXCEPT ![c] = "deleted"]
    BY <1>5 DEF Disconnect, handler, Server!ClientLeaves, Server!SocketDisconnected
  <2>2. Kept
    BY <1>1, <2>1
  <2>3. QED BY <1>1, <1>3, <2>1, <2>2
<1>6. ASSUME NEW c \in Clients, NEW type \in Requests, ClientSends(c, type)
      PROVE  AskedByConnected'
  <2>1. /\ Emit([type |-> type, from |-> c]) /\ link[c] # "new"
        /\ UNCHANGED <<link, served, descSubs, iceSubs>>
    BY <1>6 DEF ClientSends, Server!LetThrough, server, handler
  <2>2. [type |-> type, from |-> c] \in Events
    BY DEF Events
  <2>3. QED BY <1>2, <2>1, <2>2
<1>7. CASE HandleEvent
  <2>1. PICK type \in Requests \cup {"clientConnected"} : Handle(type)
    BY <1>7 DEF HandleEvent, HandleClientConnected, HandleReset, HandleGetIceCandidates,
                HandleGetSessionDescription, HandleRemote, Requests
  <2>2. /\ events # <<>> /\ Head(events).type = type /\ Head(events) \in Events
        /\ events' = Tail(events) /\ served' = served \cup {Head(events)}
        /\ UNCHANGED link
    BY <2>1, HandleTakes DEF server
  <2>3. /\ descSubs' >= descSubs /\ iceSubs' >= iceSubs
        /\ descSubs' \in Nat /\ iceSubs' \in Nat
        /\ type = "getSessionDescription" => descSubs' > 0
        /\ type = "getIceCandidates" => iceSubs' > 0
    BY <1>1, <1>7, <2>2
    DEF HandleEvent, HandleClientConnected, HandleReset, HandleGetIceCandidates,
        HandleGetSessionDescription, HandleRemote, Handle, handler
  <2>4. link[Head(events).from] # "new"
    BY <1>1, <2>2 DEF AskedByConnected
  <2>5. ASSUME NEW i \in DOMAIN events' PROVE link'[events'[i].from] # "new"
    BY <1>1, <2>2 DEF AskedByConnected
  <2>6. ASSUME NEW e \in served'
        PROVE  /\ e \in Events /\ link'[e.from] # "new"
               /\ e.type = "getSessionDescription" => descSubs' > 0
               /\ e.type = "getIceCandidates" => iceSubs' > 0
    BY <1>1, <2>2, <2>3, <2>4 DEF AskedByConnected
  <2>7. QED BY <2>5, <2>6 DEF AskedByConnected
<1>8. CASE MakeHandler \/ OnSuccess \/ OnSuccessInVain \/ OnFailure \/ OnIceCandidate
           \/ SendNext \/ UNCHANGED vars
  <2>1. UNCHANGED <<link, served, events, descSubs, iceSubs>>
    BY <1>8 DEF MakeHandler, OnSuccess, OnSuccessInVain, OnFailure, OnIceCandidate, SendNext,
                vars,
                Callback, server, handler, Server!SendMessage
  <2>2. QED BY <1>1, <1>3, <2>1
<1>9. QED BY <1>4, <1>5, <1>6, <1>7, <1>8 DEF Next

(* What a client has, it keeps.                                            *)
LEMMA HasKept ==
  ASSUME SignalInv, NEW c \in Clients, NEW m, Has(c, m),
         \/ UNCHANGED <<sent, received>>
         \/ \E d \in Clients : Server!OnNewConnection(d)
         \/ \E n \in Messages : Server!SendMessage(n)
  PROVE  Has(c, m)'
<1>1. /\ sent \in Seq(Messages) /\ received \in [Clients -> Seq(Nat \ {0})]
      /\ pending \in Seq(Nat \ {0})
      /\ \A i \in DOMAIN received[c] : received[c][i] \in DOMAIN sent
  BY ServerGives DEF SignalInv, Typed, Server!TypeOK
<1>2. PICK i \in DOMAIN received[c] : Got(c)[i] = m
  BY DEF Has
<1>3. sent[received[c][i]] = m /\ received[c][i] \in DOMAIN sent
  BY <1>1, <1>2 DEF Got
<1>4. i \in DOMAIN received'[c] /\ received'[c][i] = received[c][i]
  <2>1. CASE UNCHANGED received
    BY <2>1
  <2>2. ASSUME NEW d \in Clients, NEW ns \in Seq(Nat \ {0}),
               received' = [received EXCEPT ![d] = @ \o ns]
        PROVE  i \in DOMAIN received'[c] /\ received'[c][i] = received[c][i]
    BY <1>1, <2>2
  <2>3. ASSUME NEW d \in Clients, NEW n \in Nat \ {0},
               received' = [received EXCEPT ![d] = Append(@, n)]
        PROVE  i \in DOMAIN received'[c] /\ received'[c][i] = received[c][i]
    BY <1>1, <2>3
  <2>4. CASE \E d \in Clients : Server!OnNewConnection(d)
    BY <1>1, <2>2, <2>4 DEF Server!OnNewConnection, Server!Flushed
  <2>5. CASE \E n \in Messages : Server!SendMessage(n)
    <3>1. Len(sent) + 1 \in Nat \ {0} /\ socket \in Clients \cup {NoClient}
      BY <1>1, ServerGives DEF SignalInv, Typed, Server!TypeOK
    <3>2. QED BY <2>1, <2>3, <2>5, <3>1 DEF Server!SendMessage
  <2>6. QED BY <2>1, <2>4, <2>5
<1>5. received[c][i] \in DOMAIN sent' /\ sent'[received[c][i]] = sent[received[c][i]]
  <2>1. sent' = sent \/ \E n \in Messages : sent' = Append(sent, n)
    BY DEF Server!OnNewConnection, Server!SendMessage
  <2>2. PICK k : k = received[c][i]
    OBVIOUS
  <2>3. k \in DOMAIN sent /\ sent[k] = m
    BY <1>3, <2>2
  <2>4. k \in DOMAIN sent' /\ sent'[k] = sent[k]
    <3>1. ASSUME NEW n \in Messages, sent' = Append(sent, n)
          PROVE  k \in DOMAIN sent' /\ sent'[k] = sent[k]
      <4>1. sent \in Seq(Messages) /\ k \in 1 .. Len(sent)
        BY <1>1, <2>3
      <4>2. QED BY <3>1, <4>1
    <3>2. QED BY <2>1, <2>3, <3>1
  <2>5. QED BY <2>2, <2>4
<1>6. QED BY <1>3, <1>4, <1>5 DEF Has, Got

(* Nothing new is due, and the outbox is as it was.                        *)
LEMMA NothingNewDue ==
  ASSUME SignalInv, DueIsSent, UNCHANGED outbox,
         \/ UNCHANGED <<sent, received>>
         \/ \E d \in Clients : Server!OnNewConnection(d),
         \A c \in Clients, m \in Messages : Due(c, m)' => Due(c, m)
  PROVE  DueIsSent'
<1>1. ASSUME NEW c \in Clients, NEW m \in Messages, Due(c, m)'
      PROVE  Has(c, m)' \/ InOutbox(m)'
  <2>1. Has(c, m) \/ InOutbox(m)
    BY <1>1 DEF DueIsSent
  <2>2. InOutbox(m) => InOutbox(m)'
    BY DEF InOutbox
  <2>3. QED BY <2>1, <2>2, HasKept
<1>2. QED BY <1>1 DEF DueIsSent

(* Steps of the main thread make nothing due: a client that has just       *)
(* connected has asked for nothing.                                        *)
LEMMA MainThreadOwesNothing ==
  ASSUME SignalInv, AskedByConnected, DueIsSent, NEW d \in Clients,
         \/ Connect(d) \/ Disconnect(d) \/ \E type \in Requests : ClientSends(d, type)
  PROVE  DueIsSent'
<1>1. /\ UNCHANGED <<conductor, served, outbox>>
      /\ \/ UNCHANGED <<sent, received>>
         \/ \E c \in Clients : Server!OnNewConnection(c)
  BY DEF Connect, Disconnect, ClientSends, handler, server, Server!ClientLeaves,
         Server!SocketDisconnected
<1>2. /\ link \in [Clients -> {"new", "open", "left", "deleted"}]
      /\ socket \in Clients \cup {NoClient}
  BY ServerGives DEF SignalInv, Typed, Server!TypeOK
<1>3. ASSUME NEW c \in Clients, NEW type, Served(c, type)' PROVE Served(c, type)
  <2>1. socket' = c /\ link'[c] = "open" /\ [type |-> type, from |-> c] \in served
    BY <1>1, <1>3 DEF Served
  <2>2. link[c] # "new"
    BY <2>1 DEF AskedByConnected
  <2>3. CASE Connect(d)
    BY <2>1, <2>2, <2>3 DEF Connect, Server!OnNewConnection
  <2>4. CASE Disconnect(d)
    BY <1>2, <2>1, <2>4, SignallingAssumption
    DEF Disconnect, Server!ClientLeaves, Server!SocketDisconnected, Served
  <2>5. CASE \E type1 \in Requests : ClientSends(d, type1)
    BY <2>1, <2>5 DEF ClientSends, server, Served
  <2>6. QED BY <2>3, <2>4, <2>5
<1>4. ASSUME NEW c \in Clients, NEW m \in Messages, Due(c, m)' PROVE Due(c, m)
  BY <1>1, <1>3, <1>4 DEF Due
<1>5. QED BY <1>1, <1>4, NothingNewDue

(* What a handler makes due it sends.                                      *)
LEMMA HandlerSendsDue ==
  ASSUME SignalInv, AskedByConnected, DueIsSent, HandleEvent
  PROVE  DueIsSent'
<1>1. ConductorOK(conductor)
  BY DEF SignalInv, Typed
<1>2. ASSUME NEW type, Handle(type)
      PROVE  /\ outbox = <<>> /\ UNCHANGED <<server, socket, link, sent, received>>
             /\ \A c \in Clients, t \in Requests : t # type /\ Served(c, t)' => Served(c, t)
  <2>1. /\ outbox = <<>> /\ UNCHANGED <<server, socket, link, sent, received>>
        /\ Head(events).type = type /\ served' = served \cup {Head(events)}
    BY <1>2, HandleTakes DEF server
  <2>2. ASSUME NEW c \in Clients, NEW t \in Requests, t # type, Served(c, t)'
        PROVE  Served(c, t)
    BY <2>1, <2>2 DEF Served
  <2>3. QED BY <2>1, <2>2
<1>3. ASSUME NEW c \in Clients, NEW m \in Messages, Due(c, m), outbox = <<>>,
             UNCHANGED <<sent, received>>
      PROVE  Has(c, m)'
  <2>1. Has(c, m)
    BY <1>3 DEF DueIsSent, InOutbox
  <2>2. QED BY <1>3, <2>1, HasKept
<1>4. ASSUME ~conductor'.described, conductor'.candidates = 0
      PROVE  DueIsSent'
  BY <1>4 DEF DueIsSent, Due
<1>5. CASE HandleClientConnected
  <2>1. Handle("clientConnected") /\ conductor' = Opened(conductor)
    BY <1>5 DEF HandleClientConnected
  <2>2. CASE conductor.connection = None
    <3>1. conductor \in Conductors /\ ~conductor.described /\ conductor.candidates = 0
      BY <1>1, <2>2 DEF ConductorOK
    <3>2. conductor'.described = conductor.described
          /\ conductor'.candidates = conductor.candidates
      BY <2>1, <3>1 DEF Opened, Conductors
    <3>3. QED BY <1>4, <3>1, <3>2
  <2>3. CASE conductor.connection # None
    <3>1. conductor' = conductor
      BY <2>1, <2>3 DEF Opened
    <3>2. ASSUME NEW c \in Clients, NEW m \in Messages, Due(c, m)' PROVE Has(c, m)'
      <4>1. Due(c, m)
        BY <1>2, <2>1, <3>1, <3>2 DEF Due, Requests
      <4>2. QED BY <1>2, <1>3, <2>1, <4>1
    <3>3. QED BY <3>2 DEF DueIsSent
  <2>4. QED BY <2>2, <2>3
<1>6. CASE HandleReset
  <2>1. conductor' = Opened(Closed(conductor))
    BY <1>6 DEF HandleReset
  <2>2. Closed(conductor) \in Conductors /\ ~Closed(conductor).described
        /\ Closed(conductor).candidates = 0
    BY <1>1, ClosedOK DEF ConductorOK
  <2>3. conductor'.described = Closed(conductor).described
        /\ conductor'.candidates = Closed(conductor).candidates
    BY <2>1, <2>2 DEF Opened, Conductors
  <2>4. QED BY <1>4, <2>2, <2>3
<1>7. ASSUME NEW type, Handle(type),
             conductor' = conductor \/ conductor' = Used(conductor)
      PROVE  /\ conductor'.connection = conductor.connection
             /\ conductor'.described = conductor.described
             /\ conductor'.candidates = conductor.candidates
             /\ \A c \in Clients, m \in Messages :
                  (/\ m = Description(conductor.connection) /\ conductor.described
                   /\ type # "getSessionDescription"
                   /\ Served(c, "getSessionDescription")') => Has(c, m)'
             /\ \A c \in Clients, m \in Messages :
                  (/\ \E n \in 1 .. conductor.candidates :
                        m = Candidate(conductor.connection, n)
                   /\ type # "getIceCandidates"
                   /\ Served(c, "getIceCandidates")') => Has(c, m)'
  <2>1. conductor \in Conductors
    BY <1>1 DEF ConductorOK
  <2>2. /\ conductor'.connection = conductor.connection
        /\ conductor'.described = conductor.described
        /\ conductor'.candidates = conductor.candidates
    BY <1>7, <2>1 DEF Used, Conductors
  <2>3. ASSUME NEW c \in Clients, NEW m \in Messages, Due(c, m) PROVE Has(c, m)'
    BY <1>2, <1>3, <1>7, <2>3
  <2>4. ASSUME NEW c \in Clients, NEW m \in Messages,
               m = Description(conductor.connection), conductor.described,
               type # "getSessionDescription", Served(c, "getSessionDescription")'
        PROVE  Has(c, m)'
    BY <1>2, <1>7, <2>3, <2>4 DEF Due, Requests
  <2>5. ASSUME NEW c \in Clients, NEW m \in Messages,
               \E n \in 1 .. conductor.candidates : m = Candidate(conductor.connection, n),
               type # "getIceCandidates", Served(c, "getIceCandidates")'
        PROVE  Has(c, m)'
    BY <1>2, <1>7, <2>3, <2>5 DEF Due, Requests
  <2>6. QED BY <2>2, <2>4, <2>5
<1>8. CASE HandleGetIceCandidates
  <2>1. /\ Handle("getIceCandidates") /\ conductor' = Used(conductor)
        /\ outbox' = [n \in 1 .. conductor.candidates |->
                        Candidate(conductor.connection, n)]
    BY <1>8 DEF HandleGetIceCandidates
  <2>2. ASSUME NEW c \in Clients, NEW m \in Messages, Due(c, m)'
        PROVE  Has(c, m)' \/ InOutbox(m)'
    <3>1. CASE \E n \in 1 .. conductor.candidates : m = Candidate(conductor.connection, n)
      BY <2>1, <3>1 DEF InOutbox
    <3>2. CASE m = Description(conductor.connection) /\ conductor.described
               /\ Served(c, "getSessionDescription")'
      <4>1. ASSUME NEW type, type = "getIceCandidates"
            PROVE  Handle(type) /\ type # "getSessionDescription"
        BY <2>1, <4>1
      <4>2. Has(c, m)'
        BY <1>7, <2>1, <3>2, <4>1
      <4>3. QED BY <4>2
    <3>3. QED BY <1>7, <2>1, <2>2, <3>1, <3>2 DEF Due
  <2>3. QED BY <2>2 DEF DueIsSent
<1>9. CASE HandleGetSessionDescription
  <2>1. /\ Handle("getSessionDescription") /\ conductor' = Used(conductor)
        /\ conductor.described => outbox' = <<Description(conductor.connection)>>
    BY <1>9 DEF HandleGetSessionDescription
  <2>2. ASSUME NEW c \in Clients, NEW m \in Messages, Due(c, m)'
        PROVE  Has(c, m)' \/ InOutbox(m)'
    <3>1. CASE m = Description(conductor.connection) /\ conductor.described
      <4>1. 1 \in DOMAIN outbox' /\ outbox'[1] = m
        BY <2>1, <3>1
      <4>2. QED BY <4>1 DEF InOutbox
    <3>2. CASE /\ \E n \in 1 .. conductor.candidates :
                    m = Candidate(conductor.connection, n)
               /\ Served(c, "getIceCandidates")'
      <4>1. "getSessionDescription" # "getIceCandidates"
        OBVIOUS
      <4>2. Has(c, m)'
        BY <1>7, <2>1, <3>2, <4>1
      <4>3. QED BY <4>2
    <3>3. QED BY <1>7, <2>1, <2>2, <3>1, <3>2 DEF Due
  <2>3. QED BY <2>2 DEF DueIsSent
<1>10. CASE HandleRemote
  <2>1. Handle("remote") /\ (conductor' = conductor \/ conductor' = Used(conductor))
    BY <1>10 DEF HandleRemote
  <2>2. ASSUME NEW c \in Clients, NEW m \in Messages, Due(c, m)' PROVE Has(c, m)'
    BY <1>7, <2>1, <2>2 DEF Due
  <2>3. QED BY <2>2 DEF DueIsSent
<1>11. QED BY <1>5, <1>6, <1>8, <1>9, <1>10 DEF HandleEvent

(* What a callback makes due goes to every lambda connected.               *)
LEMMA CallbackSendsDue ==
  ASSUME SignalInv, AskedByConnected, DueIsSent,
         OnSuccess \/ OnSuccessInVain \/ OnFailure \/ OnIceCandidate \/ MakeHandler
  PROVE  DueIsSent'
<1>1. /\ conductor \in Conductors /\ ConductorOK(conductor)
      /\ descSubs \in Nat /\ iceSubs \in Nat
  BY DEF SignalInv, Typed, ConductorOK
<1>2. ASSUME Callback
      PROVE  outbox = <<>> /\ UNCHANGED <<sent, received, socket, link, served>>
  BY <1>2 DEF Callback, server
<1>3. ASSUME NEW c \in Clients, NEW m \in Messages, Due(c, m), Callback
      PROVE  Has(c, m)'
  <2>1. Has(c, m)
    BY <1>2, <1>3 DEF DueIsSent, InOutbox
  <2>2. QED BY <1>2, <1>3, <2>1, HasKept
<1>4. ASSUME NEW c \in Clients, NEW type, Callback, Served(c, type)'
      PROVE  Served(c, type) /\ [type |-> type, from |-> c] \in served
  BY <1>2, <1>4 DEF Served
<1>5. CASE OnSuccess
  <2>1. /\ Callback /\ conductor.offering /\ conductor' = Described(conductor)
        /\ outbox' = [i \in 1 .. descSubs |-> Description(conductor.connection)]
    BY <1>5 DEF OnSuccess
  <2>2. Used(conductor) = conductor
    BY <1>1, <2>1, UsedOK DEF ConductorOK
  <2>3. conductor'.connection = conductor.connection
        /\ conductor'.candidates = conductor.candidates
    BY <1>1, <2>1, <2>2 DEF Described, Conductors
  <2>4. ASSUME NEW c \in Clients, NEW m \in Messages, Due(c, m)'
        PROVE  Has(c, m)' \/ InOutbox(m)'
    <3>1. CASE m = Description(conductor.connection)
               /\ Served(c, "getSessionDescription")'
      <4>1. [type |-> "getSessionDescription", from |-> c] \in served
        BY <1>4, <2>1, <3>1
      <4>2. descSubs > 0
        BY <4>1 DEF AskedByConnected
      <4>3. 1 \in DOMAIN outbox' /\ outbox'[1] = m
        BY <1>1, <2>1, <3>1, <4>2
      <4>4. QED BY <4>3 DEF InOutbox
    <3>2. CASE /\ \E n \in 1 .. conductor.candidates :
                    m = Candidate(conductor.connection, n)
               /\ Served(c, "getIceCandidates")'
      BY <1>3, <1>4, <2>1, <3>2 DEF Due
    <3>3. QED BY <2>3, <2>4, <3>1, <3>2 DEF Due
  <2>5. QED BY <2>4 DEF DueIsSent
<1>6. CASE OnFailure
  <2>1. /\ Callback /\ conductor' = OfferFailed(conductor) /\ outbox' = outbox
    BY <1>6 DEF OnFailure
  <2>2. /\ conductor'.connection = conductor.connection
        /\ conductor'.described = conductor.described
        /\ conductor'.candidates = conductor.candidates
    BY <1>1, <2>1 DEF OfferFailed, Conductors
  <2>3. ASSUME NEW c \in Clients, NEW m \in Messages, Due(c, m)' PROVE Has(c, m)'
    <3>1. Due(c, m)
      BY <1>4, <2>1, <2>2, <2>3 DEF Due
    <3>2. QED BY <1>3, <2>1, <3>1
  <2>4. QED BY <2>3 DEF DueIsSent
<1>7. CASE OnIceCandidate
  <2>1. /\ Callback /\ conductor' = Gathered(conductor)
        /\ outbox' = [i \in 1 .. iceSubs |->
                        Candidate(conductor.connection, conductor.candidates + 1)]
    BY <1>7 DEF OnIceCandidate
  <2>2. /\ conductor'.connection = conductor.connection
        /\ conductor'.described = conductor.described
        /\ conductor'.candidates = conductor.candidates + 1
        /\ conductor.candidates \in Nat
    BY <1>1, <2>1 DEF Gathered, Conductors
  <2>3. ASSUME NEW c \in Clients, NEW m \in Messages, Due(c, m)'
        PROVE  Has(c, m)' \/ InOutbox(m)'
    <3>1. CASE Served(c, "getIceCandidates")'
               /\ m = Candidate(conductor.connection, conductor.candidates + 1)
      <4>1. [type |-> "getIceCandidates", from |-> c] \in served
        BY <1>4, <2>1, <3>1
      <4>2. iceSubs > 0
        BY <4>1 DEF AskedByConnected
      <4>3. 1 \in DOMAIN outbox' /\ outbox'[1] = m
        BY <1>1, <2>1, <3>1, <4>2
      <4>4. QED BY <4>3 DEF InOutbox
    <3>2. CASE /\ \E n \in 1 .. conductor.candidates :
                    m = Candidate(conductor.connection, n)
               /\ Served(c, "getIceCandidates")'
      BY <1>3, <1>4, <2>1, <3>2 DEF Due
    <3>3. CASE /\ m = Description(conductor.connection) /\ conductor.described
               /\ Served(c, "getSessionDescription")'
      BY <1>3, <1>4, <2>1, <3>3 DEF Due
    <3>4. \A n \in 1 .. conductor.candidates + 1 :
            n \in 1 .. conductor.candidates \/ n = conductor.candidates + 1
      BY <2>2
    <3>5. QED BY <2>2, <2>3, <3>1, <3>2, <3>3, <3>4 DEF Due
  <2>4. QED BY <2>3 DEF DueIsSent
<1>8. CASE MakeHandler
  <2>1. UNCHANGED <<sent, received, socket, link, served, conductor, outbox>>
    BY <1>8 DEF MakeHandler, server, handler
  <2>2. \A c \in Clients, m \in Messages : Due(c, m)' => Due(c, m)
    BY <2>1 DEF Due, Served
  <2>3. QED BY <2>1, <2>2, NothingNewDue
<1>9. CASE OnSuccessInVain
  <2>1. Callback /\ conductor' = OfferFailed(conductor)
    BY <1>1, <1>9, CallbacksOK DEF OnSuccessInVain
  <2>2. /\ conductor'.connection = conductor.connection
        /\ conductor'.described = conductor.described
        /\ conductor'.candidates = conductor.candidates
    BY <1>1, <2>1 DEF OfferFailed, Conductors
  <2>3. ASSUME NEW c \in Clients, NEW m \in Messages, Due(c, m)' PROVE Has(c, m)'
    <3>1. Due(c, m)
      BY <1>4, <2>1, <2>2, <2>3 DEF Due
    <3>2. QED BY <1>3, <2>1, <3>1
  <2>4. QED BY <2>3 DEF DueIsSent
<1>10. QED BY <1>5, <1>6, <1>7, <1>8, <1>9

(* The head of the outbox reaches the client for whom it is due.           *)
LEMMA SendingDelivers ==
  ASSUME SignalInv, DueIsSent, SendNext
  PROVE  DueIsSent'
<1>1. /\ outbox # <<>> /\ Server!SendMessage(Head(outbox)) /\ outbox' = Tail(outbox)
      /\ UNCHANGED <<socket, link, conductor, served>>
  BY DEF SendNext, Server!SendMessage
<1>2. /\ outbox \in Seq(Messages) /\ sent \in Seq(Messages)
      /\ received \in [Clients -> Seq(Nat \ {0})]
  BY ServerGives DEF SignalInv, Typed, Server!TypeOK
<1>3. Head(outbox) \in Messages
  BY <1>1, <1>2
<1>4. ASSUME NEW c \in Clients, NEW m \in Messages, Due(c, m)'
      PROVE  Has(c, m)' \/ InOutbox(m)'
  <2>1. Due(c, m)
    BY <1>1, <1>4 DEF Due, Served
  <2>2. socket = c /\ link[c] = "open"
    BY <2>1 DEF Due, Served
  <2>3. CASE Has(c, m)
    BY <1>1, <1>3, <2>3, HasKept
  <2>4. ASSUME NEW i \in DOMAIN outbox, outbox[i] = m
        PROVE  Has(c, m)' \/ InOutbox(m)'
    <3>1. CASE i = 1
      <4>1. m = Head(outbox)
        BY <1>1, <1>2, <2>4, <3>1
      <4>2. /\ received' = [received EXCEPT ![c] = Append(@, Len(sent) + 1)]
            /\ sent' = Append(sent, m)
        BY <1>1, <2>2, <4>1, SignallingAssumption DEF Server!SendMessage
      <4>3. /\ Len(received[c]) + 1 \in DOMAIN received'[c]
            /\ received'[c][Len(received[c]) + 1] = Len(sent) + 1
            /\ sent'[Len(sent) + 1] = m
        BY <1>2, <4>2
      <4>4. QED BY <4>3 DEF Has, Got
    <3>2. CASE i # 1
      <4>1. i - 1 \in DOMAIN outbox' /\ outbox'[i - 1] = m
        BY <1>1, <1>2, <2>4, <3>2
      <4>2. QED BY <4>1 DEF InOutbox
    <3>3. QED BY <3>1, <3>2
  <2>5. QED BY <2>1, <2>3, <2>4 DEF DueIsSent, InOutbox
<1>5. QED BY <1>4 DEF DueIsSent

LEMMA DueStep ==
  ASSUME SignalInv, AskedByConnected, DueIsSent, [Next]_vars
  PROVE  DueIsSent'
<1>1. CASE UNCHANGED vars
  <2>1. UNCHANGED <<sent, received, socket, link, served, conductor, outbox>>
    BY <1>1 DEF vars, server, handler
  <2>2. \A c \in Clients, m \in Messages : Due(c, m)' => Due(c, m)
    BY <2>1 DEF Due, Served
  <2>3. QED BY <2>1, <2>2, NothingNewDue
<1>2. CASE Next
  BY <1>2, MainThreadOwesNothing, HandlerSendsDue, CallbackSendsDue, SendingDelivers
  DEF Next
<1>3. QED BY <1>1, <1>2

(* A connected client whose request has been handled has all there is of   *)
(* the current connection, as soon as the handler has sent what it had to. *)
THEOREM NobodyMissesAnything == Spec => []NothingMissed
<1>1. Init => AskedByConnected /\ DueIsSent
  BY DEF Init, AskedByConnected, DueIsSent, Due, Served
<1>2. SignalInv /\ AskedByConnected /\ [Next]_vars => AskedByConnected'
  BY AskedStep
<1>3. SignalInv /\ AskedByConnected /\ DueIsSent /\ [Next]_vars => DueIsSent'
  BY DueStep
<1>4. SignalInv /\ DueIsSent => NothingMissed
  <2> SUFFICES ASSUME SignalInv, DueIsSent, outbox = <<>>, NEW c \in Clients
               PROVE  /\ Served(c, "getSessionDescription") /\ conductor.described
                           => Has(c, Description(conductor.connection))
                      /\ Served(c, "getIceCandidates")
                           => \A n \in 1 .. conductor.candidates :
                                Has(c, Candidate(conductor.connection, n))
    BY DEF NothingMissed
  <2>1. conductor.connection \in Nat /\ conductor.candidates \in Nat
    BY DEF SignalInv, Typed, ConductorOK, Conductors
  <2>2. ASSUME NEW m \in Messages, Due(c, m) PROVE Has(c, m)
    BY <2>2 DEF DueIsSent, InOutbox
  <2>3. ASSUME Served(c, "getSessionDescription"), conductor.described
        PROVE  Has(c, Description(conductor.connection))
    <3>1. PICK m : m = Description(conductor.connection)
      OBVIOUS
    <3>2. m \in Messages
      BY <2>1, <3>1 DEF Description, Messages
    <3>3. Due(c, m)
      BY <2>3, <3>1 DEF Due
    <3>4. Has(c, m)
      BY <2>2, <3>2, <3>3
    <3>5. QED BY <3>1, <3>4
  <2>4. ASSUME Served(c, "getIceCandidates"), NEW n \in 1 .. conductor.candidates
        PROVE  Has(c, Candidate(conductor.connection, n))
    <3>1. PICK m : m = Candidate(conductor.connection, n)
      OBVIOUS
    <3>2. m \in Messages
      BY <2>1, <3>1 DEF Candidate, Messages
    <3>3. Due(c, m)
      BY <2>4, <3>1 DEF Due
    <3>4. Has(c, m)
      BY <2>2, <3>2, <3>3
    <3>5. QED BY <3>1, <3>4
  <2>5. QED BY <2>3, <2>4
<1>5. QED BY <1>1, <1>2, <1>3, <1>4, SignalInvariant, PTL DEF Spec

--------------------------------------------------------------------------------
(* A client that waits has something to wait for                           *)

InQueue(e) == \E i \in DOMAIN events : events[i] = e

Request(c, type) == [type |-> type, from |-> c]

(* Each request made is handled or waits for the worker, and the first     *)
(* that is handled opens a connection.                                     *)
NoRequestLost ==
  /\ \A c \in Clients : \A i \in DOMAIN asked[c] :
       Request(c, asked[c][i]) \in served \/ InQueue(Request(c, asked[c][i]))
  /\ conductor.connection = None => served = {}

(* An event that is queued stays so until it is handled.                   *)
LEMMA EventKept ==
  ASSUME SignalInv, NEW e, e \in served \/ InQueue(e),
         \/ UNCHANGED <<events, served>>
         \/ (\E f \in Events : Emit(f)) /\ UNCHANGED served
         \/ \E type : Handle(type)
  PROVE  (e \in served \/ InQueue(e))'
<1>1. events \in Seq(Events)
  BY DEF SignalInv, Typed
<1>2. CASE UNCHANGED <<events, served>>
  BY <1>2 DEF InQueue
<1>3. ASSUME NEW f \in Events, Emit(f), UNCHANGED served
      PROVE  (e \in served \/ InQueue(e))'
  <2>1. ASSUME NEW i \in DOMAIN events
        PROVE  i \in DOMAIN events' /\ events'[i] = events[i]
    BY <1>1, <1>3, <2>1 DEF Emit
  <2>2. QED BY <1>3, <2>1 DEF InQueue
<1>4. ASSUME NEW type, Handle(type) PROVE (e \in served \/ InQueue(e))'
  <2>1. /\ events # <<>> /\ events' = Tail(events)
        /\ served' = served \cup {Head(events)}
    BY <1>4, HandleTakes
  <2>2. ASSUME NEW i \in DOMAIN events, events[i] = e
        PROVE  (e \in served \/ InQueue(e))'
    <3>1. CASE i = 1
      BY <1>1, <2>1, <2>2, <3>1
    <3>2. CASE i # 1
      <4>1. i - 1 \in DOMAIN events' /\ events'[i - 1] = e
        BY <1>1, <2>1, <2>2, <3>2
      <4>2. QED BY <4>1 DEF InQueue
    <3>3. QED BY <3>1, <3>2
  <2>3. QED BY <2>1, <2>2 DEF InQueue
<1>5. QED BY <1>2, <1>3, <1>4

(* A step that asks for nothing new and keeps the connection there is.     *)
LEMMA NothingNewAsked ==
  ASSUME SignalInv, NoRequestLost, UNCHANGED asked,
         \/ UNCHANGED <<events, served>>
         \/ (\E f \in Events : Emit(f)) /\ UNCHANGED served
         \/ \E type : Handle(type),
         conductor'.connection = None =>
           conductor.connection = None /\ UNCHANGED served
  PROVE  NoRequestLost'
<1>1. ASSUME NEW c \in Clients, NEW i \in DOMAIN asked[c]
      PROVE  (Request(c, asked[c][i]) \in served \/ InQueue(Request(c, asked[c][i])))'
  <2>1. PICK e : e = Request(c, asked[c][i])
    OBVIOUS
  <2>2. e \in served \/ InQueue(e)
    BY <2>1 DEF NoRequestLost
  <2>3. (e \in served \/ InQueue(e))'
    BY <2>2, EventKept
  <2>4. Request(c, asked'[c][i]) = e
    BY <2>1 DEF Request
  <2>5. QED BY <2>1, <2>3, <2>4
<1>2. QED BY <1>1 DEF NoRequestLost

(* A request made while the handler is there is queued for it.             *)
LEMMA AskingIsHeard ==
  ASSUME SignalInv, NoRequestLost, wired,
         NEW c \in Clients, NEW type \in Requests, ClientSends(c, type)
  PROVE  NoRequestLost'
<1>1. /\ asked' = [asked EXCEPT ![c] = Append(@, type)]
      /\ events' = Append(events, Request(c, type))
      /\ Emit(Request(c, type)) /\ Request(c, type) \in Events
      /\ UNCHANGED <<conductor, served>>
  BY DEF ClientSends, Emit, Request, Events
<1>2. asked \in [Clients -> Seq(Requests)] /\ events \in Seq(Events)
  BY DEF SignalInv, Typed
<1>3. ASSUME NEW d \in Clients, NEW i \in DOMAIN asked'[d]
      PROVE  Request(d, asked'[d][i]) \in served'
               \/ \E j \in DOMAIN events' : events'[j] = Request(d, asked'[d][i])
  <2>1. CASE d = c /\ i = Len(asked[c]) + 1
    <3>1. Request(d, asked'[d][i]) = Request(c, type)
      BY <1>1, <1>2, <2>1
    <3>2. Len(events) + 1 \in DOMAIN events'
          /\ events'[Len(events) + 1] = Request(c, type)
      BY <1>1, <1>2
    <3>3. QED BY <3>1, <3>2
  <2>2. CASE i \in DOMAIN asked[d] /\ asked'[d][i] = asked[d][i]
    <3>1. PICK e : e = Request(d, asked[d][i])
      OBVIOUS
    <3>2. e \in served \/ InQueue(e)
      BY <2>2, <3>1 DEF NoRequestLost
    <3>3. (e \in served \/ InQueue(e))'
      BY <1>1, <3>2, EventKept
    <3>4. QED BY <2>2, <3>1, <3>3 DEF InQueue
  <2>3. QED BY <1>1, <1>2, <2>1, <2>2
<1>4. QED BY <1>1, <1>3 DEF NoRequestLost, InQueue

LEMMA NoRequestLostStep ==
  ASSUME SignalInv, ConnectsFirst, NoRequestLost, [Next]_vars
  PROVE  NoRequestLost'
<1>1. ConductorOK(conductor)
  BY DEF SignalInv, Typed
<1>2. ASSUME NEW c \in Clients, Connect(c) PROVE NoRequestLost'
  <2>1. /\ Emit(Request(c, "clientConnected")) /\ Request(c, "clientConnected") \in Events
        /\ UNCHANGED <<asked, served, conductor>>
    BY <1>2 DEF Connect, Request, Events
  <2>2. QED BY <2>1, NothingNewAsked
<1>3. ASSUME NEW c \in Clients, Disconnect(c) PROVE NoRequestLost'
  BY <1>3, NothingNewAsked DEF Disconnect
<1>4. ASSUME NEW c \in Clients, NEW type \in Requests, ClientSends(c, type)
      PROVE  NoRequestLost'
  <2>1. link[c] # "new"
    BY <1>4 DEF ClientSends, Server!LetThrough
  <2>2. wired
    BY <2>1 DEF ConnectsFirst
  <2>3. QED BY <1>4, <2>2, AskingIsHeard
<1>5. CASE HandleEvent
  <2>1. PICK type \in Requests \cup {"clientConnected"} : Handle(type)
    BY <1>5 DEF HandleEvent, HandleClientConnected, HandleReset, HandleGetIceCandidates,
                HandleGetSessionDescription, HandleRemote, Requests
  <2>2. /\ events # <<>> /\ Head(events).type = type /\ UNCHANGED asked
    BY <2>1, HandleTakes
  <2>3. conductor.connection = None => type = "clientConnected"
    BY <2>2 DEF ConnectsFirst
  <2>4. conductor'.connection # None
    <3>1. CASE HandleClientConnected
      BY <1>1, <3>1, OpenedOK DEF HandleClientConnected
    <3>2. CASE HandleReset
      <4>1. ConductorOK(Closed(conductor))
        BY <1>1, ClosedOK
      <4>2. QED BY <3>2, <4>1, OpenedOK DEF HandleReset
    <3>3. CASE HandleGetIceCandidates \/ HandleGetSessionDescription \/ HandleRemote
      <4>1. conductor.connection # None
        BY <2>2, <2>3, <3>3 DEF HandleGetIceCandidates, HandleGetSessionDescription,
                                HandleRemote, Handle
      <4>2. conductor' = conductor
        BY <1>1, <3>3, <4>1, UsedOK
        DEF HandleGetIceCandidates, HandleGetSessionDescription, HandleRemote
      <4>3. QED BY <4>1, <4>2
    <3>4. QED BY <1>5, <3>1, <3>2, <3>3 DEF HandleEvent
  <2>5. QED BY <2>1, <2>2, <2>4, NothingNewAsked
<1>6. CASE OnSuccess \/ OnSuccessInVain \/ OnFailure \/ OnIceCandidate
  <2>1. UNCHANGED <<asked, events, served>>
    BY <1>6 DEF OnSuccess, OnSuccessInVain, OnFailure, OnIceCandidate, Callback
  <2>2. conductor'.connection = conductor.connection
    <3>1. conductor \in Conductors
      BY <1>1 DEF ConductorOK
    <3>2. QED BY <1>6, <3>1 DEF OnSuccess, OnSuccessInVain, OnFailure, OnIceCandidate,
                                Described, DescribedInVain, Used, OfferFailed, Gathered,
                                Conductors
  <2>3. QED BY <2>1, <2>2, NothingNewAsked
<1>7. CASE MakeHandler \/ SendNext \/ UNCHANGED vars
  BY <1>7, NothingNewAsked DEF MakeHandler, SendNext, vars
<1>8. QED BY <1>2, <1>3, <1>4, <1>5, <1>6, <1>7 DEF Next

(* What may still bring client c its description: its request is queued,   *)
(* an offer is being made and a lambda waits for it, or the description is *)
(* next to be sent.                                                        *)
OnItsWay(c) ==
  \/ InQueue(Request(c, "getSessionDescription"))
  \/ conductor.offering /\ descSubs > 0
  \/ socket = c /\ \E i \in DOMAIN outbox : outbox[i].candidate = 0

(* A client that is connected and waits for a description waits for        *)
(* something: this is what DescriptionArrives needs of the states, through *)
(* any number of resets and of other clients' requests.                    *)
NobodyWaitsInVain ==
  \A c \in Clients :
    link[c] = "open" /\ Waiting(c) => OnItsWay(c) \/ GotDescription(c) \/ NoOffer

(* A request for the session description is never forgotten: while its     *)
(* client is connected it is queued, or an offer is being made for it, or  *)
(* the description is sent, or there has been one, or the library failed   *)
(* to make or to set it.                                                   *)
THEOREM DescriptionOnItsWay == WiredFirst /\ Spec => []NobodyWaitsInVain
<1>1. Init => ConnectsFirst /\ NoRequestLost /\ AskedByConnected /\ DueIsSent
  BY DEF Init, Start, Server!Init, ConnectsFirst, None, NoRequestLost,
         AskedByConnected, DueIsSent, Due, Served
<1>2. SUFFICES ASSUME WiredFirst PROVE Spec => []NobodyWaitsInVain
  OBVIOUS
<1>3. SignalInv /\ ConnectsFirst /\ [Next]_vars => ConnectsFirst'
  BY <1>2, ConnectsFirstStep
<1>4. SignalInv /\ ConnectsFirst /\ NoRequestLost /\ [Next]_vars => NoRequestLost'
  BY NoRequestLostStep
<1>5. SignalInv /\ AskedByConnected /\ [Next]_vars => AskedByConnected'
  BY AskedStep
<1>6. SignalInv /\ AskedByConnected /\ DueIsSent /\ [Next]_vars => DueIsSent'
  BY DueStep
<1>7. SignalInv /\ NoRequestLost /\ AskedByConnected /\ DueIsSent => NobodyWaitsInVain
  <2> SUFFICES ASSUME SignalInv, NoRequestLost, AskedByConnected, DueIsSent,
                      NEW c \in Clients, link[c] = "open", Waiting(c)
               PROVE  OnItsWay(c) \/ GotDescription(c) \/ NoOffer
    BY DEF NobodyWaitsInVain
  <2> DEFINE request == Request(c, "getSessionDescription")
  <2>1. request \in served \/ InQueue(request)
    BY DEF NoRequestLost, Waiting
  <2>2. CASE request \in served /\ conductor.described
    <3>1. socket = c
      BY ServerGives DEF SignalInv, Typed
    <3>2. Served(c, "getSessionDescription")
      BY <2>2, <3>1 DEF Served, Request
    <3>3. PICK m : m = Description(conductor.connection)
      OBVIOUS
    <3>4. m \in Messages /\ m.candidate = 0
      BY <3>3 DEF Description, Messages, SignalInv, Typed, ConductorOK, Conductors
    <3>5. Has(c, m) \/ InOutbox(m)
      BY <2>2, <3>2, <3>3, <3>4 DEF DueIsSent, Due
    <3>6. Has(c, m) => GotDescription(c)
      BY <3>4 DEF Has, GotDescription
    <3>7. InOutbox(m) => OnItsWay(c)
      BY <3>1, <3>4 DEF InOutbox, OnItsWay
    <3>8. QED BY <3>5, <3>6, <3>7
  <2>3. CASE request \in served /\ conductor.offering
    BY <2>3 DEF OnItsWay, AskedByConnected, Request
  <2>4. CASE request \in served /\ ~conductor.described /\ ~conductor.offering
    BY <2>4 DEF NoOffer, NoRequestLost
  <2>5. CASE InQueue(request)
    BY <2>5 DEF OnItsWay
  <2>6. QED BY <2>1, <2>2, <2>3, <2>4, <2>5
<1>8. QED BY <1>1, <1>3, <1>4, <1>5, <1>6, <1>7, SignalInvariant, PTL DEF Spec

--------------------------------------------------------------------------------
(* The relay is still one with the worker's side of it                     *)

LEMMA SignallingRelayStep ==
  ASSUME SignalInv, SignalInv', [Next]_vars
  PROVE  [ServerFacts!Relay!Next]_(ServerFacts!Relay!vars)
<1>1. ServerFacts!ServerInv /\ ServerFacts!ServerInv'
  BY DEF SignalInv, Typed, ServerInv
<1>2. ASSUME NEW c \in Clients, Connect(c) \/ Disconnect(c)
      PROVE  ServerFacts!OnNewConnection(c) \/ ServerFacts!ClientLeaves(c)
               \/ ServerFacts!SocketDisconnected(c)
  BY <1>2 DEF Connect, Disconnect, Server!OnNewConnection, Server!ClientLeaves,
              Server!SocketDisconnected, Server!Flushed, ServerFacts!OnNewConnection,
              ServerFacts!ClientLeaves, ServerFacts!SocketDisconnected,
              ServerFacts!Flushed
<1>3. CASE SendNext
  <2>1. Head(outbox) \in Messages /\ Server!SendMessage(Head(outbox))
    BY <1>3 DEF SendNext, SignalInv, Typed
  <2>2. ServerFacts!SendMessage(Head(outbox))
    BY <2>1 DEF Server!SendMessage, ServerFacts!SendMessage
  <2>3. QED BY <1>1, <2>1, <2>2, ServerFacts!RelayStep, SignallingAssumption
<1>4. CASE ~SendNext /\ \A c \in Clients : ~Connect(c) /\ ~Disconnect(c)
  <2>1. UNCHANGED server
    BY <1>4 DEF Next, ClientSends, MakeHandler, HandleEvent, HandleClientConnected,
                HandleReset, HandleGetIceCandidates, HandleGetSessionDescription,
                HandleRemote, Handle, OnSuccess, OnSuccessInVain, OnFailure,
                OnIceCandidate, Callback, vars
  <2>2. UNCHANGED ServerFacts!vars
    BY <2>1 DEF server, ServerFacts!vars
  <2>3. QED BY <1>1, <2>2, ServerFacts!RelayStep, SignallingAssumption
<1>5. QED BY <1>1, <1>2, <1>3, <1>4, ServerFacts!RelayStep, SignallingAssumption

(* What the handler sends reaches the clients as the relay promises: in    *)
(* the order it was sent, and no message more than one client.             *)
THEOREM SignallingImplementsRelay == Spec => Server!ImplementsRelay
<1>1. Init => Server!Relay!Init
  BY DEF Init, Server!Init, Server!Relay!Init
<1>2. SignalInv /\ SignalInv' /\ [Next]_vars
        => [Server!Relay!Next]_(Server!Relay!vars)
  BY SignallingRelayStep
  DEF Server!Relay!Next, Server!Relay!Send, Server!Relay!Deliver, Server!Relay!Given,
      Server!Relay!NewlyGot, Server!Relay!vars, ServerFacts!Relay!Next,
      ServerFacts!Relay!Send, ServerFacts!Relay!Deliver, ServerFacts!Relay!Given,
      ServerFacts!Relay!NewlyGot, ServerFacts!Relay!vars
<1>3. QED
  BY <1>1, <1>2, SignalInvariant, PTL
  DEF Spec, Server!ImplementsRelay, Server!Relay!Spec
================================================================================
