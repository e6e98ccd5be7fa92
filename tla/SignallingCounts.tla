---------------------------- MODULE SignallingCounts ----------------------------
(***************************************************************************)
(* No message is sent more often than all clients together have asked for  *)
(* its kind: for any number of clients, requests and candidates.  A        *)
(* request becomes one event, an event one subscription, and a             *)
(* subscription sends a message at most once, because a message that has   *)
(* not appeared yet is in nobody's hands.                                  *)
(***************************************************************************)
EXTENDS SignallingProofs, FiniteSetTheorems

--------------------------------------------------------------------------------
(* Counting the elements of a sequence that are in a set                   *)

Positions(s, M) == {i \in DOMAIN s : s[i] \in M}
Count(s, M) == Cardinality(Positions(s, M))

LEMMA CountType ==
  ASSUME NEW S, NEW s \in Seq(S), NEW M
  PROVE  IsFiniteSet(Positions(s, M)) /\ Count(s, M) \in Nat /\ Count(s, M) <= Len(s)
<1>1. DOMAIN s = 1 .. Len(s) /\ Len(s) \in Nat
  OBVIOUS
<1>2. IsFiniteSet(1 .. Len(s)) /\ Cardinality(1 .. Len(s)) = Len(s)
  BY <1>1, FS_Interval
<1>3. Positions(s, M) \in SUBSET (1 .. Len(s))
  BY <1>1 DEF Positions
<1>4. IsFiniteSet(Positions(s, M)) /\ Cardinality(Positions(s, M)) <= Len(s)
  BY <1>2, <1>3, FS_Subset
<1>5. QED BY <1>4, FS_CardinalityType DEF Count

(* A sequence without such elements.                                       *)
LEMMA CountNone ==
  ASSUME NEW s, NEW M, \A i \in DOMAIN s : s[i] \notin M
  PROVE  Count(s, M) = 0
<1>1. Positions(s, M) = {}
  BY DEF Positions
<1>2. QED BY <1>1, FS_EmptySet DEF Count

(* A sequence that counts none has none.                                   *)
LEMMA CountSome ==
  ASSUME NEW S, NEW s \in Seq(S), NEW M, Count(s, M) = 0, NEW i \in DOMAIN s
  PROVE  s[i] \notin M
<1>1. IsFiniteSet(Positions(s, M)) /\ Cardinality(Positions(s, M)) = 0
  BY CountType DEF Count
<1>2. Positions(s, M) = {}
  BY <1>1, FS_EmptySet
<1>3. QED BY <1>2 DEF Positions

(* A sequence with at most one such element.                               *)
LEMMA CountOne ==
  ASSUME NEW s, NEW M, NEW n, \A i \in DOMAIN s : s[i] \in M => i = n
  PROVE  Count(s, M) \in Nat /\ Count(s, M) <= 1
<1>1. IsFiniteSet({n}) /\ Cardinality({n}) = 1
  BY FS_Singleton
<1>2. Positions(s, M) \in SUBSET {n}
  BY DEF Positions
<1>3. IsFiniteSet(Positions(s, M)) /\ Cardinality(Positions(s, M)) <= 1
  BY <1>1, <1>2, FS_Subset
<1>4. QED BY <1>3, FS_CardinalityType DEF Count

LEMMA CountAppend ==
  ASSUME NEW S, NEW s \in Seq(S), NEW e \in S, NEW M
  PROVE  Count(Append(s, e), M) = IF e \in M THEN Count(s, M) + 1 ELSE Count(s, M)
<1> DEFINE t == Append(s, e)
<1>1. /\ Len(s) \in Nat /\ DOMAIN s = 1 .. Len(s) /\ DOMAIN t = 1 .. Len(s) + 1
      /\ \A i \in 1 .. Len(s) : t[i] = s[i]
      /\ t[Len(s) + 1] = e
  OBVIOUS
<1> HIDE DEF t
<1>2. IsFiniteSet(Positions(s, M)) /\ Len(s) + 1 \notin Positions(s, M)
  <2>1. IsFiniteSet(Positions(s, M))
    BY CountType
  <2>2. Len(s) + 1 \notin Positions(s, M)
    BY <1>1 DEF Positions
  <2>3. QED BY <2>1, <2>2
<1>3. CASE e \in M
  <2>1. Positions(t, M) = Positions(s, M) \cup {Len(s) + 1}
    BY <1>1, <1>3 DEF Positions
  <2>2. QED BY <1>2, <1>3, <2>1, FS_AddElement DEF Count, t
<1>4. CASE e \notin M
  <2>1. Positions(t, M) = Positions(s, M)
    BY <1>1, <1>4 DEF Positions
  <2>2. QED BY <1>4, <2>1 DEF Count, t
<1>5. QED BY <1>3, <1>4

(* What is left once the head is taken counts one less if the head counted.*)
LEMMA CountTail ==
  ASSUME NEW S, NEW s \in Seq(S), s # <<>>, NEW M
  PROVE  /\ Count(Tail(s), M) \in Nat
         /\ Count(Tail(s), M) <= Count(s, M)
         /\ Head(s) \in M => Count(Tail(s), M) + 1 <= Count(s, M)
<1> DEFINE t == Tail(s)
           P == Positions(s, M)
           Q == Positions(t, M)
           shift == [i \in Q |-> i + 1]
<1>1. /\ t \in Seq(S) /\ Len(s) \in Nat \ {0} /\ Len(t) = Len(s) - 1
      /\ DOMAIN s = 1 .. Len(s) /\ DOMAIN t = 1 .. Len(t)
      /\ \A i \in 1 .. Len(t) : t[i] = s[i + 1]
      /\ Head(s) = s[1]
  OBVIOUS
<1>2. IsFiniteSet(P) /\ Cardinality(P) \in Nat /\ IsFiniteSet(Q) /\ Cardinality(Q) \in Nat
  <2>1. IsFiniteSet(P) /\ IsFiniteSet(Q)
    BY <1>1, CountType
  <2>2. QED BY <2>1, FS_CardinalityType
<1>3. IsFiniteSet(P \ {1})
      /\ Cardinality(P \ {1}) = IF 1 \in P THEN Cardinality(P) - 1 ELSE Cardinality(P)
  BY <1>2, FS_RemoveElement
<1>4. shift \in Injection(Q, P \ {1})
  <2>1. \A i \in Q : i + 1 \in P \ {1} /\ i \in Nat
    BY <1>1 DEF Positions
  <2>2. shift \in [Q -> P \ {1}]
    BY <2>1
  <2>3. \A i, j \in Q : shift[i] = shift[j] => i = j
    BY <2>1
  <2>4. QED BY <2>2, <2>3 DEF Injection, IsInjective
<1>5. Cardinality(Q) <= Cardinality(P \ {1})
  BY <1>3, <1>4, FS_Injection
<1>6. Head(s) \in M <=> 1 \in P
  BY <1>1 DEF Positions
<1> HIDE DEF P, Q
<1>7. Cardinality(Q) <= Cardinality(P) /\ (1 \in P => Cardinality(Q) + 1 <= Cardinality(P))
  BY <1>2, <1>3, <1>5
<1>8. QED BY <1>2, <1>6, <1>7 DEF Count, P, Q, t
--------------------------------------------------------------------------------
(* What is asked for, and by which events                                  *)

Asking == {"getSessionDescription", "getIceCandidates"}
OfType(type) == {e \in Events : e.type = type}
Subscribed(type) == IF type = "getSessionDescription" THEN descSubs ELSE iceSubs

(* The requests of a type, as TimesAsked counts them.                      *)
AskedFor(type) ==
  {r \in Clients \X (1 .. MaxRequests) :
     r[2] \in DOMAIN asked[r[1]] /\ asked[r[1]][r[2]] = type}

(* Each request is counted once, as an event to come or a subscription.    *)
RequestsInv ==
  \A type \in Asking :
    /\ IsFiniteSet(AskedFor(type))
    /\ Subscribed(type) + Count(events, OfType(type)) <= Cardinality(AskedFor(type))

LEMMA RequestsStart == Init => RequestsInv
<1> SUFFICES ASSUME Init, NEW type \in Asking
             PROVE  /\ IsFiniteSet(AskedFor(type))
                    /\ Subscribed(type) + Count(events, OfType(type))
                         <= Cardinality(AskedFor(type))
  BY DEF RequestsInv
<1>1. AskedFor(type) = {}
  BY DEF Init, AskedFor
<1>2. Count(events, OfType(type)) = 0
  <2>1. events = <<>>
    BY DEF Init
  <2>2. QED BY <2>1, CountNone
<1>3. Subscribed(type) = 0
  BY DEF Init, Subscribed
<1>4. QED BY <1>1, <1>2, <1>3, FS_EmptySet

(* The next request of a client is one more of its type.                   *)
LEMMA OneMoreAsked ==
  ASSUME SignalInv, NEW c \in Clients, NEW t \in Requests, Len(asked[c]) < MaxRequests,
         asked' = [asked EXCEPT ![c] = Append(@, t)],
         NEW type, IsFiniteSet(AskedFor(type))
  PROVE  /\ IsFiniteSet(AskedFor(type)')
         /\ Cardinality(AskedFor(type)')
              = Cardinality(AskedFor(type)) + (IF t = type THEN 1 ELSE 0)
<1> DEFINE n == Len(asked[c]) + 1
<1>1. /\ asked \in [Clients -> Seq(Requests)] /\ asked[c] \in Seq(Requests)
      /\ MaxRequests \in Nat /\ n \in 1 .. MaxRequests
      /\ DOMAIN asked[c] = 1 .. Len(asked[c]) /\ Len(asked[c]) \in Nat
  BY SignallingAssumption DEF SignalInv, Typed
<1>2. /\ \A d \in Clients : d # c => asked'[d] = asked[d]
      /\ DOMAIN asked'[c] = DOMAIN asked[c] \cup {n}
      /\ n \notin DOMAIN asked[c]
      /\ \A i \in DOMAIN asked[c] : asked'[c][i] = asked[c][i]
      /\ asked'[c][n] = t
  BY <1>1
<1> HIDE DEF n
<1>3. <<c, n>> \notin AskedFor(type)
  BY <1>2 DEF AskedFor
<1>4. AskedFor(type)' = IF t = type THEN AskedFor(type) \cup {<<c, n>>}
                        ELSE AskedFor(type)
  <2>1. ASSUME NEW r \in Clients \X (1 .. MaxRequests)
        PROVE  (r[2] \in DOMAIN asked'[r[1]] /\ asked'[r[1]][r[2]] = type)
                 <=> \/ r[2] \in DOMAIN asked[r[1]] /\ asked[r[1]][r[2]] = type
                     \/ t = type /\ r = <<c, n>>
    <3>1. r[1] \in Clients /\ r = <<r[1], r[2]>>
      OBVIOUS
    <3>2. CASE r[1] # c
      BY <1>2, <3>1, <3>2
    <3>3. CASE r[1] = c /\ r[2] # n
      BY <1>2, <3>1, <3>3
    <3>4. CASE r[1] = c /\ r[2] = n
      BY <1>2, <3>1, <3>4
    <3>5. QED BY <3>2, <3>3, <3>4
  <2>2. <<c, n>> \in Clients \X (1 .. MaxRequests)
    BY <1>1
  <2>3. AskedFor(type)' = {r \in Clients \X (1 .. MaxRequests) :
                             r[2] \in DOMAIN asked'[r[1]] /\ asked'[r[1]][r[2]] = type}
    BY DEF AskedFor
  <2>4. QED BY <2>1, <2>2, <2>3 DEF AskedFor
<1>5. CASE t = type
  BY <1>3, <1>4, <1>5, FS_AddElement
<1>6. CASE t # type
  <2>1. Cardinality(AskedFor(type)) \in Nat
    BY FS_CardinalityType
  <2>2. QED BY <1>4, <1>6, <2>1
<1>7. QED BY <1>5, <1>6

(* An event queued counts one more of its type at most, and an event       *)
(* handled one less.                                                       *)
LEMMA EventCounts ==
  ASSUME SignalInv, NEW M
  PROVE  /\ Count(events, M) \in Nat
         /\ \A e \in Events :
              Emit(e) => /\ Count(events', M) \in Nat
                         /\ Count(events', M) <= Count(events, M) + 1
                         /\ e \notin M => Count(events', M) = Count(events, M)
         /\ events # <<>> =>
              /\ Count(Tail(events), M) \in Nat
              /\ Count(Tail(events), M) <= Count(events, M)
              /\ Head(events) \in M => Count(Tail(events), M) + 1 <= Count(events, M)
<1>1. events \in Seq(Events)
  BY DEF SignalInv, Typed
<1>2. Count(events, M) \in Nat
  BY <1>1, CountType
<1>3. ASSUME NEW e \in Events, Emit(e)
      PROVE  /\ Count(events', M) \in Nat
             /\ Count(events', M) <= Count(events, M) + 1
             /\ e \notin M => Count(events', M) = Count(events, M)
  <2>1. CASE events' = events
    BY <1>2, <2>1
  <2>2. CASE events' = Append(events, e)
    <3>1. Count(events', M) = IF e \in M THEN Count(events, M) + 1 ELSE Count(events, M)
      BY <1>1, <2>2, CountAppend
    <3>2. QED BY <1>2, <3>1
  <2>3. QED BY <1>3, <2>1, <2>2 DEF Emit
<1>4. QED BY <1>1, <1>2, <1>3, CountTail

(* The requests that come in, and the clients that come and go.            *)
LEMMA MainThreadCounts ==
  ASSUME SignalInv, RequestsInv, NEW c \in Clients,
         \/ Connect(c) \/ Disconnect(c) \/ \E t \in Requests : ClientSends(c, t)
  PROVE  RequestsInv'
<1> SUFFICES ASSUME NEW type \in Asking
             PROVE  (/\ IsFiniteSet(AskedFor(type))
                     /\ Subscribed(type) + Count(events, OfType(type))
                          <= Cardinality(AskedFor(type)))'
  BY DEF RequestsInv
<1>1. /\ IsFiniteSet(AskedFor(type)) /\ Cardinality(AskedFor(type)) \in Nat
      /\ Subscribed(type) \in Nat /\ Count(events, OfType(type)) \in Nat
      /\ Subscribed(type) + Count(events, OfType(type)) <= Cardinality(AskedFor(type))
  BY EventCounts, FS_CardinalityType DEF RequestsInv, SignalInv, Typed, Subscribed
<1>2. OfType(type)' = OfType(type) /\ (UNCHANGED handler => Subscribed(type)' = Subscribed(type))
  BY DEF OfType, Events, Subscribed, handler
<1>3. CASE Connect(c)
  <2>1. /\ Emit([type |-> "clientConnected", from |-> c])
        /\ UNCHANGED <<handler, asked>>
    BY <1>3 DEF Connect
  <2>2. /\ [type |-> "clientConnected", from |-> c] \in Events
        /\ [type |-> "clientConnected", from |-> c] \notin OfType(type)
    BY DEF Events, OfType, Asking
  <2>3. Count(events', OfType(type)) = Count(events, OfType(type))
    BY <2>1, <2>2, EventCounts
  <2>4. AskedFor(type)' = AskedFor(type)
    BY <2>1 DEF AskedFor
  <2>5. QED BY <1>1, <1>2, <2>1, <2>3, <2>4
<1>4. CASE Disconnect(c)
  <2>1. UNCHANGED <<events, handler, asked>>
    BY <1>4 DEF Disconnect
  <2>2. AskedFor(type)' = AskedFor(type)
    BY <2>1 DEF AskedFor
  <2>3. QED BY <1>1, <1>2, <2>1, <2>2
<1>5. ASSUME NEW t \in Requests, ClientSends(c, t)
      PROVE  (/\ IsFiniteSet(AskedFor(type))
              /\ Subscribed(type) + Count(events, OfType(type))
                   <= Cardinality(AskedFor(type)))'
  <2>1. /\ Len(asked[c]) < MaxRequests /\ asked' = [asked EXCEPT ![c] = Append(@, t)]
        /\ Emit([type |-> t, from |-> c]) /\ UNCHANGED handler
    BY <1>5 DEF ClientSends
  <2>2. /\ IsFiniteSet(AskedFor(type)')
        /\ Cardinality(AskedFor(type)')
             = Cardinality(AskedFor(type)) + (IF t = type THEN 1 ELSE 0)
    BY <1>1, <2>1, OneMoreAsked
  <2>3. /\ [type |-> t, from |-> c] \in Events
        /\ [type |-> t, from |-> c] \in OfType(type) => t = type
    BY DEF Events, OfType
  <2>4. /\ Count(events', OfType(type)) \in Nat
        /\ Count(events', OfType(type))
             <= Count(events, OfType(type)) + (IF t = type THEN 1 ELSE 0)
    BY <1>1, <2>1, <2>3, EventCounts
  <2>5. QED BY <1>1, <1>2, <2>1, <2>2, <2>4
<1>6. QED BY <1>3, <1>4, <1>5

(* An event of a type handled becomes a subscription to its signal.        *)
LEMMA HandlerCounts ==
  ASSUME SignalInv, RequestsInv, HandleEvent
  PROVE  RequestsInv'
<1> SUFFICES ASSUME NEW type \in Asking
             PROVE  (/\ IsFiniteSet(AskedFor(type))
                     /\ Subscribed(type) + Count(events, OfType(type))
                          <= Cardinality(AskedFor(type)))'
  BY DEF RequestsInv
<1>1. /\ IsFiniteSet(AskedFor(type)) /\ Cardinality(AskedFor(type)) \in Nat
      /\ Subscribed(type) \in Nat /\ Count(events, OfType(type)) \in Nat
      /\ Subscribed(type) + Count(events, OfType(type)) <= Cardinality(AskedFor(type))
      /\ descSubs \in Nat /\ iceSubs \in Nat
  BY EventCounts, FS_CardinalityType DEF RequestsInv, SignalInv, Typed, Subscribed
<1>2. OfType(type)' = OfType(type)
  BY DEF OfType, Events
<1>3. PICK t \in Requests \cup {"clientConnected"} :
        /\ Handle(t)
        /\ Subscribed(type)' = Subscribed(type) + (IF t = type THEN 1 ELSE 0)
  <2>1. CASE HandleClientConnected \/ HandleReset \/ HandleRemote
    BY <1>1, <2>1 DEF HandleClientConnected, HandleReset, HandleRemote, handler,
                      Subscribed, Requests, Asking
  <2>2. CASE HandleGetIceCandidates
    BY <1>1, <2>2 DEF HandleGetIceCandidates, Subscribed, Requests, Asking
  <2>3. CASE HandleGetSessionDescription
    BY <1>1, <2>3 DEF HandleGetSessionDescription, Subscribed, Requests, Asking
  <2>4. QED BY <2>1, <2>2, <2>3 DEF HandleEvent
<1>4. /\ events # <<>> /\ Head(events) \in Events /\ Head(events).type = t
      /\ events' = Tail(events) /\ asked' = asked
  BY <1>3, HandleTakes
<1>5. AskedFor(type)' = AskedFor(type)
  BY <1>4 DEF AskedFor
<1>6. t = type => Head(events) \in OfType(type)
  BY <1>4 DEF OfType
<1>7. /\ Count(events', OfType(type)) \in Nat
      /\ Count(events', OfType(type)) + (IF t = type THEN 1 ELSE 0)
           <= Count(events, OfType(type))
  BY <1>1, <1>4, <1>6, EventCounts
<1>8. QED BY <1>1, <1>2, <1>3, <1>5, <1>7

LEMMA RequestsStep == SignalInv /\ RequestsInv /\ [Next]_vars => RequestsInv'
<1> SUFFICES ASSUME SignalInv, RequestsInv, [Next]_vars PROVE RequestsInv'
  OBVIOUS
<1>1. ASSUME UNCHANGED <<events, iceSubs, descSubs, asked>> PROVE RequestsInv'
  <2>1. \A type : /\ AskedFor(type)' = AskedFor(type) /\ OfType(type)' = OfType(type)
                  /\ Subscribed(type)' = Subscribed(type)
    BY <1>1 DEF AskedFor, OfType, Events, Subscribed
  <2>2. QED BY <1>1, <2>1 DEF RequestsInv, Count, Positions
<1>2. CASE MakeHandler \/ OnSuccess \/ OnSuccessInVain \/ OnFailure \/ OnIceCandidate
           \/ SendNext \/ UNCHANGED vars
  BY <1>1, <1>2 DEF MakeHandler, OnSuccess, OnSuccessInVain, OnFailure, OnIceCandidate,
                    Callback, SendNext, handler, vars
<1>3. QED BY <1>2, MainThreadCounts, HandlerCounts DEF Next

--------------------------------------------------------------------------------
(* What has not appeared yet                                               *)

(* m is of a connection that is still to be made, or is the description    *)
(* that the current one is still offering, or a candidate that it does not *)
(* have yet.                                                               *)
Unborn(m) ==
  \/ m.connection > conductor.made
  \/ /\ m.connection = conductor.connection
     /\ IF m.candidate = 0 THEN conductor.offering
        ELSE m.candidate > conductor.candidates

(* Nobody has what has not appeared yet; what has appeared was sent, or is *)
(* about to be, at most once for each subscription.                        *)
CopiesInv ==
  /\ conductor.offering => ~conductor.described
  /\ \A m \in Messages :
       /\ Unborn(m) => Count(sent, {m}) = 0 /\ Count(outbox, {m}) = 0
       /\ Count(sent, {m}) + Count(outbox, {m}) <= Subscribed(Kind(m))

LEMMA CopiesStart == Init => CopiesInv
<1> SUFFICES ASSUME Init PROVE CopiesInv
  OBVIOUS
<1>1. sent = <<>> /\ outbox = <<>> /\ descSubs = 0 /\ iceSubs = 0
      /\ conductor.offering = FALSE
  BY DEF Init, Server!Init, Start
<1>2. \A m : Count(sent, {m}) = 0 /\ Count(outbox, {m}) = 0
  BY <1>1, CountNone
<1>3. \A type : Subscribed(type) = 0
  BY <1>1 DEF Subscribed
<1>4. conductor.offering => ~conductor.described
  BY <1>1
<1>5. \A m : Count(sent, {m}) + Count(outbox, {m}) <= Subscribed(Kind(m))
  <2>1. 0 + 0 <= 0
    OBVIOUS
  <2>2. QED BY <1>2, <1>3, <2>1, Zenon
<1>6. QED BY <1>2, <1>4, <1>5 DEF CopiesInv

(* The types of the counts.                                                *)
LEMMA CopiesType ==
  ASSUME SignalInv, NEW m
  PROVE  /\ Count(sent, {m}) \in Nat /\ Count(outbox, {m}) \in Nat
         /\ Subscribed(Kind(m)) \in Nat
         /\ outbox = <<>> => Count(outbox, {m}) = 0
<1>1. sent \in Seq(Messages) /\ outbox \in Seq(Messages)
      /\ descSubs \in Nat /\ iceSubs \in Nat
  BY ServerGives DEF SignalInv, Typed
<1>2. outbox = <<>> => Count(outbox, {m}) = 0
  BY CountNone
<1>3. QED BY <1>1, <1>2, CountType DEF Subscribed

(* A step that sends nothing, queues nothing and subscribes nobody: what   *)
(* has not appeared after it had not appeared before.                      *)
LEMMA NothingQueued ==
  ASSUME SignalInv, CopiesInv, UNCHANGED <<sent, outbox, iceSubs, descSubs>>,
         conductor'.offering => ~conductor'.described,
         \A m \in Messages : Unborn(m)' => Unborn(m)
  PROVE  CopiesInv'
<1>1. \A m : /\ Count(sent, {m})' = Count(sent, {m})
             /\ Count(outbox, {m})' = Count(outbox, {m})
             /\ Subscribed(Kind(m))' = Subscribed(Kind(m))
  BY DEF Count, Positions, Subscribed, Kind
<1>2. QED BY <1>1 DEF CopiesInv

(* A handler or a callback that found the outbox empty queues messages: of *)
(* each at most as many copies as there are, after it, subscriptions left. *)
LEMMA CopiesQueued ==
  ASSUME SignalInv, CopiesInv, outbox = <<>>, sent' = sent,
         conductor'.offering => ~conductor'.described,
         \A m \in Messages :
           /\ Count(outbox', {m}) \in Nat /\ Subscribed(Kind(m))' \in Nat
           /\ Unborn(m)' => Unborn(m) /\ Count(outbox', {m}) = 0
           /\ \/ /\ Count(outbox', {m}) = 0
                 /\ Subscribed(Kind(m))' >= Subscribed(Kind(m))
              \/ /\ Count(outbox', {m}) <= 1
                 /\ Subscribed(Kind(m))' = Subscribed(Kind(m)) + 1
              \/ /\ Unborn(m)
                 /\ Count(outbox', {m}) <= Subscribed(Kind(m))
                 /\ Subscribed(Kind(m))' = Subscribed(Kind(m))
  PROVE  CopiesInv'
<1> SUFFICES ASSUME NEW m \in Messages
             PROVE  (/\ Unborn(m) => Count(sent, {m}) = 0 /\ Count(outbox, {m}) = 0
                     /\ Count(sent, {m}) + Count(outbox, {m}) <= Subscribed(Kind(m)))'
  BY DEF CopiesInv
<1>1. /\ Count(sent, {m}) \in Nat /\ Subscribed(Kind(m)) \in Nat
      /\ Count(outbox, {m}) = 0
  BY CopiesType
<1>2. /\ Unborn(m) => Count(sent, {m}) = 0
      /\ Count(sent, {m}) <= Subscribed(Kind(m))
  BY <1>1 DEF CopiesInv
<1>3. Count(sent, {m})' = Count(sent, {m}) /\ Count(outbox, {m})' = Count(outbox', {m})
  BY DEF Count, Positions
<1>4. Unborn(m)' => Count(sent, {m})' = 0 /\ Count(outbox, {m})' = 0
  BY <1>2, <1>3
<1>5. Count(sent, {m})' + Count(outbox, {m})' <= Subscribed(Kind(m))'
  <2>1. Count(outbox', {m}) \in Nat /\ Subscribed(Kind(m))' \in Nat
    OBVIOUS
  <2>2. Count(sent, {m}) + Count(outbox', {m}) <= Subscribed(Kind(m))'
    BY <1>1, <1>2, <2>1
  <2>3. QED BY <1>3, <2>2
<1>6. QED BY <1>4, <1>5

(* A connection that is opened has no description and no candidate.        *)
LEMMA OpenedUnborn ==
  ASSUME NEW s, ConductorOK(s), NEW t, t = Opened(s)
  PROVE  \/ t = s
         \/ /\ t.connection = s.made + 1 /\ t.made = s.made + 1 /\ s.made \in Nat
            /\ t.described = FALSE
<1>1. s \in Conductors /\ s.made \in Nat
  BY DEF ConductorOK, Conductors
<1>2. CASE s.connection = None
  <2>1. t = [s EXCEPT !.connection = s.made + 1, !.made = s.made + 1, !.stream = TRUE,
                      !.offering = TRUE, !.failed = s.failed \/ s.stream]
    BY <1>2 DEF Opened
  <2>2. s.described = FALSE
    BY <1>1, <1>2 DEF ConductorOK, Conductors
  <2>3. QED BY <1>1, <2>1, <2>2 DEF Conductors
<1>3. QED BY <1>2 DEF Opened

(* clientConnected and reset: whatever the new connection will have is     *)
(* still to appear.                                                        *)
LEMMA OpeningCopies ==
  ASSUME SignalInv, CopiesInv, HandleClientConnected \/ HandleReset
  PROVE  CopiesInv'
<1>1. /\ ConductorOK(conductor) /\ conductor.made \in Nat
      /\ UNCHANGED <<sent, outbox, iceSubs, descSubs>>
  BY DEF SignalInv, Typed, ConductorOK, Conductors, HandleClientConnected, HandleReset,
         Handle, server, handler
<1>2. \/ conductor' = conductor
      \/ /\ conductor'.connection = conductor.made + 1
         /\ conductor'.made = conductor.made + 1
         /\ conductor'.described = FALSE
  <2>1. CASE HandleClientConnected
    BY <1>1, <2>1, OpenedUnborn DEF HandleClientConnected
  <2>2. CASE HandleReset
    <3>1. PICK s : s = Closed(conductor)
      OBVIOUS
    <3>2. ConductorOK(s) /\ s.connection = None /\ s.made = conductor.made
      BY <1>1, <3>1, ClosedOK DEF Same
    <3>3. conductor' = Opened(s) /\ conductor'.connection # None
      BY <2>2, <3>1, <3>2, OpenedOK DEF HandleReset
    <3>4. QED BY <3>2, <3>3, OpenedUnborn
  <2>3. QED BY <2>1, <2>2
<1>3. conductor'.offering => ~conductor'.described
  BY <1>2 DEF CopiesInv
<1>4. ASSUME NEW m \in Messages, Unborn(m)' PROVE Unborn(m)
  <2>1. m.connection \in Nat
    BY DEF Messages
  <2>2. CASE conductor' = conductor
    BY <1>4, <2>2 DEF Unborn
  <2>3. CASE conductor'.made = conductor.made + 1
             /\ conductor'.connection = conductor.made + 1
    <3>1. m.connection > conductor.made
      BY <1>1, <1>4, <2>1, <2>3 DEF Unborn
    <3>2. QED BY <3>1 DEF Unborn
  <2>4. QED BY <1>2, <2>2, <2>3
<1>5. QED BY <1>1, <1>3, <1>4, NothingQueued

(* The conductor's connection, description and candidates stay the same.   *)
LEMMA UsedUnborn ==
  ASSUME SignalInv, CopiesInv, conductor' = conductor \/ conductor' = Used(conductor)
  PROVE  /\ \A m : Unborn(m)' <=> Unborn(m)
         /\ conductor'.offering => ~conductor'.described
<1>1. conductor \in Conductors
  BY DEF SignalInv, Typed, ConductorOK
<1>2. /\ conductor'.connection = conductor.connection
      /\ conductor'.made = conductor.made
      /\ conductor'.offering = conductor.offering
      /\ conductor'.described = conductor.described
      /\ conductor'.candidates = conductor.candidates
  BY <1>1 DEF Used, Conductors
<1>3. QED BY <1>2 DEF Unborn, CopiesInv

(* What is asked for is sent once, with a subscription more for it.        *)
LEMMA AskingCopies ==
  ASSUME SignalInv, CopiesInv,
         HandleGetIceCandidates \/ HandleGetSessionDescription \/ HandleRemote
  PROVE  CopiesInv'
<1>1. /\ outbox = <<>> /\ sent' = sent /\ descSubs \in Nat /\ iceSubs \in Nat
      /\ conductor' = conductor \/ conductor' = Used(conductor)
      /\ conductor.candidates \in Nat
  BY DEF SignalInv, Typed, ConductorOK, Conductors, HandleGetIceCandidates, HandleRemote,
         HandleGetSessionDescription, Handle, server
<1>2. /\ \A m : Unborn(m)' <=> Unborn(m)
      /\ conductor'.offering => ~conductor'.described
  BY <1>1, UsedUnborn
<1>3. CASE HandleRemote
  BY <1>2, <1>3, NothingQueued DEF HandleRemote, Handle, server, handler
<1>4. CASE HandleGetIceCandidates
  <2>1. /\ outbox' = [n \in 1 .. conductor.candidates |->
                        Candidate(conductor.connection, n)]
        /\ iceSubs' = iceSubs + 1 /\ descSubs' = descSubs
    BY <1>4 DEF HandleGetIceCandidates
  <2>2. ASSUME NEW m \in Messages
        PROVE  /\ Count(outbox', {m}) \in Nat /\ Subscribed(Kind(m))' \in Nat
               /\ Unborn(m)' => Unborn(m) /\ Count(outbox', {m}) = 0
               /\ \/ /\ Count(outbox', {m}) = 0
                     /\ Subscribed(Kind(m))' >= Subscribed(Kind(m))
                  \/ /\ Count(outbox', {m}) <= 1
                     /\ Subscribed(Kind(m))' = Subscribed(Kind(m)) + 1
    <3>1. \A i \in DOMAIN outbox' :
            outbox'[i] = m =>
              /\ i = m.candidate /\ m.candidate \in 1 .. conductor.candidates
              /\ m.connection = conductor.connection
      BY <2>1 DEF Candidate
    <3>2. Count(outbox', {m}) \in Nat /\ Count(outbox', {m}) <= 1
      BY <3>1, CountOne
    <3>3. ASSUME ~(\E i \in DOMAIN outbox' : outbox'[i] = m)
          PROVE  Count(outbox', {m}) = 0
      BY <3>3, CountNone
    <3>4. ASSUME NEW i \in DOMAIN outbox', outbox'[i] = m
          PROVE  /\ Kind(m) = "getIceCandidates"
                 /\ ~Unborn(m)
      <4>1. /\ m.candidate \in 1 .. conductor.candidates
            /\ m.connection = conductor.connection
        BY <3>1, <3>4
      <4>2. m.candidate # 0 /\ ~(m.candidate > conductor.candidates)
        BY <1>1, <4>1
      <4>3. ~(m.connection > conductor.made)
        BY <4>1 DEF SignalInv, Typed, ConductorOK, Conductors, None
      <4>4. QED BY <4>1, <4>2, <4>3 DEF Unborn, Kind
    <3>5. /\ Subscribed(Kind(m))' \in Nat /\ Subscribed(Kind(m))' >= Subscribed(Kind(m))
          /\ Kind(m) = "getIceCandidates" =>
               Subscribed(Kind(m))' = Subscribed(Kind(m)) + 1
      BY <1>1, <2>1 DEF Subscribed, Kind
    <3>6. QED BY <1>2, <3>2, <3>3, <3>4, <3>5
  <2>3. QED BY <1>1, <1>2, <2>2, CopiesQueued
<1>5. CASE HandleGetSessionDescription
  <2>1. /\ outbox' = IF conductor.described
                     THEN <<Description(conductor.connection)>> ELSE <<>>
        /\ descSubs' = descSubs + 1 /\ iceSubs' = iceSubs
    BY <1>5 DEF HandleGetSessionDescription
  <2>2. ASSUME NEW m \in Messages
        PROVE  /\ Count(outbox', {m}) \in Nat /\ Subscribed(Kind(m))' \in Nat
               /\ Unborn(m)' => Unborn(m) /\ Count(outbox', {m}) = 0
               /\ \/ /\ Count(outbox', {m}) = 0
                     /\ Subscribed(Kind(m))' >= Subscribed(Kind(m))
                  \/ /\ Count(outbox', {m}) <= 1
                     /\ Subscribed(Kind(m))' = Subscribed(Kind(m)) + 1
    <3>1. \A i \in DOMAIN outbox' :
            outbox'[i] = m =>
              /\ i = 1 /\ m.candidate = 0 /\ conductor.described
              /\ m.connection = conductor.connection
      BY <2>1 DEF Description
    <3>2. Count(outbox', {m}) \in Nat /\ Count(outbox', {m}) <= 1
      BY <3>1, CountOne
    <3>3. ASSUME ~(\E i \in DOMAIN outbox' : outbox'[i] = m)
          PROVE  Count(outbox', {m}) = 0
      BY <3>3, CountNone
    <3>4. ASSUME NEW i \in DOMAIN outbox', outbox'[i] = m
          PROVE  /\ Kind(m) = "getSessionDescription"
                 /\ ~Unborn(m)
      <4>1. /\ m.candidate = 0 /\ conductor.described
            /\ m.connection = conductor.connection
        BY <3>1, <3>4
      <4>2. ~(m.connection > conductor.made)
        BY <4>1 DEF SignalInv, Typed, ConductorOK, Conductors, None
      <4>3. ~conductor.offering
        BY <4>1 DEF CopiesInv
      <4>4. QED BY <4>1, <4>2, <4>3 DEF Unborn, Kind
    <3>5. /\ Subscribed(Kind(m))' \in Nat /\ Subscribed(Kind(m))' >= Subscribed(Kind(m))
          /\ Kind(m) = "getSessionDescription" =>
               Subscribed(Kind(m))' = Subscribed(Kind(m)) + 1
      BY <1>1, <2>1 DEF Subscribed, Kind
    <3>6. QED BY <1>2, <3>2, <3>3, <3>4, <3>5
  <2>3. QED BY <1>1, <1>2, <2>2, CopiesQueued
<1>6. QED BY <1>3, <1>4, <1>5

(* A signal of the conductor: what appears was still to appear, and each   *)
(* subscription sends one copy of it.                                      *)
LEMMA AppearingCopies ==
  ASSUME SignalInv, CopiesInv, outbox = <<>>, UNCHANGED <<sent, iceSubs, descSubs>>,
         NEW new \in Messages, Unborn(new), ~Unborn(new)',
         \A m \in Messages : Unborn(m)' => Unborn(m),
         conductor'.offering => ~conductor'.described,
         outbox' = [i \in 1 .. Subscribed(Kind(new)) |-> new]
  PROVE  CopiesInv'
<1>1. /\ outbox' \in Seq(Messages) /\ Len(outbox') = Subscribed(Kind(new))
      /\ Subscribed(Kind(new)) \in Nat
      /\ \A i \in DOMAIN outbox' : outbox'[i] = new
  <2>1. Subscribed(Kind(new)) \in Nat
    BY CopiesType
  <2>2. QED BY <2>1
<1>2. ASSUME NEW m \in Messages
      PROVE  /\ Count(outbox', {m}) \in Nat /\ Subscribed(Kind(m))' \in Nat
             /\ Unborn(m)' => Unborn(m) /\ Count(outbox', {m}) = 0
             /\ \/ /\ Count(outbox', {m}) = 0
                   /\ Subscribed(Kind(m))' >= Subscribed(Kind(m))
                \/ /\ Unborn(m)
                   /\ Count(outbox', {m}) <= Subscribed(Kind(m))
                   /\ Subscribed(Kind(m))' = Subscribed(Kind(m))
  <2>1. Count(outbox', {m}) \in Nat /\ Count(outbox', {m}) <= Subscribed(Kind(new))
    BY <1>1, CountType
  <2>2. Subscribed(Kind(m))' = Subscribed(Kind(m)) /\ Subscribed(Kind(m)) \in Nat
    BY CopiesType DEF Subscribed, Kind
  <2>3. CASE m = new
    BY <2>1, <2>2, <2>3
  <2>4. CASE m # new
    <3>1. Count(outbox', {m}) = 0
      BY <1>1, <2>4, CountNone
    <3>2. QED BY <2>2, <3>1
  <2>5. QED BY <2>3, <2>4
<1>3. QED BY <1>2, CopiesQueued

LEMMA CallbackCopies ==
  ASSUME SignalInv, CopiesInv,
         OnSuccess \/ OnSuccessInVain \/ OnFailure \/ OnIceCandidate \/ MakeHandler
  PROVE  CopiesInv'
<1>1. /\ conductor \in Conductors /\ ConductorOK(conductor)
      /\ conductor.made \in Nat /\ conductor.connection \in Nat
      /\ conductor.candidates \in Nat
      /\ conductor.connection \in {None, conductor.made}
  BY DEF SignalInv, Typed, ConductorOK, Conductors
<1>2. ASSUME Callback
      PROVE  outbox = <<>> /\ UNCHANGED <<sent, iceSubs, descSubs>>
  BY <1>2 DEF Callback, server
<1>3. CASE OnSuccess \/ OnSuccessInVain
  <2>1. /\ Callback /\ conductor.offering
        /\ conductor' = Described(conductor) \/ conductor' = DescribedInVain(conductor)
        /\ outbox' = [i \in 1 .. descSubs |-> Description(conductor.connection)]
    BY <1>3 DEF OnSuccess, OnSuccessInVain
  <2>2. Used(conductor) = conductor /\ conductor.connection = conductor.made
    BY <1>1, <2>1, UsedOK DEF ConductorOK
  <2>3. \/ conductor' = [conductor EXCEPT !.offering = FALSE, !.described = TRUE]
        \/ conductor' = [conductor EXCEPT !.offering = FALSE]
    BY <2>1, <2>2 DEF Described, DescribedInVain
  <2>4. /\ conductor'.connection = conductor.connection
        /\ conductor'.made = conductor.made /\ conductor'.candidates = conductor.candidates
        /\ conductor'.offering = FALSE
    BY <1>1, <2>3 DEF Conductors
  <2>5. PICK new \in Messages : new = Description(conductor.connection)
    BY <1>1 DEF Description, Messages
  <2>6. /\ new.connection = conductor.connection /\ new.candidate = 0
        /\ Kind(new) = "getSessionDescription"
    BY <2>5 DEF Description, Kind
  <2>7. Unborn(new) /\ ~Unborn(new)'
    BY <1>1, <2>1, <2>2, <2>4, <2>6 DEF Unborn
  <2>8. \A m \in Messages : Unborn(m)' => Unborn(m)
    BY <2>4 DEF Unborn
  <2>9. outbox' = [i \in 1 .. Subscribed(Kind(new)) |-> new]
    BY <2>1, <2>5, <2>6 DEF Subscribed
  <2>10. QED BY <1>2, <2>1, <2>4, <2>7, <2>8, <2>9, AppearingCopies
<1>4. CASE OnFailure
  <2>1. Callback /\ conductor' = OfferFailed(conductor) /\ outbox' = outbox
    BY <1>4 DEF OnFailure
  <2>2. /\ conductor'.connection = conductor.connection
        /\ conductor'.made = conductor.made /\ conductor'.candidates = conductor.candidates
        /\ conductor'.offering = FALSE /\ conductor'.described = conductor.described
    BY <1>1, <2>1 DEF OfferFailed, Conductors
  <2>3. \A m \in Messages : Unborn(m)' => Unborn(m)
    BY <2>2 DEF Unborn
  <2>4. conductor'.offering => ~conductor'.described
    BY <2>2
  <2>5. QED BY <1>2, <2>1, <2>3, <2>4, NothingQueued
<1>5. CASE OnIceCandidate
  <2>1. /\ Callback /\ conductor.described /\ conductor' = Gathered(conductor)
        /\ outbox' = [i \in 1 .. iceSubs |->
                        Candidate(conductor.connection, conductor.candidates + 1)]
    BY <1>5 DEF OnIceCandidate
  <2>2. conductor.connection = conductor.made
    BY <1>1, <2>1 DEF ConductorOK
  <2>3. /\ conductor'.connection = conductor.connection
        /\ conductor'.made = conductor.made
        /\ conductor'.candidates = conductor.candidates + 1
        /\ conductor'.offering = conductor.offering
        /\ conductor'.described = conductor.described
    BY <1>1, <2>1 DEF Gathered, Conductors
  <2>4. PICK new \in Messages : new = Candidate(conductor.connection, conductor.candidates + 1)
    <3>1. conductor.candidates + 1 \in Nat
      BY <1>1
    <3>2. Candidate(conductor.connection, conductor.candidates + 1) \in Messages
      BY <1>1, <3>1 DEF Candidate, Messages
    <3>3. QED BY <3>2
  <2>5. /\ new.connection = conductor.connection
        /\ new.candidate = conductor.candidates + 1 /\ new.candidate # 0
        /\ Kind(new) = "getIceCandidates"
    BY <1>1, <2>4 DEF Candidate, Kind
  <2>6. Unborn(new) /\ ~Unborn(new)'
    BY <1>1, <2>2, <2>3, <2>5 DEF Unborn
  <2>7. ASSUME NEW m \in Messages, Unborn(m)' PROVE Unborn(m)
    BY <1>1, <2>3, <2>7 DEF Unborn, Messages
  <2>8. outbox' = [i \in 1 .. Subscribed(Kind(new)) |-> new]
    BY <2>1, <2>4, <2>5 DEF Subscribed
  <2>9. conductor'.offering => ~conductor'.described
    BY <2>3 DEF CopiesInv
  <2>10. QED BY <1>2, <2>1, <2>6, <2>7, <2>8, <2>9, AppearingCopies
<1>6. CASE MakeHandler
  <2>1. UNCHANGED <<sent, outbox, iceSubs, descSubs, conductor>>
    BY <1>6 DEF MakeHandler, server, handler
  <2>2. \A m : Unborn(m)' <=> Unborn(m)
    BY <2>1 DEF Unborn
  <2>3. QED BY <2>1, <2>2, NothingQueued DEF CopiesInv
<1>7. QED BY <1>3, <1>4, <1>5, <1>6

(* A message goes from the outbox to the sent ones.                        *)
LEMMA SendingCopies ==
  ASSUME SignalInv, CopiesInv, SendNext
  PROVE  CopiesInv'
<1>1. /\ outbox # <<>> /\ sent' = Append(sent, Head(outbox)) /\ outbox' = Tail(outbox)
      /\ UNCHANGED <<conductor, iceSubs, descSubs>>
  BY DEF SendNext, Server!SendMessage
<1>2. outbox \in Seq(Messages) /\ sent \in Seq(Messages) /\ Head(outbox) \in Messages
  BY <1>1, ServerGives DEF SignalInv, Typed
<1>3. ASSUME NEW m \in Messages
      PROVE  /\ Unborn(m)' => Count(sent', {m}) = 0 /\ Count(outbox', {m}) = 0
             /\ Count(sent', {m}) + Count(outbox', {m}) <= Subscribed(Kind(m))'
  <2>1. /\ Count(sent, {m}) \in Nat /\ Count(outbox, {m}) \in Nat
        /\ Subscribed(Kind(m)) \in Nat
    BY CopiesType
  <2>2. Count(sent', {m}) = IF Head(outbox) \in {m} THEN Count(sent, {m}) + 1
                            ELSE Count(sent, {m})
    BY <1>1, <1>2, CountAppend
  <2>3. /\ Count(outbox', {m}) \in Nat /\ Count(outbox', {m}) <= Count(outbox, {m})
        /\ Head(outbox) \in {m} => Count(outbox', {m}) + 1 <= Count(outbox, {m})
    BY <1>1, <1>2, CountTail
  <2>4. Subscribed(Kind(m))' = Subscribed(Kind(m)) /\ (Unborn(m)' <=> Unborn(m))
    BY <1>1 DEF Subscribed, Kind, Unborn
  <2>5. /\ Unborn(m) => Count(sent, {m}) = 0 /\ Count(outbox, {m}) = 0
        /\ Count(sent, {m}) + Count(outbox, {m}) <= Subscribed(Kind(m))
    BY DEF CopiesInv
  <2>6. QED BY <2>1, <2>2, <2>3, <2>4, <2>5
<1>4. \A m : Count(sent, {m})' = Count(sent', {m}) /\ Count(outbox, {m})' = Count(outbox', {m})
  BY DEF Count, Positions
<1>5. (conductor.offering => ~conductor.described)'
  BY <1>1 DEF CopiesInv
<1>6. QED BY <1>3, <1>4, <1>5 DEF CopiesInv

LEMMA CopiesStep == SignalInv /\ CopiesInv /\ [Next]_vars => CopiesInv'
<1> SUFFICES ASSUME SignalInv, CopiesInv, [Next]_vars PROVE CopiesInv'
  OBVIOUS
<1>1. ASSUME UNCHANGED <<sent, outbox, iceSubs, descSubs, conductor>> PROVE CopiesInv'
  <2>1. \A m : Unborn(m)' <=> Unborn(m)
    BY <1>1 DEF Unborn
  <2>2. QED BY <1>1, <2>1, NothingQueued DEF CopiesInv
<1>2. ASSUME NEW c \in Clients,
             \/ Connect(c) \/ Disconnect(c) \/ \E t \in Requests : ClientSends(c, t)
      PROVE  CopiesInv'
  BY <1>1, <1>2 DEF Connect, Disconnect, ClientSends, server, handler,
                    Server!OnNewConnection, Server!ClientLeaves, Server!SocketDisconnected
<1>3. CASE UNCHANGED vars
  BY <1>1, <1>3 DEF vars, server, handler
<1>4. CASE HandleEvent
  BY <1>4, OpeningCopies, AskingCopies DEF HandleEvent
<1>5. QED BY <1>2, <1>3, <1>4, CallbackCopies, SendingCopies DEF Next

--------------------------------------------------------------------------------
(* A message that has not appeared yet, because its connection is still to *)
(* be made or has not come up with it, has been sent to nobody.            *)
OnlyWhatAppeared == \A i \in DOMAIN sent : ~Unborn(sent[i])

(* Nothing of a peer connection is sent before the connection gave it.     *)
THEOREM NothingBeforeItAppears == Spec => []OnlyWhatAppeared
<1>1. SignalInv /\ CopiesInv => OnlyWhatAppeared
  <2> SUFFICES ASSUME SignalInv, CopiesInv, NEW i \in DOMAIN sent PROVE ~Unborn(sent[i])
    BY DEF OnlyWhatAppeared
  <2>1. sent \in Seq(Messages) /\ sent[i] \in Messages
    BY ServerGives DEF SignalInv, Typed
  <2>2. Count(sent, {sent[i]}) # 0
    BY <2>1, CountSome
  <2>3. QED BY <2>1, <2>2 DEF CopiesInv
<1>2. QED BY <1>1, CopiesStart, CopiesStep, SignalInvariant, PTL DEF Spec

(* No message is sent more often than all clients together have asked for  *)
(* its kind, whatever is reset, and whenever it appears.  One client may   *)
(* well get it more often than it has asked itself: each subscription of a *)
(* client before it sends it a copy too.                                   *)
THEOREM NoCopyTooMany == Spec => []SentAsOftenAsAsked
<1>1. SignalInv /\ RequestsInv /\ CopiesInv => SentAsOftenAsAsked
  <2> SUFFICES ASSUME SignalInv, RequestsInv, CopiesInv, NEW i \in DOMAIN sent
               PROVE  TimesSent(sent[i]) <= TimesAsked(Kind(sent[i]))
    BY DEF SentAsOftenAsAsked
  <2>1. sent \in Seq(Messages) /\ sent[i] \in Messages
    BY ServerGives DEF SignalInv, Typed
  <2>2. PICK m \in Messages : m = sent[i]
    BY <2>1
  <2>3. Kind(m) \in Asking
    BY DEF Kind, Asking
  <2>4. TimesSent(m) = Count(sent, {m})
    <3>1. Positions(sent, {m}) = {j \in DOMAIN sent : sent[j] = m}
      BY DEF Positions
    <3>2. QED BY <3>1 DEF TimesSent, Count
  <2>5. TimesAsked(Kind(m)) = Cardinality(AskedFor(Kind(m)))
    BY DEF TimesAsked, AskedFor
  <2>6. /\ Count(sent, {m}) \in Nat /\ Count(outbox, {m}) \in Nat
        /\ Subscribed(Kind(m)) \in Nat /\ Count(events, OfType(Kind(m))) \in Nat
    BY CopiesType, EventCounts
  <2>7. Count(sent, {m}) <= Subscribed(Kind(m))
    BY <2>6 DEF CopiesInv
  <2>8. IsFiniteSet(AskedFor(Kind(m)))
        /\ Subscribed(Kind(m)) <= Cardinality(AskedFor(Kind(m)))
    <3>1. /\ IsFiniteSet(AskedFor(Kind(m)))
          /\ Subscribed(Kind(m)) + Count(events, OfType(Kind(m)))
               <= Cardinality(AskedFor(Kind(m)))
      BY <2>3 DEF RequestsInv
    <3>2. Cardinality(AskedFor(Kind(m))) \in Nat
      BY <3>1, FS_CardinalityType
    <3>3. QED BY <2>6, <3>1, <3>2
  <2>9. Cardinality(AskedFor(Kind(m))) \in Nat
    BY <2>8, FS_CardinalityType
  <2>10. QED BY <2>2, <2>4, <2>5, <2>6, <2>7, <2>8, <2>9
<1>2. QED BY <1>1, RequestsStart, RequestsStep, CopiesStart, CopiesStep,
            SignalInvariant, PTL DEF Spec
================================================================================
