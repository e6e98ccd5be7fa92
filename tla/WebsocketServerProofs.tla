--------------------------- MODULE WebsocketServerProofs ---------------------------
(***************************************************************************)
(* The control server loses track of no message and never keeps a deleted  *)
(* socket, and it is the relay it promises to be: for any number of        *)
(* connections and messages.                                               *)
(***************************************************************************)
EXTENDS WebsocketServer, SequenceTheorems, TLAPS

(* The numbers in a longer sequence.                                       *)
LEMMA NumbersOfConcat ==
  ASSUME NEW s \in Seq(Nat \ {0}), NEW t \in Seq(Nat \ {0})
  PROVE  /\ s \o t \in Seq(Nat \ {0})
         /\ Numbers(s \o t) = Numbers(s) \cup Numbers(t)
<1>1. /\ s \o t \in Seq(Nat \ {0})
      /\ Len(s \o t) = Len(s) + Len(t) /\ Len(s) \in Nat /\ Len(t) \in Nat
      /\ \A i \in 1 .. Len(s) : (s \o t)[i] = s[i]
      /\ \A i \in 1 .. Len(t) : (s \o t)[Len(s) + i] = t[i]
  OBVIOUS
<1>2. /\ DOMAIN s = 1 .. Len(s) /\ DOMAIN t = 1 .. Len(t)
      /\ DOMAIN (s \o t) = 1 .. Len(s \o t)
  BY <1>1
<1>3. ASSUME NEW n \in Numbers(s \o t) PROVE n \in Numbers(s) \cup Numbers(t)
  <2>1. PICK i \in 1 .. Len(s \o t) : n = (s \o t)[i]
    BY <1>2, <1>3 DEF Numbers
  <2>2. CASE i <= Len(s)
    BY <1>1, <1>2, <2>1, <2>2 DEF Numbers
  <2>3. CASE i > Len(s)
    <3>1. i - Len(s) \in 1 .. Len(t) /\ Len(s) + (i - Len(s)) = i
      BY <1>1, <2>1, <2>3
    <3>2. n = t[i - Len(s)]
      BY <1>1, <2>1, <3>1
    <3>3. QED BY <1>2, <3>1, <3>2 DEF Numbers
  <2>4. QED BY <1>1, <2>1, <2>2, <2>3
<1>4. ASSUME NEW n \in Numbers(s) \cup Numbers(t) PROVE n \in Numbers(s \o t)
  <2>1. CASE n \in Numbers(s)
    BY <1>1, <1>2, <2>1 DEF Numbers
  <2>2. CASE n \in Numbers(t)
    <3>1. PICK i \in 1 .. Len(t) : n = t[i]
      BY <1>2, <2>2 DEF Numbers
    <3>2. Len(s) + i \in 1 .. Len(s \o t) /\ n = (s \o t)[Len(s) + i]
      BY <1>1, <3>1
    <3>3. QED BY <1>2, <3>2 DEF Numbers
  <2>3. QED BY <1>4, <2>1, <2>2
<1>5. QED BY <1>1, <1>3, <1>4

LEMMA NumbersOfAppend ==
  ASSUME NEW s \in Seq(Nat \ {0}), NEW n \in Nat \ {0}
  PROVE  /\ Append(s, n) \in Seq(Nat \ {0})
         /\ Numbers(Append(s, n)) = Numbers(s) \cup {n}
         /\ Append(s, n) = s \o <<n>>
<1>1. Append(s, n) = s \o <<n>> /\ <<n>> \in Seq(Nat \ {0})
  BY AppendIsConcat
<1>2. Numbers(<<n>>) = {n}
  BY DEF Numbers
<1>3. QED BY <1>1, <1>2, NumbersOfConcat

(* What was appended to a sequence.                                        *)
LEMMA Appended ==
  ASSUME NEW s \in Seq(Nat \ {0}), NEW t \in Seq(Nat \ {0})
  PROVE  SubSeq(s \o t, Len(s) + 1, Len(s \o t)) = t
<1> DEFINE u == SubSeq(s \o t, Len(s) + 1, Len(s \o t))
<1>1. s \o t \in Seq(Nat \ {0}) /\ Len(s \o t) = Len(s) + Len(t)
      /\ Len(s) \in Nat /\ Len(t) \in Nat
  OBVIOUS
<1>2. u \in Seq(Nat \ {0}) /\ Len(u) = Len(t)
  BY <1>1
<1>3. ASSUME NEW i \in 1 .. Len(t) PROVE u[i] = t[i]
  BY <1>1, <1>2
<1>4. QED BY <1>2, <1>3, SeqEqual

--------------------------------------------------------------------------------
Taken == UNION {Numbers(received[c]) : c \in Clients}

Rising(ns) == \A i, j \in DOMAIN ns : i < j => ns[i] < ns[j]

(* The pending messages rise, and are newer than all that any client got.  *)
PendingIsNewer ==
  /\ Rising(pending)
  /\ \A m \in Taken, n \in Numbers(pending) : m < n

(* Each client has got its messages in the order they were sent.           *)
ReceivedRises == \A c \in Clients : Rising(received[c])

(* The only QWebSocket that is not deleted is the one m_socket points to.  *)
OnlyTheSocketLives ==
  \A c \in Clients : link[c] \in {"open", "left"} => socket = c

(* The inductive invariant.                                                *)
ServerInv ==
  /\ TypeOK
  /\ SocketIsAlive
  /\ OnlyTheSocketLives
  /\ EveryMessageAccountedFor
  /\ PendingIsNewer
  /\ ReceivedRises

(* Every message sent is somewhere, with its number.                       *)
LEMMA Accounted ==
  EveryMessageAccountedFor <=>
    /\ Taken \cup Numbers(pending) \cup lost = DOMAIN sent
    /\ Taken \cap (Numbers(pending) \cup lost) = {}
    /\ Numbers(pending) \cap lost = {}
    /\ socket # NoClient => pending = <<>>
BY DEF EveryMessageAccountedFor, Taken

(* What the clients together have once client c gets ns.                   *)
LEMMA TakenGrows ==
  ASSUME TypeOK, NEW c \in Clients, NEW ns \in Seq(Nat \ {0}),
         received' = [received EXCEPT ![c] = @ \o ns]
  PROVE  /\ received' \in [Clients -> Seq(Nat \ {0})]
         /\ Taken' = Taken \cup Numbers(ns)
<1>1. /\ received[c] \o ns \in Seq(Nat \ {0})
      /\ Numbers(received[c] \o ns) = Numbers(received[c]) \cup Numbers(ns)
  BY NumbersOfConcat DEF TypeOK
<1>2. received' \in [Clients -> Seq(Nat \ {0})]
  BY <1>1 DEF TypeOK
<1>3. /\ Numbers(received'[c]) = Numbers(received[c]) \cup Numbers(ns)
      /\ \A d \in Clients : d # c => received'[d] = received[d]
  BY <1>1 DEF TypeOK
<1>4. \A d \in Clients : Numbers(received[d]) \subseteq Numbers(received'[d])
  BY <1>3
<1>5. Taken \subseteq Taken' /\ Numbers(ns) \subseteq Taken'
  BY <1>3, <1>4 DEF Taken
<1>6. \A d \in Clients : Numbers(received'[d]) \subseteq Numbers(received[d]) \cup Numbers(ns)
  BY <1>3
<1>7. Taken' \subseteq Taken \cup Numbers(ns)
  BY <1>6 DEF Taken
<1>8. QED BY <1>2, <1>5, <1>7

(* What a client has stays in order when it gets newer messages in order.  *)
LEMMA OrderKept ==
  ASSUME TypeOK, ReceivedRises, NEW c \in Clients, NEW ns \in Seq(Nat \ {0}), Rising(ns),
         received' = [received EXCEPT ![c] = @ \o ns],
         \A m \in Taken, n \in Numbers(ns) : m < n
  PROVE  ReceivedRises'
<1> DEFINE s == received[c]
<1>1. s \in Seq(Nat \ {0}) /\ Rising(s) /\ Numbers(s) \subseteq Taken
  BY DEF TypeOK, ReceivedRises, Taken
<1>2. /\ Len(s) \in Nat /\ Len(ns) \in Nat
      /\ DOMAIN s = 1 .. Len(s) /\ DOMAIN ns = 1 .. Len(ns)
      /\ DOMAIN (s \o ns) = 1 .. Len(s) + Len(ns)
      /\ \A i \in 1 .. Len(s) : (s \o ns)[i] = s[i]
      /\ \A i \in 1 .. Len(s) + Len(ns) :
           i > Len(s) => i - Len(s) \in 1 .. Len(ns) /\ (s \o ns)[i] = ns[i - Len(s)]
  BY <1>1
<1>3. \A i \in 1 .. Len(s), j \in 1 .. Len(ns) : s[i] < ns[j]
  BY <1>1, <1>2 DEF Numbers
<1>4. ASSUME NEW i \in DOMAIN (s \o ns), NEW j \in DOMAIN (s \o ns), i < j
      PROVE  (s \o ns)[i] < (s \o ns)[j]
  <2>1. CASE j <= Len(s)
    BY <1>1, <1>2, <1>4, <2>1 DEF Rising
  <2>2. CASE i <= Len(s) /\ j > Len(s)
    BY <1>2, <1>3, <2>2
  <2>3. CASE i > Len(s)
    <3>1. PICK k \in DOMAIN ns, l \in DOMAIN ns :
            k = i - Len(s) /\ l = j - Len(s)
              /\ (s \o ns)[i] = ns[k] /\ (s \o ns)[j] = ns[l]
      <4>1. j > Len(s)
        BY <1>2, <1>4, <2>3
      <4>2. QED BY <1>2, <1>4, <2>3, <4>1
    <3>2. k < l
      BY <1>2, <1>4, <3>1
    <3>3. ns[k] < ns[l]
      BY <3>2 DEF Rising
    <3>4. QED BY <3>1, <3>3
  <2>4. QED BY <1>2, <2>1, <2>2, <2>3
<1>5. received'[c] = s \o ns /\ \A d \in Clients : d # c => received'[d] = received[d]
  BY DEF TypeOK
<1> HIDE DEF s
<1>6. QED BY <1>4, <1>5 DEF ReceivedRises, Rising

LEMMA ServerStart == Init => ServerInv
<1> SUFFICES ASSUME Init PROVE ServerInv
  OBVIOUS
<1>1. TypeOK
  BY DEF Init, TypeOK, LinkStates
<1>2. Numbers(<<>>) = {}
  BY DEF Numbers
<1>3. Taken = {} /\ Numbers(pending) = {}
  BY <1>2 DEF Init, Taken
<1>4. QED BY <1>1, <1>3, Accounted
         DEF Init, ServerInv, SocketIsAlive, OnlyTheSocketLives, PendingIsNewer, ReceivedRises, Rising

--------------------------------------------------------------------------------
(* A new client takes all that is pending.                                 *)
LEMMA ConnectionStep ==
  ASSUME ServerInv, NEW c \in Clients, OnNewConnection(c)
  PROVE  ServerInv'
<1>1. TypeOK /\ OnlyTheSocketLives /\ EveryMessageAccountedFor
  BY DEF ServerInv
<1>2. /\ socket' = c /\ pending' = <<>>
      /\ received' = [received EXCEPT ![c] = @ \o pending]
      /\ UNCHANGED <<sent, lost>>
      /\ link' = [d \in Clients |-> IF d = c THEN "open"
                                    ELSE IF d = socket THEN "deleted" ELSE link[d]]
  BY DEF OnNewConnection, Flushed
<1>3. /\ received' \in [Clients -> Seq(Nat \ {0})]
      /\ Taken' = Taken \cup Numbers(pending)
  BY <1>1, <1>2, TakenGrows DEF TypeOK
<1>4. Numbers(pending') = {} /\ pending' \in Seq(Nat \ {0}) /\ DOMAIN pending' = {}
  BY <1>2 DEF Numbers
<1>5. TypeOK'
  BY <1>1, <1>2, <1>3, <1>4 DEF TypeOK, LinkStates
<1>6. SocketIsAlive' /\ OnlyTheSocketLives'
  BY <1>1, <1>2 DEF SocketIsAlive, OnlyTheSocketLives
<1>7. EveryMessageAccountedFor'
  <2>1. /\ Taken' \cup Numbers(pending') \cup lost' = DOMAIN sent'
        /\ Taken' \cap (Numbers(pending') \cup lost') = {}
        /\ Numbers(pending') \cap lost' = {}
    BY <1>1, <1>2, <1>3, <1>4, Accounted
  <2>2. QED BY <2>1, <1>2 DEF EveryMessageAccountedFor, Taken
<1>8. PendingIsNewer'
  BY <1>4 DEF PendingIsNewer, Rising
<1>9. ReceivedRises'
  BY <1>1, <1>2, OrderKept DEF ServerInv, PendingIsNewer, TypeOK
<1>10. QED BY <1>5, <1>6, <1>7, <1>8, <1>9 DEF ServerInv

(* A lost connection, and its report, move no message.                     *)
LEMMA LossStep ==
  ASSUME ServerInv, NEW c \in Clients, ClientLeaves(c) \/ SocketDisconnected(c)
  PROVE  ServerInv'
<1>1. UNCHANGED <<pending, sent, received, lost>>
  BY DEF ClientLeaves, SocketDisconnected
<1>2. TypeOK'
  BY DEF ServerInv, TypeOK, LinkStates, ClientLeaves, SocketDisconnected
<1>3. SocketIsAlive' /\ OnlyTheSocketLives'
  BY DEF ServerInv, TypeOK, SocketIsAlive, OnlyTheSocketLives, ClientLeaves,
         SocketDisconnected
<1>4. socket' # NoClient => socket # NoClient
  BY DEF ClientLeaves, SocketDisconnected
<1>5. EveryMessageAccountedFor' /\ PendingIsNewer' /\ ReceivedRises'
  BY <1>1, <1>4 DEF ServerInv, EveryMessageAccountedFor, PendingIsNewer, ReceivedRises,
                    Rising, Taken
<1>6. QED BY <1>2, <1>3, <1>5 DEF ServerInv

(* The number of a message is that of the last one and one: it is nowhere. *)
LEMMA NextNumber ==
  ASSUME ServerInv, NEW m \in Messages, sent' = Append(sent, m)
  PROVE  /\ Len(sent) + 1 \in Nat \ {0}
         /\ sent' \in Seq(Messages)
         /\ DOMAIN sent' = DOMAIN sent \cup {Len(sent) + 1}
         /\ \A n \in Taken \cup Numbers(pending) \cup lost : n < Len(sent) + 1 /\ n \in Nat
<1>1. sent \in Seq(Messages) /\ Len(sent) \in Nat /\ DOMAIN sent = 1 .. Len(sent)
  BY DEF ServerInv, TypeOK
<1>2. sent' \in Seq(Messages) /\ DOMAIN sent' = 1 .. Len(sent) + 1
  BY <1>1
<1>3. Taken \cup Numbers(pending) \cup lost = 1 .. Len(sent)
  BY <1>1, Accounted DEF ServerInv
<1>4. QED BY <1>1, <1>2, <1>3

(* A message is kept while there is no client, is delivered, or is lost.   *)
LEMMA SendStep ==
  ASSUME ServerInv, NEW m \in Messages, SendMessage(m)
  PROVE  ServerInv'
<1> DEFINE n == Len(sent) + 1
           delivered == socket # NoClient /\ link[socket] = "open"
<1>1. /\ TypeOK /\ SocketIsAlive /\ OnlyTheSocketLives
      /\ PendingIsNewer /\ ReceivedRises
  BY DEF ServerInv
<1>2. /\ Taken \cup Numbers(pending) \cup lost = DOMAIN sent
      /\ Taken \cap (Numbers(pending) \cup lost) = {}
      /\ Numbers(pending) \cap lost = {}
      /\ socket # NoClient => pending = <<>>
  BY Accounted DEF ServerInv
<1>3. /\ sent' = Append(sent, m) /\ UNCHANGED <<socket, link>>
      /\ received' = IF delivered
                     THEN [received EXCEPT ![socket] = Append(@, n)] ELSE received
      /\ lost' = IF socket # NoClient /\ ~delivered THEN lost \cup {n} ELSE lost
      /\ pending' = IF socket = NoClient THEN Append(pending, n) ELSE pending
  BY DEF SendMessage
<1>4. /\ n \in Nat \ {0} /\ sent' \in Seq(Messages)
      /\ DOMAIN sent' = DOMAIN sent \cup {n}
      /\ \A k \in Taken \cup Numbers(pending) \cup lost : k < n /\ k \in Nat
  BY <1>3, NextNumber
<1>5. n \notin Taken \cup Numbers(pending) \cup lost
  BY <1>4
<1> HIDE DEF n
<1>6. SocketIsAlive' /\ OnlyTheSocketLives'
  BY <1>1, <1>3 DEF SocketIsAlive, OnlyTheSocketLives
<1>7. CASE socket = NoClient
  <2>1. /\ UNCHANGED <<received, lost>> /\ pending' = Append(pending, n)
    BY <1>3, <1>7
  <2>2. pending' \in Seq(Nat \ {0}) /\ Numbers(pending') = Numbers(pending) \cup {n}
    BY <2>1, <1>1, <1>4, NumbersOfAppend DEF TypeOK
  <2>3. Taken' = Taken
    BY <2>1 DEF Taken
  <2>4. TypeOK'
    BY <1>1, <1>3, <1>4, <2>1, <2>2 DEF TypeOK
  <2>5. EveryMessageAccountedFor'
    <3>1. /\ Taken' \cup Numbers(pending') \cup lost' = DOMAIN sent'
          /\ Taken' \cap (Numbers(pending') \cup lost') = {}
          /\ Numbers(pending') \cap lost' = {}
      BY <1>2, <1>4, <1>5, <2>1, <2>2, <2>3
    <3>2. QED BY <3>1, <1>3, <1>7 DEF EveryMessageAccountedFor, Taken
  <2>6. PendingIsNewer'
    <3>1. /\ pending \in Seq(Nat \ {0}) /\ Len(pending) \in Nat
          /\ DOMAIN pending = 1 .. Len(pending)
          /\ DOMAIN pending' = 1 .. Len(pending) + 1
          /\ pending'[Len(pending) + 1] = n
          /\ \A i \in DOMAIN pending : pending'[i] = pending[i]
      BY <1>1, <1>4, <2>1 DEF TypeOK
    <3>2. \A i \in DOMAIN pending : pending[i] < n
      BY <1>4 DEF Numbers
    <3>3. \A i, j \in DOMAIN pending' : i < j => pending'[i] < pending'[j]
      BY <1>1, <3>1, <3>2 DEF PendingIsNewer, Rising
    <3>4. \A k \in Taken', l \in Numbers(pending') : k < l
      BY <1>1, <1>4, <2>2, <2>3 DEF PendingIsNewer
    <3>5. QED BY <3>3, <3>4 DEF PendingIsNewer, Rising
  <2>7. ReceivedRises'
    BY <1>1, <2>1 DEF ReceivedRises, Rising
  <2>8. QED BY <1>6, <2>4, <2>5, <2>6, <2>7 DEF ServerInv
<1>8. CASE socket # NoClient
  <2>1. socket \in Clients /\ pending = <<>> /\ pending' = <<>> /\ Numbers(pending) = {}
    BY <1>1, <1>2, <1>3, <1>8 DEF TypeOK, Numbers
  <2>2. /\ received' \in [Clients -> Seq(Nat \ {0})]
        /\ \/ delivered /\ Taken' = Taken \cup {n} /\ lost' = lost
           \/ ~delivered /\ Taken' = Taken /\ lost' = lost \cup {n}
        /\ ReceivedRises'
    <3>1. CASE delivered
      <4>1. /\ received' = [received EXCEPT ![socket] = @ \o <<n>>]
            /\ <<n>> \in Seq(Nat \ {0}) /\ Numbers(<<n>>) = {n}
        <5>1. received[socket] \in Seq(Nat \ {0})
          BY <1>1, <2>1 DEF TypeOK
        <5>2. Append(received[socket], n) = received[socket] \o <<n>>
          BY <5>1, <1>4, NumbersOfAppend
        <5>3. QED BY <5>2, <1>3, <1>4, <3>1 DEF Numbers
      <4>2. \A l \in Taken, k \in Numbers(<<n>>) : l < k
        BY <4>1, <1>4
      <4>3. PICK c \in Clients, ns \in Seq(Nat \ {0}) : c = socket /\ ns = <<n>>
        BY <2>1, <4>1
      <4>4. Rising(ns)
        BY <4>3 DEF Rising
      <4>5. ReceivedRises'
        BY <1>1, <4>1, <4>2, <4>3, <4>4, OrderKept
      <4>6. QED BY <4>1, <4>5, <1>1, <1>3, <2>1, <3>1, TakenGrows
    <3>2. CASE ~delivered
      BY <1>1, <1>3, <1>8, <3>2 DEF TypeOK, Taken, ReceivedRises, Rising
    <3>3. QED BY <3>1, <3>2
  <2>3. TypeOK'
    BY <1>1, <1>3, <1>4, <2>1, <2>2 DEF TypeOK
  <2>4. EveryMessageAccountedFor'
    <3>1. /\ Taken' \cup Numbers(pending') \cup lost' = DOMAIN sent'
          /\ Taken' \cap (Numbers(pending') \cup lost') = {}
          /\ Numbers(pending') \cap lost' = {}
      BY <1>2, <1>4, <1>5, <2>1, <2>2
    <3>2. QED BY <3>1, <2>1 DEF EveryMessageAccountedFor, Taken
  <2>5. PendingIsNewer'
    BY <2>1 DEF PendingIsNewer, Numbers, Rising
  <2>6. QED BY <1>6, <2>2, <2>3, <2>4, <2>5 DEF ServerInv
<1>9. QED BY <1>7, <1>8

(* Every step keeps the invariant.                                         *)
LEMMA ServerStep ==
  ASSUME ServerInv, [Next]_vars
  PROVE  ServerInv'
<1>1. ASSUME NEW c \in Clients, OnNewConnection(c) PROVE ServerInv'
  BY <1>1, ConnectionStep
<1>2. ASSUME NEW c \in Clients, ClientLeaves(c) \/ SocketDisconnected(c) PROVE ServerInv'
  BY <1>2, LossStep
<1>3. CASE WorkerSends
  BY <1>3, SendStep DEF WorkerSends
<1>4. CASE UNCHANGED vars
  BY <1>4 DEF vars, ServerInv, TypeOK, SocketIsAlive, OnlyTheSocketLives,
              EveryMessageAccountedFor, PendingIsNewer, ReceivedRises, Rising, Taken
<1>5. QED BY <1>1, <1>2, <1>3, <1>4 DEF Next

(* The inductive invariant of the control server: where each message is,   *)
(* and who is connected.                                                   *)
THEOREM ServerInvariant == Spec => []ServerInv
<1>1. ServerInv /\ [Next]_vars => ServerInv'
  BY ServerStep
<1>2. QED BY ServerStart, <1>1, PTL DEF Spec

(* The server's variables keep their types.                                *)
THEOREM ServerTypeCorrect == Spec => []TypeOK
<1>1. ServerInv => TypeOK
  BY DEF ServerInv
<1>2. QED BY <1>1, ServerInvariant, PTL

(* m_socket never points to a deleted QWebSocket.                          *)
THEOREM SocketNeverDangles == Spec => []SocketIsAlive
<1>1. ServerInv => SocketIsAlive
  BY DEF ServerInv
<1>2. QED BY <1>1, ServerInvariant, PTL

(* There is one client at a time: whoever is connected, or has left and is *)
(* not yet reported, is the one that messages are written to.              *)
THEOREM OneClientAtATime == Spec => []OnlyTheSocketLives
<1>1. ServerInv => OnlyTheSocketLives
  BY DEF ServerInv
<1>2. QED BY <1>1, ServerInvariant, PTL

(* Each message sent is pending, delivered or lost, and in one place only. *)
THEOREM MessagesAccountedFor == Spec => []EveryMessageAccountedFor
<1>1. ServerInv => EveryMessageAccountedFor
  BY DEF ServerInv
<1>2. QED BY <1>1, ServerInvariant, PTL

--------------------------------------------------------------------------------
(* The server is a relay                                                   *)

(* A client is given messages that rise and that nobody was given before.  *)
LEMMA GivenInOrder ==
  ASSUME TypeOK, TypeOK', NEW c \in Clients, NEW ns \in Seq(Nat \ {0}),
         received' = [received EXCEPT ![c] = @ \o ns],
         Rising(ns),
         \A i \in DOMAIN ns : ns[i] \in 1 .. Len(sent'),
         \A m \in Taken, n \in Numbers(ns) : m < n
  PROVE  Relay!Deliver(c, Relay!NewlyGot(c))
<1>1. received[c] \in Seq(Nat \ {0}) /\ received'[c] = received[c] \o ns
  BY DEF TypeOK
<1>2. Relay!NewlyGot(c) = ns
  BY <1>1, Appended DEF Relay!NewlyGot
<1>3. ASSUME NEW i \in DOMAIN ns, NEW d \in Clients PROVE ~Relay!Given(d, ns[i])
  <2>1. received[d] \in Seq(Nat \ {0}) /\ Numbers(received[d]) \subseteq Taken
    BY DEF TypeOK, Taken
  <2>2. ns[i] \in Nat /\ ns[i] \in Numbers(ns)
    BY DEF Numbers
  <2>3. ASSUME NEW k \in DOMAIN received[d] PROVE received[d][k] < ns[i] /\ received[d][k] \in Nat
    <3>1. received[d][k] \in Taken /\ received[d][k] \in Nat
      BY <2>1 DEF Numbers
    <3>2. QED BY <2>2, <3>1
  <2>4. QED BY <2>2, <2>3 DEF Relay!Given
<1>4. QED BY <1>2, <1>3 DEF Relay!Deliver, Rising

(* Whatever the steps are interleaved with.                                *)
LEMMA RelayStep ==
  ASSUME ServerInv, ServerInv',
         \/ \E c \in Clients :
              OnNewConnection(c) \/ ClientLeaves(c) \/ SocketDisconnected(c)
         \/ \E m \in Messages : SendMessage(m)
         \/ UNCHANGED vars
  PROVE  [Relay!Next]_(Relay!vars)
<1>1. TypeOK /\ TypeOK' /\ PendingIsNewer
  BY DEF ServerInv
<1>2. /\ DOMAIN sent = 1 .. Len(sent) /\ Len(sent) \in Nat
      /\ Numbers(pending) \subseteq DOMAIN sent
  BY Accounted DEF ServerInv, TypeOK
<1>3. ASSUME NEW c \in Clients, OnNewConnection(c) PROVE Relay!Next
  <2>1. received' = [received EXCEPT ![c] = @ \o pending] /\ sent' = sent
    BY <1>3 DEF OnNewConnection, Flushed
  <2>2. \A i \in DOMAIN pending : pending[i] \in 1 .. Len(sent')
    BY <1>2, <2>1 DEF Numbers
  <2>3. pending \in Seq(Nat \ {0})
    BY <1>1 DEF TypeOK
  <2>4. Relay!Deliver(c, Relay!NewlyGot(c))
    BY <1>1, <2>1, <2>2, <2>3, GivenInOrder DEF PendingIsNewer
  <2>5. QED BY <2>1, <2>4 DEF Relay!Next
<1>4. ASSUME NEW c \in Clients, ClientLeaves(c) \/ SocketDisconnected(c)
      PROVE  UNCHANGED Relay!vars
  BY <1>4 DEF ClientLeaves, SocketDisconnected, Relay!vars
<1>5. ASSUME NEW m \in Messages, SendMessage(m) PROVE Relay!Next
  <2> DEFINE n == Len(sent) + 1
             delivered == socket # NoClient /\ link[socket] = "open"
  <2>1. /\ sent' = Append(sent, m)
        /\ received' = IF delivered
                       THEN [received EXCEPT ![socket] = Append(@, n)] ELSE received
    BY <1>5 DEF SendMessage
  <2>2. Len(sent') = n
    BY <2>1, <1>1 DEF TypeOK
  <2>3. CASE ~delivered
    BY <2>1, <2>2, <2>3 DEF Relay!Next, Relay!Send
  <2>4. CASE delivered
    <3>1. socket \in Clients /\ received[socket] \in Seq(Nat \ {0}) /\ n \in Nat \ {0}
      BY <1>1, <1>2, <2>4 DEF TypeOK
    <3>2. Append(received[socket], n) = received[socket] \o <<n>>
      BY <3>1, NumbersOfAppend
    <3>3. received' = [received EXCEPT ![socket] = @ \o <<n>>]
      BY <2>1, <2>4, <3>2
    <3>4. PICK c \in Clients, k \in Nat \ {0} : c = socket /\ k = n
      BY <3>1
    <3>5. /\ <<k>> \in Seq(Nat \ {0}) /\ Numbers(<<k>>) = {k}
          /\ \A i \in DOMAIN <<k>> : <<k>>[i] = k
          /\ Rising(<<k>>)
      BY DEF Numbers, Rising
    <3>6. /\ \A l \in Taken : l < k
          /\ k \in 1 .. Len(sent')
      BY <2>1, <2>2, <3>1, <3>4, NextNumber
    <3>7. received' = [received EXCEPT ![c] = @ \o <<k>>]
      BY <3>3, <3>4
    <3>8. Relay!Deliver(c, Relay!NewlyGot(c))
      BY <1>1, <3>5, <3>6, <3>7, GivenInOrder
    <3>9. QED BY <2>2, <3>8 DEF Relay!Next
  <2>5. QED BY <2>3, <2>4
<1>6. CASE UNCHANGED vars
  BY <1>6 DEF vars, Relay!vars
<1>7. QED BY <1>3, <1>4, <1>5, <1>6

(* The clients get the messages in the order they were sent, and none of   *)
(* them more than one client.                                              *)
THEOREM ServerImplementsRelay == Spec => ImplementsRelay
<1>1. Init => Relay!Init
  BY DEF Init, Relay!Init
<1>2. ServerInv /\ ServerInv' /\ [Next]_vars => [Relay!Next]_(Relay!vars)
  BY RelayStep DEF Next, WorkerSends
<1>3. QED BY <1>1, <1>2, ServerInvariant, PTL DEF Spec, ImplementsRelay, Relay!Spec
================================================================================
