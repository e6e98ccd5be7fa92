------------------------------ MODULE MessageRelay ------------------------------
(***************************************************************************)
(* What a control server promises to those who call sendMessage: messages, *)
(* numbered as they are sent, reach the clients in that order, and each of *)
(* them at most one client.  Messages may be lost, with their client.      *)
(***************************************************************************)
EXTENDS Integers, Sequences

CONSTANT Clients

VARIABLES
  count,   \* how many messages have been sent
  got      \* got[c]: the numbers of the messages client c was given

vars == <<count, got>>

Init ==
  /\ count = 0
  /\ got = [c \in Clients |-> <<>>]

Given(c, n) == \E i \in DOMAIN got[c] : got[c][i] >= n

Send ==
  /\ count' = count + 1
  /\ UNCHANGED got

(* A client is given the messages ns: rising, and above all those that any *)
(* client was given before.                                                *)
Deliver(c, ns) ==
  /\ got' = [got EXCEPT ![c] = @ \o ns]
  /\ \A i, j \in DOMAIN ns : i < j => ns[i] < ns[j]
  /\ \A i \in DOMAIN ns : ns[i] \in 1 .. count' /\ \A d \in Clients : ~Given(d, ns[i])

NewlyGot(c) == SubSeq(got'[c], Len(got[c]) + 1, Len(got'[c]))

Next ==
  \/ Send
  \/ \E c \in Clients : Deliver(c, NewlyGot(c)) /\ count' \in {count, count + 1}

Spec == Init /\ [][Next]_vars
================================================================================
