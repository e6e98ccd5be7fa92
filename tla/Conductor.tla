------------------------------- MODULE Conductor -------------------------------
(***************************************************************************)
(* Conductor (webrtc/conductor.cpp): the owner of the WebRTC peer          *)
(* connection.  All of it runs on the worker thread, which is the library's*)
(* signalling thread too, so a call is a function of the conductor's       *)
(* state.  Peer connections are numbered as they are made.                 *)
(*                                                                         *)
(* The library is external: CreatePeerConnection succeeds (the Q_ASSERT on *)
(* it ends the process otherwise), an offer that is being made for a       *)
(* released connection is dropped, and SetLocalDescription has succeeded   *)
(* or failed by the time that somebody asks for the description.           *)
(***************************************************************************)
EXTENDS Integers

None == 0   \* no peer connection: m_peer_connection is NULL

Start == [
  connection |-> None,    \* m_peer_connection
  made       |-> 0,       \* history: the connections made so far
  stream     |-> FALSE,   \* m_stream is set
  offering   |-> FALSE,   \* CreateOffer is under way for the connection
  described  |-> FALSE,   \* the connection has its local description
  candidates |-> 0,       \* the candidates in the local description
  failed     |-> FALSE]   \* a Q_ASSERT failed, or NULL was dereferenced

(* Mutation: m_stream is not released with the connection.                 *)
ClosedKeepingStream(s) ==
  [s EXCEPT !.connection = None, !.offering = FALSE, !.described = FALSE,
            !.candidates = 0]

(* close: what belongs to the connection goes with it.                     *)
Closed(s) ==
  [s EXCEPT !.connection = None, !.stream = FALSE, !.offering = FALSE,
            !.described = FALSE, !.candidates = 0]

(* open: a connection that is there is kept; a new one gets a stream, of   *)
(* which there must be none (Q_ASSERT in addStreams), and makes an offer.  *)
Opened(s) ==
  IF s.connection # None THEN s
  ELSE [s EXCEPT !.connection = s.made + 1, !.made = @ + 1, !.stream = TRUE,
                 !.offering = TRUE, !.failed = @ \/ s.stream]

(* localDescription, setRemoteDescription and addRemoteIceCandidate call   *)
(* the connection without looking whether there is one.                    *)
Used(s) == [s EXCEPT !.failed = @ \/ s.connection = None]

(* OnSuccess: the offer becomes the local description.                     *)
Described(s) == [Used(s) EXCEPT !.offering = FALSE, !.described = TRUE]

(* Or SetLocalDescription fails, of which the observer only warns.         *)
DescribedInVain(s) == [Used(s) EXCEPT !.offering = FALSE]

(* OnFailure: nothing else is tried.                                       *)
OfferFailed(s) == [s EXCEPT !.offering = FALSE]

(* The library adds the candidate to the local description.                *)
Gathered(s) == [s EXCEPT !.candidates = @ + 1]
================================================================================
