\* Three connections, four messages; the clients are not interchangeable
\* for the liveness property, so no symmetry is used.
SPECIFICATION Spec
CONSTANTS
  Clients = {c1, c2, c3}
  NoClient = NoClient
  Messages = {m}
  MaxSent = 4
INVARIANTS
  TypeOK
  SocketIsAlive
  EveryMessageAccountedFor
PROPERTIES
  ImplementsRelay
  LeftClientIsReleased
\* The connections and the messages may all have been used.
CHECK_DEADLOCK FALSE
