\* A client may connect before the worker has made the handler.
SPECIFICATION Spec
CONSTANTS
  Clients = {c1}
  NoClient = NoClient
  WiredFirst = FALSE
  OfferMayFail = FALSE
  MaxRequests = 1
  MaxCandidates = 0
INVARIANTS
  ConnectionIsThere
\* The clients may have made all their requests.
CHECK_DEADLOCK FALSE
