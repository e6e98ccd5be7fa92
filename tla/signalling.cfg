\* Two connections, one after or over the other, with two requests each.
SPECIFICATION Spec
CONSTANTS
  Clients = {c1, c2}
  NoClient = NoClient
  WiredFirst = TRUE
  OfferMayFail = TRUE
  MaxRequests = 2
  MaxCandidates = 1
INVARIANTS
  TypeOK
  ConnectionIsThere
  GenerationsInOrder
  NothingMissed
  SentAsOftenAsAsked
PROPERTIES
  DescriptionArrives
\* The clients may have made all their requests.
CHECK_DEADLOCK FALSE
