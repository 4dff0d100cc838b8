SPECIFICATION Spec
CONSTANTS
  c = c
  p = p
  q = q
  Coord = c
  Peer <- Peers
  Request <- Requests
  MaxAsked = 2
  MaxBreaks = 1
INVARIANT OutcomeReachesRequester
CHECK_DEADLOCK FALSE
