SPECIFICATION MemberSpec
CONSTANTS
  ctl1 = ctl1
  ctl2 = ctl2
  tgt = tgt
  None = None
  Peer <- MCPeer
  Controls <- MCControls
  Flaky <- MCFlaky
  Ttl = 1
  MaxTodo = 1
  Ip4 <- MCIp4
  Home = "a"
  Locals <- MCLocals
  MaxRetries = 1
  MaxMoves = 2
  MaxEdits = 2
  MaxBreaks = 1
  MaxFails = 1
SYMMETRY MCSymmetry
INVARIANT AddressFollows
PROPERTY ImplementsLeaseTable
CHECK_DEADLOCK FALSE
