SPECIFICATION InputSpec
CONSTANTS
  tgt1 = tgt1
  tgt2 = tgt2
  key = key
  Target <- TwoTargets
  Key <- OneKey
  Me = Me
  Other = Other
  None = None
  Flaky <- OneTarget
  MaxPresses = 1
  MaxRequests = 2
  MaxMeddling = 1
  Screen <- MCScreen
  Own <- MCOwn
  Rect <- MCRect
  Desk <- MCDesk
  Beside <- MCBeside
  First = "b2"
  Primary = "b1"
  Parking <- MCParking
  Moves <- MCMoves
  Ttl <- MCTtl
  Grace = 1
  Delay = 1
  MaxMoves = 1
  MaxMarks = 2
  MaxQueue = 2
INVARIANT TypeOK
INVARIANT SinkReleases
INVARIANT OnlyHeldKeysDown
INVARIANT PointerOnItsScreen
INVARIANT OverrideIsWanted
PROPERTY ThereAndBack
CHECK_DEADLOCK FALSE
