SPECIFICATION Spec
CONSTANTS
  tgt1 = tgt1
  tgt2 = tgt2
  key = key
  Target <- OneTarget
  Key <- OneKey
  Me = Me
  Other = Other
  None = None
  Flaky = {}
  MaxPresses = 1
  MaxRequests = 2
  MaxMeddling = 0
INVARIANT LeftTargetReleased
CHECK_DEADLOCK FALSE
