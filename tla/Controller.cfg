SPECIFICATION ControllerSpec
CONSTANTS
  ctl = ctl
  tgt = tgt
  None = None
  Groups = {{"ctrl"}, {"alt"}}
  Trigger = "q"
  Other = {"x"}
  Row <- MCRow
  NodeOf <- MCNodeOf
  Logical = {}
  Self = "a"
INVARIANTS
  ControllerTypeOK
  ModifiersAccounted
  ClipOnlyWhileHeld
  CursorFollowsRouter
PROPERTIES
  LeaseOrStop
  CursorComesBack
CHECK_DEADLOCK FALSE
