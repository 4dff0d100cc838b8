SPECIFICATION FairPromptSpec
CONSTANTS
  ctl1 = ctl1
  ctl2 = ctl2
  tgt1 = tgt1
  tgt2 = tgt2
  None = None
  Peer <- All
  Controls <- AllAsk
  Flaky = {}
  Ttl = 1
  MaxTodo = 0
  Quitters = {}
  Touched = {}
  MaxUp = 1
  MaxDown = 1
PROPERTY OneControllerRemains
PROPERTY PendingDecided
CHECK_DEADLOCK FALSE
