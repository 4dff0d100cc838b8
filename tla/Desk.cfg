SPECIFICATION DeskSpec
CONSTANTS
  n1 = n1
  n2 = n2
  n3 = n3
  loop = loop
  window = window
  None = None
  Node <- MCNode
  Self = n2
  Picker <- MCPicker
  Rank <- MCRank
  Grace = 1
  HoldDown = 2
  Coord = n1
  MaxEdits = 2
  Button <- MCButton
  MaxClicks = 1
  MaxBreaks = 2
  Caller <- MCCaller
  Calls <- MCCalls
  MaxCalls = 3
  MaxFails = 1
  Drawer <- MCDrawer
  Place <- MCPlace
  Cell <- MCCell
  Home <- MCHome
  Snapshots <- MCSnapshots
  Solo = "1"
INVARIANTS
  DeskTypeOK
  ChallengerTracked
  
  SameEdges
PROPERTIES
  NoHastyHandoff
  SettlesOnBest
  ListsMoveOn
  EditSettled
  UpdateReported
  PageGetsFree
CHECK_DEADLOCK FALSE
