SPECIFICATION ScreenSpec
CONSTANTS
  n1 = n1
  n2 = n2
  n3 = n3
  None = None
  Node <- Nodes
  Coord = n1
  Editor <- Users
  Place <- Places
  Cell <- Cells
  Home <- SideBySide
  Snapshots <- Desktops
  Solo = "1"
PROPERTY MapEditSaved
CHECK_DEADLOCK FALSE
