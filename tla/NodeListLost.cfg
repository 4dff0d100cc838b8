SPECIFICATION Spec
CONSTANTS
  coord = coord
  peer1 = peer1
  peer2 = peer2
  Coord = coord
  Peers <- TwoPeers
  Editor <- TwoPeers
  Failing = {}
  MaxEdits = 2
PROPERTY AcceptedEditsKept
CHECK_DEADLOCK FALSE
