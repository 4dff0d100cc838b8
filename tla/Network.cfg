SPECIFICATION NetworkSpec
CONSTANTS
  n1 = n1
  n2 = n2
  n3 = n3
  None = None
  A = n1
  B = n2
  Slot = {1, 2}
  MaxEvents = 1
  GroupPeer <- MCGroupPeer
  GroupRank <- MCGroupRank
  UpdateKey = {"v2", "check"}
  UpdateRequest = {1, 2}
  MaxGroupBreaks = 1
  MaxJobs = 2
  Share = {1}
  Transfer = {1, 2, 3}
  MaxTickets = 5
  EditPeer <- MCEditPeer
  MaxEdits = 3
  Ctl = "ctl"
  Tgt = "tgt"
  MaxChanges = 3
INVARIANTS
  NetworkTypeOK
  OneConnection
  EndsAgree
  JobsInOrder
  OneTransfer
  
  LetInByOffice
PROPERTIES
  GetConnected
  RequestsEnd
  Answered
  EveryoneServed
  EditAnswered
  LeaseFollows
  LeasesFreed
CHECK_DEADLOCK FALSE
