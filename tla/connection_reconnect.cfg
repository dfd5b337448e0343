SPECIFICATION FairSpec
CONSTANTS
  c1 = c1
  c2 = c2
  c3 = c3
  home = home
  office = office
  NoClient = NoClient
  Clients = {c1, c2, c3}
  Profiles = {home, office}
  AutoReconnect = {home, office}
  Locked = {home}
  OldServers = {}
  SavedAtStart <- RightSaved
  Commands = {"connect", "switch"}
  PatientUser = TRUE
  MaxRequests = 2
  MaxQueue = 3
  MaxDepth = 2
  MaxModal = 2
  MaxCrashes = 2
CHECK_DEADLOCK FALSE
PROPERTIES
  Reconnects
  StoppedThreadLeaves
