SPECIFICATION Spec
CONSTANTS
  c1 = c1
  c2 = c2
  c3 = c3
  home = home
  office = office
  NoClient = NoClient
  Clients = {c1}
  Profiles = {home}
  AutoReconnect = {home}
  Locked = {home}
  OldServers = {}
  SavedAtStart <- NothingSaved
  Commands = {"connect", "disconnect"}
  PatientUser = FALSE
  MaxRequests = 2
  MaxQueue = 2
  MaxDepth = 2
  MaxModal = 3
  MaxCrashes = 1
INVARIANTS
  ConnectionIsMonitored
  AnnouncedMeansPolled
  DisableOnceIsPending
