SPECIFICATION Spec
CONSTANTS
  home = home
  office = office
  s1 = s1
  s2 = s2
  None = None
  Profiles = {home, office}
  DefaultProfile = home
  Songs = {s1}
  IdleServers = {home, office}
  Limits <- Switches
INVARIANT
  BackupOutlivesClear
CHECK_DEADLOCK FALSE
