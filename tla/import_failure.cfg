SPECIFICATION FairSpec
CONSTANTS
  home = home
  office = office
  s1 = s1
  s2 = s2
  None = None
  Profiles = {home}
  DefaultProfile = home
  Songs = {s1}
  IdleServers = {home}
  Limits <- FailureAndUpdates
INVARIANT
  IdentifierIsTruthful
PROPERTIES
  Converges
  WindowComesBack
CHECK_DEADLOCK FALSE
