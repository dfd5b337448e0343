SPECIFICATION Spec
CONSTANTS
  home = home
  office = office
  s1 = s1
  s2 = s2
  None = None
  Profiles = {home}
  DefaultProfile = home
  Songs = {s1}
  IdleServers = {home}
  Limits <- UpdateAndQuit
INVARIANT
  ShownMeansImported
CHECK_DEADLOCK FALSE
