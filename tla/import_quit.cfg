SPECIFICATION Spec
CONSTANTS
  home = home
  office = office
  s1 = s1
  s2 = s2
  None = None
  Profiles = {home}
  DefaultProfile = home
  Songs = {s1, s2}
  IdleServers = {home}
  Limits <- Quits
INVARIANTS
  TypeOK
  CompilationsSurvive
SYMMETRY SongSymmetry
CHECK_DEADLOCK FALSE
