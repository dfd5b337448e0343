SPECIFICATION Spec
CONSTANTS
  s1 = s1
  s2 = s2
  s3 = s3
  None = None
  Songs = {s1, s2, s3}
  AtStart <- TwoSongs
  Searches <- SearchRest
  Limits <- OneCommand
INVARIANT SelectedAfterReplace
CHECK_DEADLOCK FALSE
