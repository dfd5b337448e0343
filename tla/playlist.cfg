SPECIFICATION FairSpec
CONSTANTS
  s1 = s1
  s2 = s2
  s3 = s3
  None = None
  Songs = {s1, s2, s3}
  AtStart <- TwoSongs
  Searches <- SearchRest
  Limits <- AnyTwo
INVARIANTS
  TypeOK
  ListFollows
  FilterFollows
  MarkerFollows
  SelectedAfterConnect
  NoListWhenLost
PROPERTIES
  RemovesOnlyChosen
  PlaylistConverges
CHECK_DEADLOCK FALSE
