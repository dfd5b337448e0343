SPECIFICATION Spec
CONSTANTS
  plus = plus
  minus = minus
  None = None
  Compilation = Compilation
  Unknown = Unknown
  NoName = NoName
  NoKey = NoKey
  FilePlans <- Plans
  MaxFiles = 5
  Catalogs <- TwoCatalogs
  Matching <- TokenMatches
  LibrarySearches <- TwoSearches
  MaxSelected <- RowsSelected
  MaxGen = 1
  Names = {1, 2}
  MaxVersion = 1
  MaxFileRequests = 1
  MaxPosted = 1
  MaxVolume = 1
  Volumes = {0, 1}
  MaxCommands = 2
  MaxNotices = 1
  Times = {1, 2}
  Positions = {1, 2}
  MaxRequests = 2
  MaxResets = 2
  VolumeKeys = {plus, minus}
  MaxPresses = 3
  Albums = {"X", "Y"}
  NoAlbum = NoAlbum
  MaxSongs = 5
  NoSkip = NoSkip
INVARIANTS
  TypeOK
  DetectorFindsCompilations
  ColumnsFollowSelection
  DragCarriesPlaylist
  TableComesBack
  ListFollowsOwnChanges
  ControlsFollowPlayer
  SeekArrives
  HoldOnlyWhileDown
  EveryPressActsOnce
  NextUndoesPrevious
PROPERTIES
  MarksOnlyChosen
  SelectionSurvives
CHECK_DEADLOCK FALSE
