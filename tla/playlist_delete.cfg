SPECIFICATION FilesSpec
CONSTANTS
  NoName = NoName
  Names = {1, 2, 3}
  MaxVersion = 0
  MaxFileRequests = 2
  MaxPosted = 1
CHECK_DEADLOCK FALSE
PROPERTY DeletesAsAsked
