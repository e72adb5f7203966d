SPECIFICATION FairSpec
CONSTANTS
  Photo = Photo
  Song = Song
  Face = Face
  Transfers = {Photo, Song, Face}
  Kind <- TwoFiles
  Base <- LowBases
  Parts <- SongInTwo
  Chunks = 2
  SignBit = 64
  StaleIds = {0, 1}
  MaxWire = 2
  MaxOpen = 2
INVARIANTS
  TypeOK
  EntriesFollowTheirTransfer
  FilesAreWhole
PROPERTIES
  EndsOnce
  AcceptedEnds
\* The peer may have nothing more to send.
CHECK_DEADLOCK FALSE
