SPECIFICATION FairSpec
CONSTANTS
  photo = photo
  document = document
  sticker = sticker
  deleted = deleted
  stray = stray
  dc1 = dc1
  dc2 = dc2
  dc9 = dc9
  NoFile = noFile
  noFile = noFile
  Files <- MCFiles
  Main = dc1
  Others = {dc2}
  Dc <- MCDc
  Size <- MCSize
  Declared <- MCDeclared
  Missing = {deleted}
  ChunkSize = 4
  Unit = 2
  MaxLosses = 2
INVARIANTS TypeOK WrittenExactly OneTransfer
PROPERTIES DownloadsEnd
CHECK_DEADLOCK FALSE
