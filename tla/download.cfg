SPECIFICATION FairSpec
CONSTANTS
  c1 = c1  c2 = c2  c3 = c3  g1 = g1  g2 = g2
  Chunk = {c1, c2, c3}
  Goroutine = {g1, g2}
  MaxRetries = 1
  MaxFaults = 3
  ExpectSHA256 = TRUE
  NoFile = NoFile  NoChunk = NoChunk  NoOne = NoOne
INVARIANTS TypeOK DestIsRight RecordedIsWhole NobodyBlocks
PROPERTIES RecordsAreKept CallReturns EventuallyDownloaded
