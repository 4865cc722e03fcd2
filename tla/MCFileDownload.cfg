SPECIFICATION FairDownloadSpec
CONSTANTS
  Download = {"d1"}
  Source <- MCSource
  GetChunk = 0
  Job = {"d1", "u1", "u2"}
  Path = {"pa"}
  AllowedPath = {"pa"}
  MaxFile = 3
  MaxChunk = 2
  NoFile = NoFile
  InProgress = InProgress
  Undecodable = Undecodable
  Byte <- MCByte
  Crc <- MCCrc
  Size = {3}
  Checksum <- MCChecksum
  SeqNo = {0, 1}
  ChunkData <- MCChunkData
  ChunkSize = {0}
  Preloaded <- MCPreloaded
INVARIANTS DownloadExact DownloadWhole
PROPERTIES ReadIsDelivered

