SPECIFICATION Spec
CONSTANTS
  Job = {j1, j2}
  Path = {pa, pb}
  AllowedPath = {pa}
  NoFile = NoFile
  InProgress = InProgress
  Undecodable = Undecodable
  MaxFile = 2
  MaxChunk = 2
  Byte <- MCByte
  Crc <- MCCrc
  Size = {0, 1, 2, 3}
  Checksum = {0, 1, 2}
  SeqNo = {0, 1, 2}
  ChunkData <- MCChunkData
  ChunkSize = {0, 1, 3}
  Preloaded <- MCPreloaded
INVARIANTS TypeOK TransferInv
PROPERTIES ImplementsFileStore EveryTransferAnswered ProtectedUntouched
