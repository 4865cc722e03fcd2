SPECIFICATION TransferSpec
CONSTANTS
  Upload = {"u1"}
  Removal = {}
  Job = {"u0", "u1", "u2", "u3", "u4", "rm"}
  Path = {"pa", "pb"}
  AllowedPath = {"pa", "pb"}
  Environments <- MCPowerCut
  Target <- MCTarget
  Image <- MCImage
  HostChunk = 1
  MaxFile = 2
  MaxChunk = 1
  NoFile = NoFile
  InProgress = InProgress
  Undecodable = Undecodable
  Byte <- MCByte
  Crc <- MCCrc
  Size = {1, 2}
  Checksum = {0, 1}
  SeqNo = {0, 1}
  ChunkData <- MCChunkData
  ChunkSize = {1}
  Preloaded <- MCPreloaded
INVARIANTS PowerCutSafe

CHECK_DEADLOCK FALSE
