SPECIFICATION FairSpec
CONSTANTS
  Block <- MCBlock
  Crc <- MCCrc
  Sha <- MCSha
  Bootable <- MCBootable
  Torn = Torn
  NoSha = NoSha
  Capacity = 2
  MaxRedirect = 2
  Shipped <- MCShipped
  RebootAfterUpdate = FALSE
  Checksum = {0, 1, 2}
  Digest <- MCDigest
  Size = {0, 1, 2, 3}
  Read <- MCRead
INVARIANTS TypeOK UpdateReleased
PROPERTIES ImplementsFirmwareStore UrlOkMeansVerified EveryUpdateEnds
