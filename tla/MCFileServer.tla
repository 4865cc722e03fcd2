----------------------------- MODULE MCFileServer -----------------------------
(* FileServer for TLC: two jobs, one protected path among three, files of at  *)
(* most two bytes sent in chunks of one or two.                               *)
EXTENDS FileServer

\* A weak checksum: it collides, and it is 0 for some contents, as CRC-32 is.
RECURSIVE Sum(_)
Sum(s) == IF s = <<>> THEN 0 ELSE Head(s) + Sum(Tail(s))

MCCrc(s) == Sum(s) % 3

MCByte == 1..2
MCChunkData == {<<>>, <<1>>, <<2>>, <<1, 2>>, <<1, 1, 1>>, Undecodable}
MCPreloaded == {<<1>>, <<2, 1, 2>>}
=============================================================================
