---------------------------- MODULE MCFileDownload ----------------------------
(* FileDownload for TLC: a download of a path that two other controllers        *)
(* overwrite meanwhile, files of up to three bytes in chunks of two.            *)
EXTENDS FileDownload

\* Without collisions on files of up to three bytes; 0 for the empty file only.
MCCrc(s) == FoldLeft(LAMBDA c, b : 3 * c + b, 0, s)

MCByte == 1..2
MCChunkData == {<<1>>, <<2>>, <<2, 1>>}
MCPreloaded == {<<1, 2, 2>>, <<1, 2, 2, 1>>}
MCSource == [j \in Download |-> "pa"]
MCChecksum == {MCCrc(<<2, 1, 1>>), MCCrc(<<1, 2, 1>>)}
=============================================================================
