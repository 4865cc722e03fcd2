---------------------------- MODULE MCFileTransfer ----------------------------
(* FileTransfer for TLC.  Jobs and paths are strings, so that Target and Image *)
(* can be written as records.  u1, u3 and u4 name the same path; u0 is an    *)
(* image whose checksum is 0, which the device refuses and the WebUI does not. *)
EXTENDS FileTransfer

\* A checksum without collisions on the images below; it is 0 for <<2>>.
MCCrc(s) == IF s = <<2>> THEN 0 ELSE Len(s) + (IF s = <<>> THEN 0 ELSE 10 * s[1])
                                      + (IF Len(s) < 2 THEN 0 ELSE 100 * s[2])
MCByte == 1..3
MCPreloaded == {<<3>>}
MCChunkData == {<<1>>, <<2>>, <<3>>}

Paths == [u0 |-> "pa", u1 |-> "pa", u2 |-> "pb", u3 |-> "pa", u4 |-> "pa", rm |-> "pa"]
Images == [u0 |-> <<2>>, u1 |-> <<1, 2>>, u2 |-> <<2, 1>>, u3 |-> <<1, 3>>, u4 |-> <<1>>]

MCTarget == [j \in Upload \cup Removal |-> Paths[j]]
MCImage == [j \in Upload |-> Images[j]]

\* Prompt connections and a sound device, with uploads of two paths and a delete.
Calm == [uploads |-> {"u0", "u1", "u2"}, removals |-> {"rm"},
         lossy |-> FALSE, flashFails |-> FALSE, powerFails |-> FALSE]
\* Three uploads that supersede one another, two of them of the same path.
Rivals == [Calm EXCEPT !.uploads = {"u1", "u2", "u3"}, !.removals = {}]
\* Messages are lost and writes fail, with two uploads of the same path.
Lossy == [uploads |-> {"u1", "u3"}, removals |-> {},
          lossy |-> TRUE, flashFails |-> TRUE, powerFails |-> FALSE]
\* Everything fails; one of the two uploads has a single chunk.
Rough == [Lossy EXCEPT !.uploads = {"u1", "u4"}, !.powerFails = TRUE]
\* One upload and losses of power.
PowerCut == [Rivals EXCEPT !.uploads = {"u1"}, !.powerFails = TRUE]

MCEnvironments == {Calm, Rivals, Lossy, Rough}
MCPowerCut == {PowerCut}
=============================================================================
