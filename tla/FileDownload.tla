----------------------------- MODULE FileDownload -----------------------------
(***************************************************************************)
(* Downloads end to end: get_mqtt jobs of the WebUI, the chunks and the    *)
(* result the device publishes without acknowledgement, the connection     *)
(* that may lose them, and the assembly in                                 *)
(* AppState._record_file_transfer_unlocked.  Meanwhile other controllers   *)
(* upload to the same paths, and the device may lose its power.            *)
(***************************************************************************)
EXTENDS FileServer, SequencesExt

CONSTANTS
  Download,   \* the get_mqtt jobs of the WebUI
  Source,     \* Source[j]: the path job j names
  GetChunk    \* chunk_size of the jobs

ASSUME DownloadAssumption ==
  Download \subseteq Job /\ Source \in [Download -> Path] /\ GetChunk \in Nat

VARIABLES
  lossy,      \* the connections may lose messages and the device its power; it
              \* never changes
  asked,      \* jobs on their way to the device
  uplink,     \* messages on their way from the device
  entry,      \* file_downloads[j]: chunks by sequence number, status
  read,       \* history: what the device read for job j
  cut,        \* history: cut[p] is what the device had of an upload to p that a
              \* loss of power broke off, NoFile once its file is gone or rewritten
  part        \* history: part[j] is Part(p) when the device read p for job j

downloadVars == <<lossy, asked, uplink, entry, read, cut, part>>

\* What the device has, or had, of an upload to p that is not complete; NoFile if
\* the file at p is none.
Part(p) == IF incoming.active /\ incoming.path = p THEN incoming.received ELSE cut[p]

NoChunks == [s \in {} |-> <<>>]

DownloadInit ==
  /\ Init
  /\ lossy \in BOOLEAN
  /\ asked = <<>> /\ uplink = <<>>
  /\ entry = [j \in Download |-> [chunks |-> NoChunks, data |-> <<>>, status |-> "unasked"]]
  /\ read = [j \in Download |-> {}]
  /\ cut = [p \in Path |-> NoFile]
  /\ part = [j \in Download |-> NoFile]

\* POST /api/files/download: the entry exists before the job is published.
RequestDownload(j) ==
  /\ entry[j].status = "unasked"
  /\ entry' = [entry EXCEPT ![j].status = "open"]
  /\ asked' = Append(asked, j)
  /\ UNCHANGED <<vars, lossy, uplink, read, cut, part>>

\* The device runs sendMqttFile to its end before anything else.
Serve ==
  /\ asked # <<>>
  /\ LET j == Head(asked)
         p == Source[Head(asked)]
     IN  /\ \/ GetFails(j, p, GetChunk) \/ GetTooLarge(j, p, GetChunk)
            \/ GetSent(j, p, GetChunk) \/ GetInterrupted(j, p, GetChunk)
         /\ read' = [read EXCEPT ![j] =
                       IF out'[Len(out')].status = "ok" THEN {out'[Len(out')].image} ELSE {}]
         /\ part' = [part EXCEPT ![j] = Part(p)]
  /\ asked' = Tail(asked)
  /\ uplink' = uplink \o out'
  /\ UNCHANGED <<lossy, entry, cut>>

\* A file that is removed, or rewritten from its first byte, is no broken-off one.
StillCut ==
  [p \in Path |-> IF fs'[p] = NoFile \/ (incoming'.active /\ incoming'.path = p)
                    THEN NoFile ELSE cut[p]]

\* Other controllers use the file service; their answers are not followed here.
OtherJob ==
  /\ \E j \in Job \ Download, p \in Path :
       \/ \E size \in Size, crc \in Checksum :
            PutBegun(j, p, size, crc) \/ PutOpenFails(j, p, size, crc)
       \/ \E s \in SeqNo, d \in ChunkData :
            \/ ChunkWritten(j, s, d) \/ LastChunkWritten(j, s, d)
            \/ ChunkRefused(j, s, d) \/ ChunkWriteFails(j, s, d)
       \/ Deleted(j, p)
  /\ cut' = StillCut
  /\ UNCHANGED <<lossy, asked, uplink, entry, read, part>>

\* The device restarts with the file as the flash has it.  What the connection
\* loses with the device is LoseMessage.
PowerCut ==
  /\ lossy
  /\ \/ /\ PowerLoss
        /\ cut' = IF incoming.active THEN [cut EXCEPT ![incoming.path] = incoming.received]
                                     ELSE cut
     \/ \E j \in Job \ Download, s \in SeqNo, d \in ChunkData :
          /\ PowerLossAfterAck(j, s, d)
          /\ cut' = [cut EXCEPT ![incoming.path] = Extended(d).received]
  /\ UNCHANGED <<lossy, asked, uplink, entry, read, part>>

\* A message in the middle is lost when those before it have arrived.
LoseMessage ==
  /\ lossy
  /\ \/ uplink # <<>> /\ uplink' = Tail(uplink) /\ asked' = asked
     \/ asked # <<>> /\ asked' = Tail(asked) /\ uplink' = uplink
  /\ UNCHANGED <<vars, lossy, entry, read, cut, part>>

\* The chunks joined in the order of their sequence numbers.
Joined(chunks) ==
  LET seqs == SetToSortSeq(DOMAIN chunks, <)
  IN  FlattenSeq([i \in 1..Len(seqs) |-> chunks[seqs[i]]])

\* (Mutant: the file is marked ok without a checksum.)
MutAssembled(e, result) == [e EXCEPT !.data = Joined(e.chunks), !.status = "ok"]

\* The file is written whatever the checksum; the status says whether it matches.
Assembled(e, result) ==
  [e EXCEPT !.data = Joined(e.chunks),
            !.status = IF Crc(Joined(e.chunks)) = Crc(result.image) THEN "ok"
                                                                     ELSE "crc_mismatch"]

\* (Mutant: each chunk starts the entry anew.)
MutWithChunk(e, m) == [e EXCEPT !.chunks = [s \in {m.seq} |-> m.data]]

WithChunk(e, m) ==
  [e EXCEPT !.chunks = [s \in DOMAIN @ \cup {m.seq} |-> IF s = m.seq THEN m.data ELSE @[s]]]

\* Only a result "ok" completes an entry; a failed job leaves it open.
Recorded(m) ==
  IF m.topic = "fs/data" THEN [entry EXCEPT ![m.job] = WithChunk(@, m)]
  ELSE IF m.status = "ok" THEN [entry EXCEPT ![m.job] = Assembled(@, m)]
  ELSE entry

RecordMessage ==
  /\ uplink # <<>>
  /\ entry' = Recorded(Head(uplink))
  /\ uplink' = Tail(uplink)
  /\ UNCHANGED <<vars, lossy, asked, read, cut, part>>

DownloadNext ==
  \/ \E j \in Download : RequestDownload(j)
  \/ Serve \/ OtherJob \/ PowerCut \/ LoseMessage \/ RecordMessage

DownloadSpec == DownloadInit /\ [][DownloadNext]_<<vars, downloadVars>>

\* The loops of the device and of the WebUI keep turning.
FairDownloadSpec == DownloadSpec /\ WF_<<vars, downloadVars>>(Serve)
                                 /\ WF_<<vars, downloadVars>>(RecordMessage)

-----------------------------------------------------------------------------
(* Properties. *)

\* A download marked ok is, byte for byte, what the device read, whichever of its
\* chunks, or of another download's, the connection lost (CRC-32 collisions aside).
DownloadExact ==
  \A j \in Download : entry[j].status = "ok" => read[j] = {entry[j].data}

\* A file that was flashed, or an upload that was verified as a whole.
IsWhole(f) ==
  \/ f \in Preloaded
  \/ \E size \in Size, crc \in Checksum :
       Len(f) = size /\ size # 0 /\ Crc(f) = crc /\ crc # 0

\* A download marked ok is a whole file: one that was flashed or a verified upload.
\* The device also serves, with ok, a path whose upload is not complete or was
\* broken off by a loss of power; then the download is the beginning of that one
\* upload: never bytes of two uploads, nor of a file that was there before
\* (beginMqttPut, handleFileData, sendMqttFile).
DownloadWhole ==
  \A j \in Download :
    entry[j].status = "ok" =>
      IF part[j] = NoFile THEN IsWhole(entry[j].data)
                          ELSE entry[j].data \in Truncations(part[j])

\* On connections that lose nothing a download the device answers "ok" completes,
\* and never as a checksum mismatch.
ReadIsDelivered ==
  \A j \in Download : (~lossy /\ read[j] # {}) ~> entry[j].status = "ok"

=============================================================================
