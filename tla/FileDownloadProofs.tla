-------------------------- MODULE FileDownloadProofs --------------------------
(***************************************************************************)
(* TLAPS proofs about FileDownload: what a download marked ok is, for      *)
(* every set of jobs, paths and messages, every limit and every checksum   *)
(* function, on connections that lose messages and a device that loses     *)
(* power.                                                                  *)
(***************************************************************************)
EXTENDS FileDownload, FileServerProofs, SequenceTheorems

-----------------------------------------------------------------------------
(* The files of the device. *)

\* A file is whole, or the beginning of the one upload it is a part of.
IsSound(f, upload) == IF upload = NoFile THEN IsWhole(f) ELSE f \in Truncations(upload)

FilesSound == \A p \in Path : fs[p] # NoFile => IsSound(fs[p], Part(p))

\* The transfer in progress was announced by a controller, and its file is not the
\* one of an upload that was broken off.
Announced ==
  incoming.active => /\ incoming.expectedSize \in Size /\ incoming.expectedCrc \in Checksum
                     /\ cut[incoming.path] = NoFile

CutType == cut \in [Path -> File \cup {NoFile}]

ServiceInv == IInv /\ CutType /\ Announced /\ FilesSound

LEMMA InitService == Init /\ cut = [p \in Path |-> NoFile] => ServiceInv
<1> SUFFICES ASSUME Init, cut = [p \in Path |-> NoFile] PROVE ServiceInv
  OBVIOUS
<1>1. Announced /\ CutType
  BY DEF Init, NoTransfer, Announced, CutType
<1>2. FilesSound
  BY DEF Init, NoTransfer, FilesSound, IsSound, IsWhole, Part
<1>3. QED
  BY <1>1, <1>2, InitIInv DEF ServiceInv

LEMMA SameService ==
  ASSUME ServiceInv, UNCHANGED <<fs, incoming, cut>>
  PROVE  ServiceInv'
<1>1. IInv'
  BY UnchangedStep DEF ServiceInv
<1>2. QED
  BY <1>1 DEF ServiceInv, CutType, Announced, FilesSound, IsSound, IsWhole, Part

\* The whole of a sequence is one of its beginnings.
LEMMA OwnTruncation ==
  ASSUME NEW f \in File
  PROVE  f \in Truncations(f)
<1>1. Len(f) \in 0..Len(f) /\ SubSeq(f, 1, Len(f)) = f
  BY DEF File
<1>2. QED
  BY <1>1 DEF Truncations

\* The types of the files, of the transfer and of the broken-off uploads.
LEMMA ServiceTypes ==
  ASSUME ServiceInv
  PROVE  /\ fs \in [Path -> File \cup {NoFile}] /\ incoming \in Transfer
         /\ incoming.path \in Path /\ incoming.received \in File
         /\ cut \in [Path -> File \cup {NoFile}]
  BY DEF ServiceInv, IInv, TypeOK, CutType, Transfer

\* What StillCut says of a path.
LEMMA StillCutAt ==
  ASSUME ServiceInv, cut' = StillCut
  PROVE  /\ CutType'
         /\ \A q \in Path : cut'[q] = IF fs'[q] = NoFile \/ (incoming'.active /\ incoming'.path = q)
                                        THEN NoFile ELSE cut[q]
<1>1. cut \in [Path -> File \cup {NoFile}]
  BY ServiceTypes
<1>2. QED
  BY <1>1 DEF StillCut, CutType

\* The file of the transfer in progress, or of none, changes; the others are as they were.
LEMMA OneFileChanges ==
  ASSUME ServiceInv, CutType', NEW at \in Path,
         \A q \in Path : q # at => fs'[q] = fs[q] /\ (fs[q] # NoFile => cut'[q] = cut[q]),
         incoming.active => incoming.path = at,
         incoming'.active => incoming'.path = at,
         fs'[at] # NoFile => IsSound(fs'[at], IF incoming'.active THEN incoming'.received
                                                                  ELSE cut'[at])
  PROVE  FilesSound'
<1> SUFFICES ASSUME NEW q \in Path, fs'[q] # NoFile
             PROVE  IsSound(fs'[q], IF incoming'.active /\ incoming'.path = q
                                      THEN incoming'.received ELSE cut'[q])
  BY DEF FilesSound, Part, IsSound, IsWhole
<1>1. CASE q = at
  BY <1>1
<1>2. CASE q # at
  <2>1. fs'[q] = fs[q] /\ cut'[q] = cut[q]
    BY <1>2
  <2>2. ~(incoming.active /\ incoming.path = q) /\ ~(incoming'.active /\ incoming'.path = q)
    BY <1>2
  <2>3. IsSound(fs[q], cut[q])
    BY <2>1, <2>2 DEF ServiceInv, FilesSound, Part
  <2>4. QED
    BY <2>1, <2>2, <2>3
<1>3. QED
  BY <1>1, <1>2

LEMMA PutBegunSound ==
  ASSUME ServiceInv, NEW j \in Job, NEW p \in Path, NEW size \in Size, NEW crc \in Checksum,
         PutBegun(j, p, size, crc), cut' = StillCut
  PROVE  ServiceInv'
<1>1. fs \in [Path -> File \cup {NoFile}] /\ incoming \in Transfer
  BY ServiceTypes
<1>2. Superseded.fs \in [Path -> File \cup {NoFile}]
  BY SupersededType DEF ServiceInv
<1>3. fs' = [Superseded.fs EXCEPT ![p] = <<>>]
  BY DEF PutBegun
<1>4. /\ incoming'.active /\ incoming'.path = p /\ incoming'.received = <<>>
      /\ incoming'.expectedSize = size /\ incoming'.expectedCrc = crc
  BY DEF PutBegun
<1>5. \A q \in Path : Superseded.fs[q] = IF incoming.active /\ incoming.path = q THEN NoFile
                                                                                ELSE fs[q]
  BY <1>1, SupersededType DEF ServiceInv, Superseded, Transfer
<1>6. CutType' /\ cut'[p] = NoFile
  BY <1>4, StillCutAt
<1>7. ASSUME NEW q \in Path, fs'[q] # NoFile, q # p
      PROVE  IsSound(fs'[q], cut'[q])
  <2>1. fs'[q] = Superseded.fs[q]
    BY <1>2, <1>3, <1>7
  <2>2. ~(incoming.active /\ incoming.path = q) /\ fs'[q] = fs[q]
    BY <1>5, <1>7, <2>1
  <2>3. cut'[q] = cut[q]
    BY <1>4, <1>7, StillCutAt
  <2>4. QED
    BY <1>7, <2>2, <2>3 DEF ServiceInv, FilesSound, Part
<1>8. fs'[p] = <<>> /\ <<>> \in File
  BY <1>2, <1>3 DEF File
<1>9. IsSound(fs'[p], incoming'.received)
  <2>1. fs'[p] \in Truncations(incoming'.received)
    BY <1>4, <1>8, OwnTruncation
  <2>2. incoming'.received # NoFile
    BY <1>4, <1>8, NoFileAssumption DEF File
  <2>3. QED
    BY <2>1, <2>2 DEF IsSound
<1>10. \A q \in Path : fs'[q] # NoFile =>
         IsSound(fs'[q], IF incoming'.active /\ incoming'.path = q THEN incoming'.received
                                                                    ELSE cut'[q])
  BY <1>4, <1>7, <1>9
<1>11. FilesSound'
  BY <1>10 DEF FilesSound, Part, IsSound, IsWhole
<1>12. Announced'
  BY <1>4, <1>6 DEF Announced
<1>13. IInv'
  BY PutBegunStep, MessageTypes DEF ServiceInv
<1>14. QED
  BY <1>6, <1>11, <1>12, <1>13 DEF ServiceInv

\* A transfer is dropped with its file, or there was none and nothing changes.
LEMMA DroppedSound ==
  ASSUME ServiceInv, IInv', cut' = StillCut, ~incoming'.active,
         fs' = IF incoming.active THEN [fs EXCEPT ![incoming.path] = NoFile] ELSE fs
  PROVE  ServiceInv'
<1> DEFINE at == incoming.path
<1>1. fs \in [Path -> File \cup {NoFile}] /\ at \in Path
  BY ServiceTypes
<1>2. CutType'
  BY StillCutAt
<1>3. ASSUME NEW q \in Path, fs'[q] # NoFile
      PROVE  IsSound(fs'[q], cut'[q])
  <2>1. ~(incoming.active /\ at = q) /\ fs'[q] = fs[q]
    BY <1>1, <1>3
  <2>2. cut'[q] = cut[q]
    BY <1>3, StillCutAt
  <2>3. QED
    BY <1>3, <2>1, <2>2 DEF ServiceInv, FilesSound, Part
<1>4. FilesSound'
  BY <1>3 DEF FilesSound, Part, IsSound, IsWhole
<1>5. QED
  BY <1>2, <1>4 DEF ServiceInv, Announced

LEMMA PutOpenFailsSound ==
  ASSUME ServiceInv, NEW j \in Job, NEW p \in Path, NEW size \in Size, NEW crc \in Checksum,
         PutOpenFails(j, p, size, crc), cut' = StillCut
  PROVE  ServiceInv'
<1>1. IInv'
  BY DroppingSteps, MessageTypes DEF ServiceInv
<1>2. incoming \in Transfer
  BY ServiceTypes
<1>3. ~incoming'.active
  BY <1>2 DEF PutOpenFails, Transfer
<1>4. fs' = IF incoming.active THEN [fs EXCEPT ![incoming.path] = NoFile] ELSE fs
  BY DEF PutOpenFails, Superseded, FinishedFs
<1>5. QED
  BY <1>1, <1>3, <1>4, DroppedSound

LEMMA RefuseSound ==
  ASSUME ServiceInv, IInv', NEW j, NEW s, NEW st, incoming.active, Refuse(j, s, st),
         cut' = StillCut
  PROVE  ServiceInv'
<1>1. incoming \in Transfer
  BY ServiceTypes
<1>2. ~incoming'.active /\ fs' = [fs EXCEPT ![incoming.path] = NoFile]
  BY <1>1 DEF Refuse, FinishedFs, Transfer
<1>3. QED
  BY <1>2, DroppedSound

LEMMA ChunkWrittenSound ==
  ASSUME ServiceInv, NEW j \in Job, NEW s \in SeqNo, NEW d \in ChunkData,
         ChunkWritten(j, s, d), cut' = StillCut
  PROVE  ServiceInv'
<1> DEFINE at == incoming.path
<1>1. /\ fs \in [Path -> File \cup {NoFile}] /\ incoming \in Transfer /\ at \in Path
      /\ s \in Nat /\ d \in Chunk
  BY ServiceTypes, MessageTypes
<1>2. IInv'
  BY <1>1, ChunkWrittenStep DEF ServiceInv
<1>3. incoming.active /\ incoming' = Extended(d) /\ fs' = Written(d)
  BY DEF ChunkWritten, ChunkAcceptable, OwnTransfer
<1>4. /\ incoming'.active /\ incoming'.path = at
      /\ incoming'.expectedSize = incoming.expectedSize
      /\ incoming'.expectedCrc = incoming.expectedCrc
  BY <1>1, <1>3 DEF Extended, Transfer
<1>5. CutType' /\ cut'[at] = NoFile
  BY <1>1, <1>4, StillCutAt
<1>6. Announced'
  BY <1>3, <1>4, <1>5 DEF ServiceInv, Announced
<1>7. \A q \in Path : q # at => fs'[q] = fs[q]
  BY <1>1, <1>3 DEF Written
<1>8. \A q \in Path : q # at /\ fs[q] # NoFile => cut'[q] = cut[q]
  BY <1>4, <1>7, StillCutAt
<1>9. fs'[at] # NoFile => IsSound(fs'[at], incoming'.received)
  <2>1. incoming'.received \in File /\ (fs'[at] # NoFile => fs'[at] = incoming'.received)
    BY <1>2, <1>4 DEF IInv, TypeOK, TransferInv, Transfer
  <2>2. incoming'.received # NoFile
    BY <2>1, NoFileAssumption DEF File
  <2>3. QED
    BY <2>1, <2>2, OwnTruncation DEF IsSound
<1>10. FilesSound'
  BY <1>1, <1>4, <1>5, <1>7, <1>8, <1>9, OneFileChanges
<1>11. QED
  BY <1>2, <1>5, <1>6, <1>10 DEF ServiceInv

\* The bytes of a verified upload are in its file, unless it was deleted.
LEMMA LastChunkSound ==
  ASSUME ServiceInv, NEW j \in Job, NEW s \in SeqNo, NEW d \in ChunkData,
         LastChunkWritten(j, s, d), cut' = StillCut
  PROVE  ServiceInv'
<1> DEFINE at == incoming.path
<1>1. /\ fs \in [Path -> File \cup {NoFile}] /\ incoming \in Transfer /\ at \in Path
      /\ s \in Nat /\ d \in Chunk
  BY ServiceTypes, MessageTypes
<1>2. IInv'
  BY <1>1, LastChunkWrittenStep DEF ServiceInv
<1>3. incoming.active /\ incoming' = [Extended(d) EXCEPT !.active = FALSE]
  BY DEF LastChunkWritten, ChunkAcceptable, OwnTransfer
<1>4. ~incoming'.active
  BY <1>1, <1>3 DEF Extended, Transfer
<1>5. CutType' /\ Announced'
  BY <1>4, StillCutAt DEF Announced
<1>6. \A q \in Path : q # at => fs'[q] = fs[q]
  BY <1>1 DEF LastChunkWritten, Written
<1>7. \A q \in Path : q # at /\ fs[q] # NoFile => cut'[q] = cut[q]
  BY <1>4, <1>6, StillCutAt
<1>8. fs'[at] # NoFile => cut'[at] = NoFile
  BY <1>1, <1>3, <1>4, StillCutAt DEF ServiceInv, Announced
<1>9. fs'[at] # NoFile => IsWhole(fs'[at])
  <2> SUFFICES ASSUME fs'[at] # NoFile PROVE IsWhole(fs'[at])
    OBVIOUS
  <2>1. Verified(Extended(d)) /\ fs' = Written(d)
    BY <1>1 DEF LastChunkWritten
  <2>2. fs[at] # NoFile
    BY <2>1 DEF Written
  <2>3. fs[at] = incoming.received
    BY <1>3, <2>2 DEF ServiceInv, IInv, TransferInv
  <2>4. /\ Extended(d).received = incoming.received \o d
        /\ Extended(d).expectedSize = incoming.expectedSize
        /\ Extended(d).expectedCrc = incoming.expectedCrc
    BY <1>1 DEF Extended, Transfer
  <2>5. fs'[at] = Extended(d).received
    BY <1>1, <2>1, <2>2, <2>3, <2>4 DEF Written
  <2>6. Len(fs'[at]) = incoming.expectedSize /\ Crc(fs'[at]) = incoming.expectedCrc
    BY <2>1, <2>4, <2>5 DEF Verified
  <2>7. incoming.expectedSize # 0 /\ incoming.expectedCrc # 0
    BY <1>1, <1>3 DEF ServiceInv, IInv, TransferInv, Transfer, File
  <2>8. incoming.expectedSize \in Size /\ incoming.expectedCrc \in Checksum
    BY <1>3 DEF ServiceInv, Announced
  <2>9. QED
    BY <2>6, <2>7, <2>8 DEF IsWhole
<1>10. fs'[at] # NoFile => IsSound(fs'[at], cut'[at])
  BY <1>8, <1>9 DEF IsSound
<1>11. FilesSound'
  BY <1>1, <1>4, <1>5, <1>6, <1>7, <1>10, OneFileChanges
<1>12. QED
  BY <1>2, <1>5, <1>11 DEF ServiceInv

LEMMA DeletedSound ==
  ASSUME ServiceInv, NEW j \in Job, NEW p \in Path, Deleted(j, p), cut' = StillCut
  PROVE  ServiceInv'
<1>1. fs \in [Path -> File \cup {NoFile}]
  BY ServiceTypes
<1>2. fs' = [fs EXCEPT ![p] = NoFile] /\ UNCHANGED incoming
  BY DEF Deleted
<1>3. CutType' /\ Announced'
  <2>1. incoming \in Transfer /\ incoming.path \in Path
    BY ServiceTypes
  <2>2. QED
    BY <1>2, <2>1, StillCutAt DEF ServiceInv, Announced
<1>4. ASSUME NEW q \in Path, fs'[q] # NoFile
      PROVE  IsSound(fs'[q], IF incoming.active /\ incoming.path = q THEN incoming.received
                                                                      ELSE cut'[q])
  <2>1. fs'[q] = fs[q]
    BY <1>1, <1>2, <1>4
  <2>2. ~(incoming.active /\ incoming.path = q) => cut'[q] = cut[q]
    BY <1>2, <1>4, StillCutAt
  <2>3. IsSound(fs[q], Part(q))
    BY <1>4, <2>1 DEF ServiceInv, FilesSound
  <2>4. QED
    BY <2>1, <2>2, <2>3 DEF Part
<1>5. FilesSound'
  BY <1>2, <1>4 DEF FilesSound, Part, IsSound, IsWhole
<1>6. IInv'
  BY DeletedStep DEF ServiceInv
<1>7. QED
  BY <1>3, <1>5, <1>6 DEF ServiceInv

LEMMA OtherJobService ==
  ASSUME ServiceInv, OtherJob
  PROVE  ServiceInv'
<1>1. PICK j \in Job, p \in Path :
        \/ \E size \in Size, crc \in Checksum :
             PutBegun(j, p, size, crc) \/ PutOpenFails(j, p, size, crc)
        \/ \E s \in SeqNo, d \in ChunkData :
             \/ ChunkWritten(j, s, d) \/ LastChunkWritten(j, s, d)
             \/ ChunkRefused(j, s, d) \/ ChunkWriteFails(j, s, d)
        \/ Deleted(j, p)
  BY DEF OtherJob
<1>2. cut' = StillCut
  BY DEF OtherJob
<1>3. CASE \E size \in Size, crc \in Checksum :
             PutBegun(j, p, size, crc) \/ PutOpenFails(j, p, size, crc)
  BY <1>2, <1>3, PutBegunSound, PutOpenFailsSound
<1>4. CASE \E s \in SeqNo, d \in ChunkData :
             \/ ChunkWritten(j, s, d) \/ LastChunkWritten(j, s, d)
             \/ ChunkRefused(j, s, d) \/ ChunkWriteFails(j, s, d)
  <2>1. PICK s \in SeqNo, d \in ChunkData :
          \/ ChunkWritten(j, s, d) \/ LastChunkWritten(j, s, d)
          \/ ChunkRefused(j, s, d) \/ ChunkWriteFails(j, s, d)
    BY <1>4
  <2>2. CASE ChunkRefused(j, s, d) \/ ChunkWriteFails(j, s, d)
    <3>1. incoming.active /\ \E st \in {"rejected", "failed"} : Refuse(j, s, st)
      BY <2>2 DEF ChunkRefused, ChunkWriteFails, ChunkAcceptable, OwnTransfer
    <3>2. s \in Nat /\ d \in Chunk
      BY MessageTypes
    <3>3. IInv'
      BY <2>2, <3>2, DroppingSteps DEF ServiceInv, ChunkRefused, ChunkWriteFails
    <3>4. QED
      BY <1>2, <3>1, <3>3, RefuseSound
  <2>3. QED
    BY <1>2, <2>1, <2>2, ChunkWrittenSound, LastChunkSound
<1>5. CASE Deleted(j, p)
  BY <1>2, <1>5, DeletedSound
<1>6. QED
  BY <1>1, <1>3, <1>4, <1>5

\* What the flash had of the file of a broken-off upload is a beginning of what the
\* device had received.
LEMMA CutSound ==
  ASSUME ServiceInv, IInv', incoming' = NoTransfer, NEW upload \in File, NEW f,
         f = NoFile \/ f \in Truncations(upload),
         fs' = [fs EXCEPT ![incoming.path] = f],
         cut' = [cut EXCEPT ![incoming.path] = upload]
  PROVE  ServiceInv'
<1> DEFINE at == incoming.path
<1>1. /\ fs \in [Path -> File \cup {NoFile}] /\ at \in Path
      /\ cut \in [Path -> File \cup {NoFile}]
  BY ServiceTypes
<1>2. ~incoming'.active
  BY DEF NoTransfer
<1>3. CutType' /\ Announced'
  BY <1>1, <1>2 DEF CutType, Announced
<1>4. upload # NoFile
  BY NoFileAssumption DEF File
<1>5. ASSUME NEW q \in Path, fs'[q] # NoFile
      PROVE  IsSound(fs'[q], cut'[q])
  <2>1. CASE q = at
    BY <1>1, <1>4, <1>5, <2>1 DEF IsSound
  <2>2. CASE q # at
    <3>1. fs'[q] = fs[q] /\ cut'[q] = cut[q] /\ Part(q) = cut[q]
      BY <1>1, <2>2 DEF Part
    <3>2. QED
      BY <1>5, <3>1 DEF ServiceInv, FilesSound
  <2>3. QED
    BY <2>1, <2>2
<1>6. FilesSound'
  BY <1>2, <1>5 DEF FilesSound, Part, IsSound, IsWhole
<1>7. QED
  BY <1>3, <1>6 DEF ServiceInv

LEMMA PowerCutService ==
  ASSUME ServiceInv, PowerCut
  PROVE  ServiceInv'
<1>1. /\ fs \in [Path -> File \cup {NoFile}] /\ incoming \in Transfer
      /\ incoming.path \in Path /\ incoming.received \in File
      /\ cut \in [Path -> File \cup {NoFile}]
  BY ServiceTypes
<1>2. CASE PowerLoss /\ cut' = IF incoming.active
                                 THEN [cut EXCEPT ![incoming.path] = incoming.received]
                                 ELSE cut
  <2>1. IInv' /\ incoming' = NoTransfer
    BY <1>2, PowerLossStep DEF ServiceInv, PowerLoss
  <2>2. CASE ~incoming.active
    <3>1. fs' = fs /\ cut' = cut /\ ~incoming'.active
      BY <1>2, <2>1, <2>2 DEF PowerLoss, NoTransfer
    <3>2. CutType' /\ Announced' /\ FilesSound'
      BY <2>2, <3>1 DEF ServiceInv, CutType, Announced, FilesSound, Part, IsSound, IsWhole
    <3>3. QED
      BY <2>1, <3>2 DEF ServiceInv
  <2>3. CASE incoming.active
    <3> DEFINE at == incoming.path
    <3>1. PICK f : /\ fs' = [fs EXCEPT ![at] = f]
                   /\ f = NoFile \/ f \in Truncations(incoming.received)
      <4>1. CASE fs[at] = NoFile
        <5>1. fs' = fs
          BY <1>2, <4>1 DEF PowerLoss
        <5>2. fs' = [fs EXCEPT ![at] = NoFile]
          BY <1>1, <4>1, <5>1
        <5>3. QED
          BY <5>2
      <4>2. CASE fs[at] # NoFile
        <5>1. fs[at] = incoming.received
          BY <2>3, <4>2 DEF ServiceInv, IInv, TransferInv
        <5>2. QED
          BY <1>2, <2>3, <4>2, <5>1 DEF PowerLoss
      <4>3. QED
        BY <4>1, <4>2
    <3>2. cut' = [cut EXCEPT ![at] = incoming.received]
      BY <1>2, <2>3
    <3>3. QED
      BY <1>1, <2>1, <3>1, <3>2, CutSound
  <2>4. QED
    BY <2>2, <2>3
<1>3. CASE \E j \in Job \ Download, s \in SeqNo, d \in ChunkData :
             /\ PowerLossAfterAck(j, s, d)
             /\ cut' = [cut EXCEPT ![incoming.path] = Extended(d).received]
  <2> DEFINE at == incoming.path
  <2>1. PICK j \in Job, s \in SeqNo, d \in ChunkData :
          /\ PowerLossAfterAck(j, s, d)
          /\ cut' = [cut EXCEPT ![at] = Extended(d).received]
    BY <1>3
  <2>2. s \in Nat /\ d \in Chunk
    BY MessageTypes
  <2>3. IInv' /\ incoming' = NoTransfer
    BY <2>1, <2>2, PowerLossAfterAckStep DEF ServiceInv, PowerLossAfterAck
  <2>4. incoming.active /\ Decodes(d)
    BY <2>1 DEF PowerLossAfterAck, ChunkAcceptable, OwnTransfer
  <2>5. Extended(d).received = incoming.received \o d
    BY <1>1 DEF Extended, Transfer
  <2>6. Extended(d).received \in File
    BY <1>1, <2>2, <2>4, <2>5 DEF Decodes, Chunk, File
  <2>7. PICK f : /\ fs' = [fs EXCEPT ![at] = f]
                 /\ f = NoFile \/ f \in Truncations(Extended(d).received)
    <3>1. CASE fs[at] = NoFile
      <4>1. fs' = fs
        BY <2>1, <3>1 DEF PowerLossAfterAck, Written
      <4>2. fs' = [fs EXCEPT ![at] = NoFile]
        BY <1>1, <3>1, <4>1
      <4>3. QED
        BY <4>2
    <3>2. CASE fs[at] # NoFile
      <4>1. fs[at] = incoming.received
        BY <2>4, <3>2 DEF ServiceInv, IInv, TransferInv
      <4>2. Written(d)[at] = Extended(d).received
        BY <1>1, <2>5, <3>2, <4>1 DEF Written
      <4>3. Written(d)[at] # NoFile
        BY <2>6, <4>2, NoFileAssumption DEF File
      <4>4. QED
        BY <2>1, <4>2, <4>3 DEF PowerLossAfterAck
    <3>3. QED
      BY <3>1, <3>2
  <2>8. QED
    BY <2>1, <2>3, <2>6, <2>7, CutSound
<1>4. QED
  BY <1>2, <1>3 DEF PowerCut

-----------------------------------------------------------------------------
(* Messages and queues. *)

Pieces == {ChunkAt(f, n, i) : f \in File, n \in Nat, i \in Int}

Message ==
  [topic : {"fs/data"}, job : Download, seq : Int, data : Pieces]
    \cup [topic : {"fs/result"}, job : Download, op : {"get_mqtt"},
          status : {"failed", "rejected"}]
    \cup [topic : {"fs/result"}, job : Download, op : {"get_mqtt"}, status : {"ok"},
          image : File]

OkResult(m) == m.topic # "fs/data" /\ m.status = "ok"

LEMMA Queued ==
  ASSUME NEW S, NEW s \in Seq(S), s # <<>>
  PROVE  /\ 1 \in 1..Len(s) /\ Head(s) = s[1] /\ Head(s) \in S /\ Tail(s) \in Seq(S)
         /\ \A i \in 1..Len(Tail(s)) :
              i + 1 \in 1..Len(s) /\ Tail(s)[i] = s[i + 1] /\ i + 1 # 1
  OBVIOUS

LEMMA Chunked ==
  ASSUME NEW j \in Download, NEW f \in File, NEW n \in Nat \ {0}
  PROVE  /\ ChunkCount(f, n) \in Nat
         /\ ChunksOf(j, f, n) \in Seq(Message) /\ Len(ChunksOf(j, f, n)) = ChunkCount(f, n)
         /\ \A i \in 1..ChunkCount(f, n) :
              ChunksOf(j, f, n)[i].topic = "fs/data" /\ ChunksOf(j, f, n)[i].job = j
<1>1. \A l \in Nat : (l + n - 1) \div n \in Nat
  OBVIOUS
<1>2. ChunkCount(f, n) \in Nat
  BY <1>1 DEF ChunkCount, File
<1>3. \A i \in 1..ChunkCount(f, n) : DataMsg(j, i - 1, ChunkAt(f, n, i - 1)) \in Message
  BY <1>2 DEF Message, DataMsg, Pieces
<1>4. QED
  BY <1>2, <1>3 DEF ChunksOf, DataMsg

\* What sendMqttFile publishes for job j: chunks, then a result.  read is what its
\* result names.
Answers(j, p) ==
  /\ out' \in Seq(Message) /\ Len(out') > 0
  /\ \A i \in 1..Len(out') : out'[i].job = j /\ (i # Len(out') => out'[i].topic = "fs/data")
  /\ out'[Len(out')].topic = "fs/result"
  /\ out'[Len(out')].status = "ok" =>
       out'[Len(out')].image \in File /\ out'[Len(out')].image \in Visible(p)

\* Chunks, and then a result.
LEMMA Answering ==
  ASSUME NEW j \in Download, NEW p,
         NEW c \in Seq(Message), NEW r \in Message,
         \A i \in 1..Len(c) : c[i].topic = "fs/data" /\ c[i].job = j,
         r.topic = "fs/result" /\ r.job = j,
         r.status = "ok" => r.image \in File /\ r.image \in Visible(p),
         out' = c \o <<r>>
  PROVE  Answers(j, p)
<1> DEFINE o == c \o <<r>>
<1>1. /\ o \in Seq(Message) /\ Len(o) = Len(c) + 1 /\ Len(c) \in Nat
      /\ \A i \in 1..(Len(c) + 1) : o[i] = IF i <= Len(c) THEN c[i] ELSE r
  OBVIOUS
<1>2. out' = o
  OBVIOUS
<1> HIDE DEF o
<1>3. out' \in Seq(Message) /\ Len(out') > 0 /\ out'[Len(out')] = r
  BY <1>1, <1>2
<1>4. \A i \in 1..Len(o) : o[i].job = j /\ (i # Len(o) => o[i].topic = "fs/data")
  <2> SUFFICES ASSUME NEW i \in 1..Len(o)
               PROVE  o[i].job = j /\ (i # Len(o) => o[i].topic = "fs/data")
    OBVIOUS
  <2>1. CASE i = Len(o)
    BY <1>1, <2>1
  <2>2. CASE i # Len(o)
    <3>1. i \in 1..Len(c) /\ o[i] = c[i]
      BY <1>1, <2>2
    <3>2. QED
      BY <3>1, <2>2
  <2>3. QED
    BY <2>1, <2>2
<1>5. \A i \in 1..Len(out') : out'[i].job = j /\ (i # Len(out') => out'[i].topic = "fs/data")
  BY <1>2, <1>4
<1>6. QED
  BY <1>3, <1>5 DEF Answers

LEMMA GetAnswers ==
  ASSUME IInv, NEW j \in Download, NEW p \in Path,
         \/ GetFails(j, p, GetChunk) \/ GetTooLarge(j, p, GetChunk)
         \/ GetSent(j, p, GetChunk) \/ GetInterrupted(j, p, GetChunk)
  PROVE  Answers(j, p) /\ UNCHANGED <<fs, incoming>>
<1> DEFINE n == ClampedChunk(GetChunk)
<1>1. n \in Nat \ {0}
  BY ClampedChunkType, DownloadAssumption
<1>2. CASE GetFails(j, p, GetChunk) \/ GetTooLarge(j, p, GetChunk)
  <2>1. PICK st \in {"failed", "rejected"} : out' = <<Result(j, "get_mqtt", st)>>
    BY <1>2 DEF GetFails, GetTooLarge
  <2>2. Result(j, "get_mqtt", st) \in Message /\ <<>> \in Seq(Message)
    BY DEF Message, Result
  <2>3. out' = <<>> \o <<Result(j, "get_mqtt", st)>>
    BY <2>1, <2>2
  <2>4. /\ Result(j, "get_mqtt", st).topic = "fs/result"
        /\ Result(j, "get_mqtt", st).job = j /\ Result(j, "get_mqtt", st).status # "ok"
    BY DEF Result
  <2>5. \A i \in 1..Len(<<>>) : <<>>[i].topic = "fs/data" /\ <<>>[i].job = j
    OBVIOUS
  <2>6. Answers(j, p)
    BY <2>2, <2>3, <2>4, <2>5, Answering
  <2>7. QED
    BY <1>2, <2>6 DEF GetFails, GetTooLarge
<1>3. CASE GetSent(j, p, GetChunk)
  <2>1. PICK f \in Visible(p) : out' = ChunksOf(j, f, n) \o <<ImageResult(j, "get_mqtt", f)>>
    BY <1>3 DEF GetSent
  <2>2. f \in File
    BY <1>3, VisibleIsFile DEF GetSent
  <2>3. ImageResult(j, "get_mqtt", f) \in Message
    BY <2>2 DEF Message, ImageResult
  <2> HIDE DEF n
  <2>4. Answers(j, p)
    <3> DEFINE c == ChunksOf(j, f, n)
               r == ImageResult(j, "get_mqtt", f)
    <3>1. c \in Seq(Message) /\ \A i \in 1..Len(c) : c[i].topic = "fs/data" /\ c[i].job = j
      BY <1>1, <2>2, Chunked
    <3>2. r \in Message /\ r.topic = "fs/result" /\ r.job = j /\ r.image = f /\ out' = c \o <<r>>
      BY <2>1, <2>3 DEF ImageResult
    <3> HIDE DEF c, r
    <3>3. QED
      BY <2>1, <2>2, <3>1, <3>2, Answering
  <2>5. QED
    BY <1>3, <2>4 DEF GetSent
<1>4. CASE GetInterrupted(j, p, GetChunk)
  <2>1. PICK f \in Visible(p) : \E k \in 1..ChunkCount(f, n) :
          out' = SubSeq(ChunksOf(j, f, n), 1, k - 1) \o <<Result(j, "get_mqtt", "failed")>>
    BY <1>4 DEF GetInterrupted
  <2>2. f \in File
    BY <1>4, VisibleIsFile DEF GetInterrupted
  <2>3. Result(j, "get_mqtt", "failed") \in Message
    BY DEF Message, Result
  <2> HIDE DEF n
  <2>4. PICK k \in 1..ChunkCount(f, n) :
          out' = SubSeq(ChunksOf(j, f, n), 1, k - 1) \o <<Result(j, "get_mqtt", "failed")>>
    BY <2>1
  <2> DEFINE c == ChunksOf(j, f, n)
             d == SubSeq(c, 1, k - 1)
  <2>5. /\ c \in Seq(Message) /\ Len(c) = ChunkCount(f, n) /\ ChunkCount(f, n) \in Nat
        /\ \A i \in 1..Len(c) : c[i].topic = "fs/data" /\ c[i].job = j
    BY <1>1, <2>2, Chunked
  <2> HIDE DEF c
  <2>6. /\ d \in Seq(Message) /\ Len(d) = k - 1
        /\ \A i \in 1..Len(d) : d[i] = c[i] /\ i \in 1..Len(c)
    BY <2>5, SubSeqProperties
  <2>7. out' = d \o <<Result(j, "get_mqtt", "failed")>>
    BY <2>4 DEF c
  <2> HIDE DEF d
  <2>8. /\ Result(j, "get_mqtt", "failed").topic = "fs/result"
        /\ Result(j, "get_mqtt", "failed").job = j
        /\ Result(j, "get_mqtt", "failed").status # "ok"
    BY DEF Result
  <2>9. \A i \in 1..Len(d) : d[i].topic = "fs/data" /\ d[i].job = j
    BY <2>5, <2>6
  <2>10. Answers(j, p)
    BY <2>3, <2>6, <2>7, <2>8, <2>9, Answering
  <2>11. QED
    BY <1>4, <2>10 DEF GetInterrupted
<1>5. QED
  BY <1>2, <1>3, <1>4

-----------------------------------------------------------------------------
(* The downloads. *)

\* Every variable of the downloads is the function it was.
QueueTypes ==
  /\ asked \in Seq(Download) /\ uplink \in Seq(Message)
  /\ DOMAIN entry = Download /\ entry = [j \in Download |-> entry[j]]
  /\ \A j \in Download : entry[j] = [chunks |-> entry[j].chunks, data |-> entry[j].data,
                                     status |-> entry[j].status]
  /\ read \in [Download -> SUBSET File]
  /\ DOMAIN part = Download /\ part = [j \in Download |-> part[j]]

\* The result of job j is on its way.
ResultSent(j) == \E i \in 1..Len(uplink) : OkResult(uplink[i]) /\ uplink[i].job = j

\* Job j is on its way to the device.
Asked(j) == \E i \in 1..Len(asked) : asked[i] = j

\* A job is asked once, and its result comes after it was served.
AskedOnce ==
  /\ \A i, k \in 1..Len(asked) : asked[i] = asked[k] => i = k
  /\ \A j \in Download : Asked(j) => entry[j].status = "open" /\ ~ResultSent(j)
  /\ \A j \in Download : entry[j].status = "unasked" => ~ResultSent(j)

\* A result names what the device read.
ResultIsRead ==
  \A i \in 1..Len(uplink) : OkResult(uplink[i]) => read[uplink[i].job] = {uplink[i].image}

\* A download marked ok has the checksum of what the device read.
OkChecked ==
  \A j \in Download :
    entry[j].status = "ok" => \E f \in File : read[j] = {f} /\ Crc(entry[j].data) = Crc(f)

\* What the device read is whole, or the beginning of one upload.
ReadSound ==
  \A j \in Download : \A f \in read[j] : IsSound(f, part[j])

QueueInv == QueueTypes /\ AskedOnce /\ ResultIsRead /\ OkChecked /\ ReadSound

\* The inductive invariant.
DownloadInv == ServiceInv /\ QueueInv

LEMMA InitQueue == DownloadInit => QueueInv
<1> SUFFICES ASSUME DownloadInit PROVE QueueInv
  OBVIOUS
<1>1. asked = <<>> /\ uplink = <<>> /\ Len(<<>>) = 0
  BY DEF DownloadInit
<1>2. \A j \in Download : entry[j].status = "unasked" /\ read[j] = {}
  BY DEF DownloadInit
<1>3. QueueTypes
  BY DEF DownloadInit, QueueTypes
<1>4. AskedOnce /\ ResultIsRead
  BY <1>1 DEF AskedOnce, Asked, ResultSent, ResultIsRead
<1>5. OkChecked /\ ReadSound
  BY <1>2 DEF OkChecked, ReadSound
<1>6. QED
  BY <1>3, <1>4, <1>5 DEF QueueInv

LEMMA SameQueue ==
  ASSUME QueueInv, UNCHANGED <<asked, uplink, entry, read, part>>
  PROVE  QueueInv'
<1>1. UNCHANGED <<asked, uplink, entry, read, part>>
  OBVIOUS
<1>2. QueueTypes'
  BY <1>1 DEF QueueInv, QueueTypes
<1>3. AskedOnce'
  BY <1>1 DEF QueueInv, AskedOnce, Asked, ResultSent
<1>4. ResultIsRead' /\ OkChecked' /\ ReadSound'
  BY <1>1 DEF QueueInv, ResultIsRead, OkChecked, ReadSound
<1>5. QED
  BY <1>2, <1>3, <1>4 DEF QueueInv

LEMMA RequestQueue ==
  ASSUME QueueInv, NEW j \in Download, RequestDownload(j)
  PROVE  QueueInv'
<1>1. /\ entry[j].status = "unasked" /\ entry' = [entry EXCEPT ![j].status = "open"]
      /\ asked' = Append(asked, j) /\ UNCHANGED <<uplink, read, part>>
  BY DEF RequestDownload
<1>2. /\ asked \in Seq(Download) /\ DOMAIN entry = Download
      /\ \A k \in Download : entry[k] = [chunks |-> entry[k].chunks, data |-> entry[k].data,
                                         status |-> entry[k].status]
  BY DEF QueueInv, QueueTypes
<1>3. /\ asked' \in Seq(Download) /\ Len(asked') = Len(asked) + 1 /\ Len(asked) \in Nat
      /\ \A i \in 1..Len(asked) : asked'[i] = asked[i] /\ asked[i] \in Download
      /\ asked'[Len(asked) + 1] = j
  BY <1>1, <1>2
<1>4. /\ DOMAIN entry' = Download /\ entry' = [k \in Download |-> entry'[k]]
      /\ \A k \in Download \ {j} : entry'[k] = entry[k]
      /\ entry'[j] = [chunks |-> entry[j].chunks, data |-> entry[j].data, status |-> "open"]
  <2>1. entry' = [k \in Download |-> IF k = j THEN [entry[j] EXCEPT !.status = "open"]
                                              ELSE entry[k]]
    BY <1>1, <1>2
  <2>2. [entry[j] EXCEPT !.status = "open"]
          = [chunks |-> entry[j].chunks, data |-> entry[j].data, status |-> "open"]
    <3>1. \A c, d, st : [[chunks |-> c, data |-> d, status |-> st] EXCEPT !.status = "open"]
                          = [chunks |-> c, data |-> d, status |-> "open"]
      OBVIOUS
    <3>2. QED
      BY <1>2, <3>1
  <2>3. QED
    BY <2>1, <2>2
<1>5. QueueTypes'
  <2>1. \A k \in Download : entry'[k] = [chunks |-> entry'[k].chunks, data |-> entry'[k].data,
                                         status |-> entry'[k].status]
    BY <1>2, <1>4
  <2>2. QED
    BY <1>1, <1>3, <1>4, <2>1 DEF QueueInv, QueueTypes
<1>6. \A k \in Download : ResultSent(k)' <=> ResultSent(k)
  BY <1>1 DEF ResultSent
<1>7. \A i \in 1..Len(asked) : asked[i] # j
  BY <1>1, <1>3 DEF QueueInv, AskedOnce, Asked
<1>8. AskedOnce'
  <2>1. \A i, k \in 1..Len(asked') : asked'[i] = asked'[k] => i = k
    <3> SUFFICES ASSUME NEW i \in 1..(Len(asked) + 1), NEW k \in 1..(Len(asked) + 1),
                        asked'[i] = asked'[k]
                 PROVE  i = k
      BY <1>3
    <3>1. CASE i <= Len(asked) /\ k <= Len(asked)
      <4>1. i \in 1..Len(asked) /\ k \in 1..Len(asked)
        BY <1>3, <3>1
      <4>2. asked[i] = asked[k]
        BY <1>3, <4>1
      <4>3. QED
        BY <4>1, <4>2 DEF QueueInv, AskedOnce
    <3>2. CASE i <= Len(asked) /\ k = Len(asked) + 1
      <4>1. i \in 1..Len(asked)
        BY <1>3, <3>2
      <4>2. asked'[i] # j
        BY <1>3, <1>7, <4>1
      <4>3. QED
        BY <1>3, <3>2, <4>2
    <3>3. CASE i = Len(asked) + 1 /\ k <= Len(asked)
      <4>1. k \in 1..Len(asked)
        BY <1>3, <3>3
      <4>2. asked'[k] # j
        BY <1>3, <1>7, <4>1
      <4>3. QED
        BY <1>3, <3>3, <4>2
    <3>4. CASE i = Len(asked) + 1 /\ k = Len(asked) + 1
      BY <3>4
    <3>5. QED
      BY <1>3, <3>1, <3>2, <3>3, <3>4
  <2>2. ASSUME NEW k \in Download, Asked(k)'
        PROVE  entry'[k].status = "open" /\ ~ResultSent(k)'
    <3>1. CASE k = j
      <4>1. entry'[j].status = "open"
        BY <1>1, <1>4
      <4>2. ~ResultSent(j)
        BY <1>1 DEF QueueInv, AskedOnce
      <4>3. QED
        BY <1>6, <3>1, <4>1, <4>2
    <3>2. CASE k # j
      <4>1. PICK i \in 1..Len(asked') : asked'[i] = k
        BY <2>2 DEF Asked
      <4>2. i \in 1..Len(asked) /\ asked[i] = k
        BY <1>3, <3>2, <4>1
      <4>3. Asked(k)
        BY <4>2 DEF Asked
      <4>4. QED
        BY <1>4, <1>6, <3>2, <4>3 DEF QueueInv, AskedOnce
    <3>3. QED
      BY <3>1, <3>2
  <2>3. \A k \in Download : entry'[k].status = "unasked" => ~ResultSent(k)'
    BY <1>4, <1>6 DEF QueueInv, AskedOnce
  <2>4. QED
    BY <2>1, <2>2, <2>3 DEF AskedOnce
<1>9. ResultIsRead' /\ ReadSound'
  BY <1>1 DEF QueueInv, ResultIsRead, ReadSound
<1>10. OkChecked'
  BY <1>1, <1>4 DEF QueueInv, OkChecked
<1>11. QED
  BY <1>5, <1>8, <1>9, <1>10 DEF QueueInv

\* Fewer messages, and fewer jobs, in the order they had.
LEMMA FewerMessages ==
  ASSUME QueueInv, uplink' \in Seq(Message), UNCHANGED <<asked, entry, read, part>>,
         \A i \in 1..Len(uplink') : \E k \in 1..Len(uplink) : uplink'[i] = uplink[k]
  PROVE  QueueInv'
<1>1. QueueTypes'
  BY DEF QueueInv, QueueTypes
<1>2. \A j \in Download : ResultSent(j)' => ResultSent(j)
  BY DEF ResultSent
<1>3. \A j \in Download : Asked(j)' <=> Asked(j)
  BY DEF Asked
<1>4. AskedOnce'
  BY <1>2, <1>3 DEF QueueInv, AskedOnce
<1>5. ResultIsRead'
  BY DEF QueueInv, ResultIsRead
<1>6. OkChecked' /\ ReadSound'
  BY DEF QueueInv, OkChecked, ReadSound
<1>7. QED
  BY <1>1, <1>4, <1>5, <1>6 DEF QueueInv

LEMMA FewerJobs ==
  ASSUME QueueInv, asked' \in Seq(Download), UNCHANGED <<uplink, entry, read, part>>,
         \A i \in 1..Len(asked') : \E n \in 1..Len(asked) : asked'[i] = asked[n],
         \A i, k \in 1..Len(asked') : asked'[i] = asked'[k] => i = k
  PROVE  QueueInv'
<1>1. QueueTypes'
  BY DEF QueueInv, QueueTypes
<1>2. AskedOnce'
  <2>1. \A j \in Download : Asked(j)' => Asked(j)
    BY DEF Asked
  <2>2. \A j \in Download : ResultSent(j)' <=> ResultSent(j)
    BY DEF ResultSent
  <2>3. QED
    BY <2>1, <2>2 DEF QueueInv, AskedOnce
<1>3. ResultIsRead' /\ OkChecked' /\ ReadSound'
  BY DEF QueueInv, ResultIsRead, OkChecked, ReadSound
<1>4. QED
  BY <1>1, <1>2, <1>3 DEF QueueInv

LEMMA LoseQueue ==
  ASSUME QueueInv, LoseMessage
  PROVE  QueueInv'
<1>1. asked \in Seq(Download) /\ uplink \in Seq(Message)
  BY DEF QueueInv, QueueTypes
<1>2. UNCHANGED <<entry, read, part>>
  BY DEF LoseMessage
<1>3. CASE uplink # <<>> /\ uplink' = Tail(uplink) /\ asked' = asked
  <2>1. /\ uplink' \in Seq(Message)
        /\ \A i \in 1..Len(uplink') : \E k \in 1..Len(uplink) : uplink'[i] = uplink[k]
    BY <1>1, <1>3, Queued
  <2>2. QED
    BY <1>2, <1>3, <2>1, FewerMessages
<1>4. CASE asked # <<>> /\ asked' = Tail(asked) /\ uplink' = uplink
  <2>1. /\ asked' \in Seq(Download)
        /\ \A i \in 1..Len(asked') : i + 1 \in 1..Len(asked) /\ asked'[i] = asked[i + 1]
    BY <1>1, <1>4, Queued
  <2>2. \A i \in 1..Len(asked') : \E n \in 1..Len(asked) : asked'[i] = asked[n]
    BY <2>1
  <2>3. ASSUME NEW i \in 1..Len(asked'), NEW k \in 1..Len(asked'), asked'[i] = asked'[k]
        PROVE  i = k
    <3>1. i + 1 = k + 1
      BY <2>1, <2>3 DEF QueueInv, AskedOnce
    <3>2. i \in Int /\ k \in Int
      OBVIOUS
    <3>3. QED
      BY <3>1, <3>2
  <2>4. QED
    BY <1>2, <1>4, <2>1, <2>2, <2>3, FewerJobs
<1>5. QED
  BY <1>3, <1>4 DEF LoseMessage

\* The device serves a job.
LEMMA ServeQueue ==
  ASSUME ServiceInv, QueueInv, Serve
  PROVE  ServiceInv' /\ QueueInv'
<1>1. asked \in Seq(Download) /\ asked # <<>> /\ uplink \in Seq(Message)
  BY DEF Serve, QueueInv, QueueTypes
<1>2. /\ 1 \in 1..Len(asked) /\ Head(asked) = asked[1] /\ Head(asked) \in Download
      /\ Tail(asked) \in Seq(Download)
      /\ \A i \in 1..Len(Tail(asked)) :
           i + 1 \in 1..Len(asked) /\ Tail(asked)[i] = asked[i + 1] /\ i + 1 # 1
  BY <1>1, Queued
<1>3. PICK j \in Download : j = Head(asked)
  BY <1>2
<1>4. Source[j] \in Path
  BY DownloadAssumption
<1>5. PICK p \in Path : p = Source[j]
  BY <1>4
<1>6. Answers(j, p) /\ UNCHANGED <<fs, incoming>>
  <2>1. \/ GetFails(j, p, GetChunk) \/ GetTooLarge(j, p, GetChunk)
        \/ GetSent(j, p, GetChunk) \/ GetInterrupted(j, p, GetChunk)
    BY <1>3, <1>5 DEF Serve
  <2>2. QED
    BY <2>1, GetAnswers DEF ServiceInv
<1> DEFINE last == out'[Len(out')]
           got == IF last.status = "ok" THEN {last.image} ELSE {}
<1>7. /\ read' = [read EXCEPT ![j] = got]
      /\ part' = [part EXCEPT ![j] = Part(p)]
      /\ asked' = Tail(asked) /\ uplink' = uplink \o out' /\ UNCHANGED <<entry, cut>>
  BY <1>3, <1>5 DEF Serve
<1>8. /\ out' \in Seq(Message) /\ Len(out') \in Nat /\ Len(uplink) \in Nat
      /\ \A i \in 1..Len(out') : out'[i].job = j /\ (OkResult(out'[i]) => i = Len(out'))
  BY <1>1, <1>6 DEF Answers, OkResult
<1>9. /\ got \subseteq File /\ got \subseteq Visible(p)
      /\ last.topic = "fs/result"
  BY <1>6 DEF Answers
<1>10. /\ uplink' \in Seq(Message)
       /\ \A i \in 1..Len(uplink') :
            \/ i \in 1..Len(uplink) /\ uplink'[i] = uplink[i]
            \/ \E n \in 1..Len(out') : uplink'[i] = out'[n]
  <2>1. \A S : \A s, t \in Seq(S) :
          /\ s \o t \in Seq(S) /\ Len(s \o t) = Len(s) + Len(t)
          /\ \A i \in 1..(Len(s) + Len(t)) : (s \o t)[i] = IF i <= Len(s) THEN s[i]
                                                                      ELSE t[i - Len(s)]
    BY ConcatProperties
  <2>2. PICK s \in Seq(Message), t \in Seq(Message) : s = uplink /\ t = out'
    BY <1>1, <1>8
  <2>3. \A i \in 1..(Len(s) + Len(t)) :
          \/ i \in 1..Len(s) /\ (s \o t)[i] = s[i]
          \/ \E n \in 1..Len(t) : (s \o t)[i] = t[n]
    <3> SUFFICES ASSUME NEW i \in 1..(Len(s) + Len(t)), ~(i <= Len(s))
                 PROVE  \E n \in 1..Len(t) : (s \o t)[i] = t[n]
      BY <2>1
    <3>1. i - Len(s) \in 1..Len(t)
      OBVIOUS
    <3>2. QED
      BY <2>1, <3>1
  <2>4. QED
    BY <1>7, <2>1, <2>2, <2>3
<1> HIDE DEF got, last
<1>11. read' \in [Download -> SUBSET File] /\ read'[j] = got
       /\ \A k \in Download : k # j => read'[k] = read[k]
  BY <1>7, <1>9 DEF QueueInv, QueueTypes
<1>12. /\ DOMAIN part' = Download /\ part' = [k \in Download |-> part'[k]]
       /\ part'[j] = Part(p)
       /\ \A k \in Download : k # j => part'[k] = part[k]
  BY <1>7 DEF QueueInv, QueueTypes
<1>13. QueueTypes'
  BY <1>2, <1>7, <1>10, <1>11, <1>12 DEF QueueInv, QueueTypes
<1>14. entry[j].status = "open" /\ ~ResultSent(j)
  BY <1>2, <1>3 DEF QueueInv, AskedOnce, Asked
<1>15. \A k \in Download : k # j /\ ResultSent(k)' => ResultSent(k)
  BY <1>8, <1>10 DEF ResultSent
<1>16. \A k \in Download : Asked(k)' => Asked(k) /\ k # j
  <2> SUFFICES ASSUME NEW k \in Download, Asked(k)'
               PROVE  Asked(k) /\ k # j
    OBVIOUS
  <2>1. PICK i \in 1..Len(Tail(asked)) : Tail(asked)[i] = k
    BY <1>7 DEF Asked
  <2>2. i + 1 \in 1..Len(asked) /\ asked[i + 1] = k /\ i + 1 # 1
    BY <1>2, <2>1
  <2>3. k # j
    BY <1>2, <1>3, <2>2 DEF QueueInv, AskedOnce
  <2>4. QED
    BY <2>2, <2>3 DEF Asked
<1>17. \A i, k \in 1..Len(asked') : asked'[i] = asked'[k] => i = k
  <2> SUFFICES ASSUME NEW i \in 1..Len(Tail(asked)), NEW k \in 1..Len(Tail(asked)),
                      Tail(asked)[i] = Tail(asked)[k]
               PROVE  i = k
    BY <1>7
  <2>1. i + 1 = k + 1
    BY <1>2 DEF QueueInv, AskedOnce
  <2>2. i \in Int /\ k \in Int
    OBVIOUS
  <2>3. QED
    BY <2>1, <2>2
<1>18. AskedOnce'
  BY <1>7, <1>14, <1>15, <1>16, <1>17 DEF QueueInv, AskedOnce
<1>19. ResultIsRead'
  <2> SUFFICES ASSUME NEW i \in 1..Len(uplink'), OkResult(uplink'[i])
               PROVE  read'[uplink'[i].job] = {uplink'[i].image}
    BY DEF ResultIsRead, OkResult
  <2>1. CASE i \in 1..Len(uplink) /\ uplink'[i] = uplink[i]
    <3>1. uplink[i].job \in Download
      BY <1>1, <2>1 DEF Message
    <3>2. uplink[i].job # j
      BY <1>14, <2>1 DEF ResultSent
    <3>3. QED
      BY <1>11, <2>1, <3>1, <3>2 DEF QueueInv, ResultIsRead
  <2>2. CASE \E n \in 1..Len(out') : uplink'[i] = out'[n]
    <3>1. uplink'[i] = last /\ last.job = j
      BY <1>8, <2>2 DEF last
    <3>2. last.status = "ok"
      BY <3>1 DEF OkResult
    <3>3. got = {last.image}
      BY <3>2 DEF got
    <3>4. QED
      BY <1>11, <3>1, <3>3
  <2>3. QED
    BY <1>10, <2>1, <2>2
<1>20. OkChecked'
  BY <1>7, <1>11, <1>14 DEF QueueInv, OkChecked
<1>21. ReadSound'
  <2>1. ASSUME NEW f \in got
        PROVE  IsSound(f, Part(p))
    <3>1. f \in Visible(p) /\ f \in File
      BY <1>9
    <3>2. fs[p] # NoFile
      BY <3>1, NoFileAssumption DEF Visible, File
    <3>3. IsSound(fs[p], Part(p))
      BY <3>2 DEF ServiceInv, FilesSound
    <3>4. CASE incoming.active /\ incoming.path = p
      <4>1. Part(p) = incoming.received /\ fs[p] = incoming.received
        BY <3>2, <3>4 DEF Part, ServiceInv, IInv, TransferInv
      <4>2. f \in Truncations(Part(p))
        BY <3>1, <3>2, <3>4, <4>1 DEF Visible
      <4>3. Part(p) # NoFile
        BY <3>2, <4>1
      <4>4. QED
        BY <4>2, <4>3 DEF IsSound
    <3>5. CASE ~(incoming.active /\ incoming.path = p)
      <4>1. f = fs[p]
        BY <3>1, <3>5 DEF Visible
      <4>2. QED
        BY <3>3, <4>1
    <3>6. QED
      BY <3>4, <3>5
  <2>2. QED
    BY <1>11, <1>12, <2>1 DEF QueueInv, ReadSound
<1>22. QED
  BY <1>6, <1>7, <1>13, <1>18, <1>19, <1>20, <1>21, SameService DEF QueueInv

\* The WebUI records a message: a chunk, or a result that completes the entry.
LEMMA RecordQueue ==
  ASSUME QueueInv, RecordMessage
  PROVE  QueueInv'
<1>1. uplink \in Seq(Message) /\ uplink # <<>> /\ DOMAIN entry = Download
  BY DEF RecordMessage, QueueInv, QueueTypes
<1>2. /\ 1 \in 1..Len(uplink) /\ Head(uplink) = uplink[1] /\ Head(uplink) \in Message
      /\ Tail(uplink) \in Seq(Message)
      /\ \A i \in 1..Len(Tail(uplink)) :
           i + 1 \in 1..Len(uplink) /\ Tail(uplink)[i] = uplink[i + 1] /\ i + 1 # 1
  BY <1>1, Queued
<1>3. PICK m \in Message : m = Head(uplink)
  BY <1>2
<1>4. PICK j \in Download : j = m.job
  BY DEF Message
<1>5. entry' = Recorded(m) /\ uplink' = Tail(uplink) /\ UNCHANGED <<asked, read, part>>
  BY <1>3 DEF RecordMessage
<1>6. entry[j] = [chunks |-> entry[j].chunks, data |-> entry[j].data,
                  status |-> entry[j].status]
  BY DEF QueueInv, QueueTypes
<1>7. ASSUME NEW e, entry' = [entry EXCEPT ![j] = e]
      PROVE  /\ DOMAIN entry' = Download /\ entry' = [k \in Download |-> entry'[k]]
             /\ entry'[j] = e /\ \A k \in Download : k # j => entry'[k] = entry[k]
  BY <1>1, <1>7
<1> DEFINE SameOutcome == entry'[j].status = entry[j].status /\ entry'[j].data = entry[j].data
           Completed ==
             /\ OkResult(m) /\ entry'[j].status \in {"ok", "crc_mismatch"}
             /\ entry'[j].status = "ok" => Crc(entry'[j].data) = Crc(m.image)
<1>8. /\ DOMAIN entry' = Download /\ entry' = [k \in Download |-> entry'[k]]
      /\ \A k \in Download : k # j => entry'[k] = entry[k]
      /\ entry'[j] = [chunks |-> entry'[j].chunks, data |-> entry'[j].data,
                      status |-> entry'[j].status]
      /\ SameOutcome \/ Completed
  <2>1. /\ \A a, b, c, d : [[chunks |-> a, data |-> b, status |-> c] EXCEPT !.chunks = d]
                             = [chunks |-> d, data |-> b, status |-> c]
        /\ \A a, b, c, d : [[chunks |-> a, data |-> b, status |-> c] EXCEPT !.data = d]
                             = [chunks |-> a, data |-> d, status |-> c]
        /\ \A a, b, c, d : [[chunks |-> a, data |-> b, status |-> c] EXCEPT !.status = d]
                             = [chunks |-> a, data |-> b, status |-> d]
    OBVIOUS
  <2>2. CASE m.topic = "fs/data"
    <3> DEFINE c == [s \in DOMAIN entry[j].chunks \cup {m.seq} |->
                       IF s = m.seq THEN m.data ELSE entry[j].chunks[s]]
    <3>1. entry' = [entry EXCEPT ![j] = [entry[j] EXCEPT !.chunks = c]]
      BY <1>4, <1>5, <2>2 DEF Recorded, WithChunk
    <3> HIDE DEF c
    <3>2. [entry[j] EXCEPT !.chunks = c]
            = [chunks |-> c, data |-> entry[j].data, status |-> entry[j].status]
      BY <1>6, <2>1
    <3>3. QED
      BY <1>7, <3>1, <3>2
  <2>3. CASE OkResult(m)
    <3> DEFINE d == Joined(entry[j].chunks)
               st == IF Crc(d) = Crc(m.image) THEN "ok" ELSE "crc_mismatch"
    <3>1. entry' = [entry EXCEPT ![j] = [entry[j] EXCEPT !.data = d, !.status = st]]
      BY <1>4, <1>5, <2>3 DEF Recorded, Assembled, OkResult
    <3>2. st \in {"ok", "crc_mismatch"} /\ (st = "ok" => Crc(d) = Crc(m.image))
      OBVIOUS
    <3> HIDE DEF d, st
    <3>3. [entry[j] EXCEPT !.data = d, !.status = st]
            = [chunks |-> entry[j].chunks, data |-> d, status |-> st]
      <4>1. [entry[j] EXCEPT !.data = d, !.status = st]
              = [[entry[j] EXCEPT !.data = d] EXCEPT !.status = st]
        OBVIOUS
      <4>2. [entry[j] EXCEPT !.data = d]
              = [chunks |-> entry[j].chunks, data |-> d, status |-> entry[j].status]
        BY <1>6, <2>1
      <4>3. [[chunks |-> entry[j].chunks, data |-> d, status |-> entry[j].status]
               EXCEPT !.status = st]
              = [chunks |-> entry[j].chunks, data |-> d, status |-> st]
        BY <2>1
      <4>4. QED
        BY <4>1, <4>2, <4>3, Zenon
    <3>4. QED
      BY <1>7, <2>3, <3>1, <3>2, <3>3
  <2>4. CASE m.topic # "fs/data" /\ ~OkResult(m)
    <3>1. entry' = entry
      BY <1>5, <2>4 DEF Recorded, OkResult
    <3>2. QED
      BY <3>1, <1>6 DEF QueueInv, QueueTypes
  <2>5. QED
    BY <2>2, <2>3, <2>4
<1>9. QueueTypes'
  BY <1>2, <1>5, <1>8 DEF QueueInv, QueueTypes
<1>10. \A k \in Download : ResultSent(k)' => ResultSent(k)
  BY <1>2, <1>5 DEF ResultSent
<1>11. \A k \in Download : Asked(k)' <=> Asked(k)
  BY <1>5 DEF Asked
<1>12. OkResult(m) => ResultSent(j) /\ read[j] = {m.image} /\ m.image \in File
  <2>1. OkResult(m) => ResultSent(j)
    BY <1>2, <1>3, <1>4 DEF ResultSent
  <2>2. OkResult(m) => read[j] = {m.image}
    BY <1>2, <1>3, <1>4 DEF QueueInv, ResultIsRead
  <2>3. OkResult(m) => m.image \in File
    BY DEF OkResult, Message
  <2>4. QED
    BY <2>1, <2>2, <2>3
<1>13. AskedOnce'
  <2>1. ASSUME NEW k \in Download, Asked(k)'
        PROVE  entry'[k].status = "open" /\ ~ResultSent(k)'
    <3>1. entry[k].status = "open" /\ ~ResultSent(k)
      BY <1>11, <2>1 DEF QueueInv, AskedOnce
    <3>2. QED
      BY <1>8, <1>10, <1>12, <3>1
  <2>2. ASSUME NEW k \in Download, entry'[k].status = "unasked"
        PROVE  ~ResultSent(k)'
    <3>1. entry[k].status = "unasked"
      BY <1>8, <2>2
    <3>2. QED
      BY <1>10, <3>1 DEF QueueInv, AskedOnce
  <2>3. \A i, k \in 1..Len(asked') : asked'[i] = asked'[k] => i = k
    BY <1>5 DEF QueueInv, AskedOnce
  <2>4. QED
    BY <2>1, <2>2, <2>3 DEF AskedOnce
<1>14. ResultIsRead'
  BY <1>2, <1>5 DEF QueueInv, ResultIsRead
<1>15. OkChecked'
  <2> SUFFICES ASSUME NEW k \in Download, entry'[k].status = "ok"
               PROVE  \E f \in File : read'[k] = {f} /\ Crc(entry'[k].data) = Crc(f)
    BY DEF OkChecked
  <2>1. CASE k # j \/ SameOutcome
    BY <1>5, <1>8, <2>1 DEF QueueInv, OkChecked
  <2>2. CASE k = j /\ Completed
    BY <1>5, <1>12, <2>2
  <2>3. QED
    BY <1>8, <2>1, <2>2
<1>16. ReadSound'
  BY <1>5 DEF QueueInv, ReadSound
<1>17. QED
  BY <1>9, <1>13, <1>14, <1>15, <1>16 DEF QueueInv

-----------------------------------------------------------------------------
(* What a download marked ok is. *)

LEMMA InitDownload == DownloadInit => DownloadInv
  BY InitService, InitQueue DEF DownloadInit, DownloadInv

LEMMA NextDownload ==
  DownloadInv /\ [DownloadNext]_<<vars, downloadVars>> => DownloadInv'
<1> SUFFICES ASSUME DownloadInv, [DownloadNext]_<<vars, downloadVars>>
             PROVE  DownloadInv'
  OBVIOUS
<1>1. CASE \E j \in Download : RequestDownload(j)
  <2>1. UNCHANGED <<fs, incoming, cut>>
    BY <1>1 DEF RequestDownload, vars
  <2>2. QED
    BY <1>1, <2>1, SameService, RequestQueue DEF DownloadInv
<1>2. CASE Serve
  BY <1>2, ServeQueue DEF DownloadInv
<1>3. CASE OtherJob
  BY <1>3, OtherJobService, SameQueue DEF DownloadInv, OtherJob
<1>4. CASE PowerCut
  BY <1>4, PowerCutService, SameQueue DEF DownloadInv, PowerCut
<1>5. CASE LoseMessage
  BY <1>5, SameService, LoseQueue DEF DownloadInv, LoseMessage, vars
<1>6. CASE RecordMessage
  BY <1>6, SameService, RecordQueue DEF DownloadInv, RecordMessage, vars
<1>7. CASE UNCHANGED <<vars, downloadVars>>
  BY <1>7, SameService, SameQueue DEF DownloadInv, vars, downloadVars
<1>8. QED
  BY <1>1, <1>2, <1>3, <1>4, <1>5, <1>6, <1>7 DEF DownloadNext

\* Whatever the connection lost and whenever the power did, a download marked ok has
\* the checksum of a file that the device read for it, and that file is one that was
\* flashed, a verified upload, or the beginning of one upload that was in progress or
\* had been broken off (sendMqttFile, AppState._record_file_transfer_unlocked).
DownloadChecked ==
  \A j \in Download :
    entry[j].status = "ok" =>
      \E f \in File :
        read[j] = {f} /\ Crc(entry[j].data) = Crc(f) /\ IsSound(f, part[j])

\* Of two files of one checksum, the WebUI cannot tell one from the other.
Collision ==
  \E j \in Download : \E f \in read[j] :
    entry[j].status = "ok" /\ Crc(entry[j].data) = Crc(f) /\ entry[j].data # f

\* A download that is marked ok was read by the device as it names it, and is whole or
\* the beginning of one upload, for every set of jobs and messages, every checksum
\* function and every loss of messages and of power (sendMqttFile,
\* AppState._record_file_transfer_unlocked).
THEOREM DownloadsChecked == DownloadSpec => []DownloadChecked
<1>1. DownloadInv => DownloadChecked
  <2> SUFFICES ASSUME DownloadInv, NEW j \in Download, entry[j].status = "ok"
               PROVE  \E f \in File : /\ read[j] = {f} /\ Crc(entry[j].data) = Crc(f)
                                      /\ IsSound(f, part[j])
    BY DEF DownloadChecked
  <2>1. PICK f \in File : read[j] = {f} /\ Crc(entry[j].data) = Crc(f)
    BY DEF DownloadInv, QueueInv, OkChecked
  <2>2. f \in read[j]
    BY <2>1
  <2>3. IsSound(f, part[j])
    BY <2>2 DEF DownloadInv, QueueInv, ReadSound
  <2>4. QED
    BY <2>1, <2>3
<1>2. QED
  BY <1>1, InitDownload, NextDownload, PTL DEF DownloadSpec

\* A download marked ok is, byte for byte, what the device read; the only exception is a
\* checksum that two different files have in common.
THEOREM DownloadsExact == DownloadSpec => [](Collision \/ DownloadExact)
<1>1. DownloadChecked => Collision \/ DownloadExact
  BY DEF DownloadChecked, Collision, DownloadExact
<1>2. QED
  BY <1>1, DownloadsChecked, PTL

\* A download marked ok is a whole file or the beginning of one upload, never a mixture
\* of two; the only exception is again a shared checksum.
THEOREM DownloadsWhole == DownloadSpec => [](Collision \/ DownloadWhole)
<1>1. DownloadChecked => Collision \/ DownloadWhole
  <2> SUFFICES ASSUME DownloadChecked, ~Collision, NEW j \in Download, entry[j].status = "ok"
               PROVE  IsSound(entry[j].data, part[j])
    BY DEF DownloadWhole, IsSound
  <2>1. PICK f \in File : /\ read[j] = {f} /\ Crc(entry[j].data) = Crc(f)
                         /\ IsSound(f, part[j])
    BY DEF DownloadChecked
  <2>2. f = entry[j].data
    BY <2>1 DEF Collision
  <2>3. QED
    BY <2>1, <2>2
<1>2. QED
  BY <1>1, DownloadsChecked, PTL

===============================================================================
