--------------------------- MODULE FileServerProofs ---------------------------
(***************************************************************************)
(* TLAPS proofs about FileServer, for every set of jobs, paths, bytes and  *)
(* messages, every size limit and every checksum function.                 *)
(***************************************************************************)
EXTENDS FileServer, TLAPS

\* The inductive invariant.  TransferInv needs the types; the bound on the
\* received bytes in TypeOK needs the announced size that TransferInv bounds.
IInv == TypeOK /\ TransferInv

\* The messages of Spec are among those the lemmas below are about.
Chunk == File \cup {Undecodable}

LEMMA MessageTypes ==
  SeqNo \subseteq Nat /\ ChunkData \subseteq Chunk /\ Size \subseteq Nat /\ Checksum \subseteq Nat
  BY MessageAssumption DEF Chunk, File

\* A chunk that decodes is a sequence of bytes.
LEMMA DecodedChunk ==
  ASSUME NEW d \in Chunk, Decodes(d)
  PROVE  d \in Seq(Byte) /\ Len(d) \in Nat
  BY DEF Decodes, Chunk, File

LEMMA InitIInv == Init => IInv
<1> SUFFICES ASSUME Init PROVE IInv
  OBVIOUS
<1>1. NoTransfer \in Transfer
  <2>1. (CHOOSE j \in Job : TRUE) \in Job /\ (CHOOSE p \in Path : TRUE) \in Path
    BY PathAssumption
  <2>2. QED
    BY <2>1 DEF NoTransfer, Transfer, File
<1>2. fs \in [Path -> File \cup {NoFile}]
  BY MessageAssumption DEF Init, File
<1>3. Len(<<>>) = 0 /\ MaxFile \in Nat
  BY LimitAssumption
<1>4. QED
  BY <1>1, <1>2, <1>3 DEF Init, IInv, TypeOK, TransferInv, NoTransfer

\* Dropping the transfer in progress keeps the file system well-typed, and what
\* it does to the other paths is nothing.
LEMMA SupersededType ==
  ASSUME IInv
  PROVE  /\ Superseded.fs \in [Path -> File \cup {NoFile}]
         /\ FinishedFs(incoming, FALSE) = [fs EXCEPT ![incoming.path] = NoFile]
  BY DEF IInv, TypeOK, Transfer, Superseded, FinishedFs

\* Steps that only answer.
LEMMA UnchangedStep ==
  ASSUME IInv, UNCHANGED <<fs, incoming>>
  PROVE  IInv'
  BY DEF IInv, TypeOK, TransferInv

LEMMA PutBegunStep ==
  ASSUME IInv, NEW j \in Job, NEW p \in Path, NEW size \in Nat, NEW crc \in Nat,
         PutBegun(j, p, size, crc)
  PROVE  IInv'
<1>1. size \in Nat /\ crc \in Nat /\ MaxFile \in Nat
  BY LimitAssumption
<1>2. size # 0 /\ size <= MaxFile /\ crc # 0 /\ p \in AllowedPath
  BY DEF PutBegun, AcceptablePut
<1>3. <<>> \in File /\ Len(<<>>) = 0
  BY DEF File
<1>4. incoming' \in Transfer /\ incoming'.received = <<>> /\ incoming'.nextSeq = 0
  BY <1>1, <1>3 DEF PutBegun, Transfer
<1>5. fs' \in [Path -> File \cup {NoFile}] /\ fs'[p] = <<>>
  BY <1>3, SupersededType DEF PutBegun
<1>6. TypeOK'
  BY <1>1, <1>3, <1>4, <1>5 DEF TypeOK
<1>7. TransferInv'
  BY <1>1, <1>2, <1>3, <1>5 DEF PutBegun, TransferInv
<1>8. QED
  BY <1>6, <1>7 DEF IInv

\* Steps that leave no transfer active, and every path with a file or none.
LEMMA InactiveStep ==
  ASSUME IInv, fs' \in [Path -> File \cup {NoFile}],
         incoming' = [incoming EXCEPT !.active = FALSE]
  PROVE  IInv'
<1>1. /\ incoming' \in Transfer /\ ~incoming'.active
      /\ incoming'.received = incoming.received /\ incoming'.nextSeq = incoming.nextSeq
  BY DEF IInv, TypeOK, Transfer
<1>2. QED
  BY <1>1 DEF IInv, TypeOK, TransferInv

\* What accepting a chunk does to the transfer and to its file.
LEMMA ExtendedTransfer ==
  ASSUME IInv, NEW j \in Job, NEW s \in Nat, NEW d \in Chunk,
         ChunkAcceptable(j, s, d)
  PROVE  /\ Extended(d) \in Transfer
         /\ Extended(d).path = incoming.path
         /\ Extended(d).active
         /\ Extended(d).expectedSize = incoming.expectedSize
         /\ Extended(d).expectedCrc = incoming.expectedCrc
         /\ Extended(d).received = incoming.received \o d
         /\ Len(Extended(d).received) <= incoming.expectedSize
         /\ incoming.expectedSize <= MaxFile
         /\ Extended(d).nextSeq <= Len(Extended(d).received)
         /\ Written(d) \in [Path -> File \cup {NoFile}]
         /\ Written(d)[incoming.path] \in {NoFile, incoming.received \o d}
<1>1. d \in Seq(Byte) /\ Len(d) \in Nat /\ Len(d) # 0
  BY DecodedChunk DEF ChunkAcceptable, Fits
<1>2. incoming \in Transfer /\ incoming.active /\ incoming.received \in Seq(Byte)
  BY DEF IInv, TypeOK, Transfer, File, ChunkAcceptable, OwnTransfer
<1>3. /\ incoming.received \o d \in Seq(Byte)
      /\ Len(incoming.received \o d) = Len(incoming.received) + Len(d)
  BY <1>1, <1>2
<1>4. Len(incoming.received) \in Nat /\ incoming.nextSeq \in Nat /\ incoming.expectedSize \in Nat
  BY <1>2 DEF Transfer
<1>5. /\ Extended(d) \in Transfer
      /\ Extended(d).path = incoming.path
      /\ Extended(d).active
      /\ Extended(d).expectedSize = incoming.expectedSize
      /\ Extended(d).expectedCrc = incoming.expectedCrc
      /\ Extended(d).received = incoming.received \o d
      /\ Extended(d).nextSeq = incoming.nextSeq + 1
  <2> DEFINE r == incoming.received \o d
             n == incoming.nextSeq + 1
  <2>1. r \in File /\ n \in Nat
    BY <1>3, <1>4 DEF File
  <2> HIDE DEF r, n
  <2>2. [incoming EXCEPT !.received = r, !.nextSeq = n] \in Transfer
    BY <1>2, <2>1 DEF Transfer
  <2>3. Extended(d) = [incoming EXCEPT !.received = r, !.nextSeq = n]
    BY DEF Extended, r, n
  <2>4. QED
    BY <1>2, <2>2, <2>3 DEF Transfer, r, n
<1>6. Len(Extended(d).received) <= incoming.expectedSize
  BY <1>3, <1>5 DEF ChunkAcceptable, Fits
<1>7. incoming.expectedSize <= MaxFile /\ fs[incoming.path] \in {NoFile, incoming.received}
  BY <1>2 DEF IInv, TransferInv
<1>8. Extended(d).nextSeq <= Len(Extended(d).received)
  BY <1>1, <1>3, <1>4, <1>5 DEF IInv, TypeOK
<1>9. fs \in [Path -> File \cup {NoFile}] /\ incoming.path \in Path
  BY <1>2 DEF IInv, TypeOK, Transfer
<1>10. /\ Written(d) \in [Path -> File \cup {NoFile}]
       /\ Written(d)[incoming.path] \in {NoFile, incoming.received \o d}
  <2>1. CASE fs[incoming.path] = NoFile
    BY <2>1, <1>9 DEF Written
  <2>2. CASE fs[incoming.path] # NoFile
    <3>1. fs[incoming.path] = incoming.received
      BY <2>2, <1>7
    <3>2. Written(d) = [fs EXCEPT ![incoming.path] = incoming.received \o d]
      BY <2>2, <3>1, <1>9 DEF Written
    <3>3. QED
      BY <3>2, <1>3, <1>9 DEF File
  <2>3. QED
    BY <2>1, <2>2
<1>11. QED
  BY <1>5, <1>6, <1>7, <1>8, <1>10

LEMMA ChunkWrittenStep ==
  ASSUME IInv, NEW j \in Job, NEW s \in Nat, NEW d \in Chunk, ChunkWritten(j, s, d)
  PROVE  IInv'
<1>1. ChunkAcceptable(j, s, d) /\ incoming' = Extended(d) /\ fs' = Written(d)
  BY DEF ChunkWritten
<1>2. /\ Len(incoming'.received) < incoming'.expectedSize
      /\ Len(incoming'.received) <= MaxFile
  <2>1. Len(Extended(d).received) < incoming.expectedSize
    BY DEF ChunkWritten
  <2>2. Len(Extended(d).received) \in Nat /\ incoming.expectedSize \in Nat
    BY <1>1, ExtendedTransfer DEF Transfer, File
  <2>3. QED
    BY <1>1, <2>1, <2>2, ExtendedTransfer, LimitAssumption
<1>3. TypeOK'
  BY <1>1, <1>2, ExtendedTransfer DEF TypeOK
<1>4. incoming.active /\ TransferInv
  BY <1>1 DEF ChunkAcceptable, OwnTransfer, IInv
<1>5. TransferInv'
  BY <1>1, <1>2, <1>4, ExtendedTransfer DEF TransferInv
<1>6. QED
  BY <1>3, <1>5 DEF IInv

LEMMA LastChunkWrittenStep ==
  ASSUME IInv, NEW j \in Job, NEW s \in Nat, NEW d \in Chunk,
         LastChunkWritten(j, s, d)
  PROVE  IInv'
<1>1. ChunkAcceptable(j, s, d) /\ incoming' = [Extended(d) EXCEPT !.active = FALSE]
  BY DEF LastChunkWritten
<1>2. /\ incoming' \in Transfer /\ ~incoming'.active
      /\ incoming'.received = Extended(d).received
      /\ incoming'.nextSeq = Extended(d).nextSeq
  <2> HIDE DEF Extended
  <2>1. Extended(d) \in Transfer
    BY <1>1, ExtendedTransfer
  <2>2. QED
    BY <1>1, <2>1 DEF Transfer
<1>3. fs' \in [Path -> File \cup {NoFile}]
  BY <1>1, ExtendedTransfer DEF LastChunkWritten, IInv, TypeOK
<1>4. Len(incoming'.received) <= MaxFile
  <2>1. /\ Len(Extended(d).received) \in Nat
        /\ incoming.expectedSize \in Nat /\ MaxFile \in Nat
    BY <1>1, ExtendedTransfer, LimitAssumption DEF Transfer, File
  <2>2. QED
    BY <1>1, <1>2, <2>1, ExtendedTransfer
<1>5. incoming'.nextSeq <= Len(incoming'.received)
  BY <1>1, <1>2, ExtendedTransfer
<1>6. QED
  BY <1>2, <1>3, <1>4, <1>5 DEF IInv, TypeOK, TransferInv

\* What a loss of power leaves of a file.
LEMMA PrefixIsFile ==
  ASSUME NEW f \in File, NEW g \in Truncations(f)
  PROVE  g \in File
<1>1. PICK n \in 0..Len(f) : g = SubSeq(f, 1, n)
  BY DEF Truncations
<1>2. QED
  BY <1>1 DEF File

\* After a restart there is no transfer.
LEMMA RestartStep ==
  ASSUME IInv, fs' \in [Path -> File \cup {NoFile}], incoming' = NoTransfer
  PROVE  IInv'
<1>1. (CHOOSE j \in Job : TRUE) \in Job /\ (CHOOSE p \in Path : TRUE) \in Path
  BY PathAssumption
<1>2. NoTransfer \in Transfer
  BY <1>1 DEF NoTransfer, Transfer, File
<1>3. Len(<<>>) = 0 /\ MaxFile \in Nat
  BY LimitAssumption
<1>4. QED
  BY <1>2, <1>3 DEF IInv, TypeOK, TransferInv, NoTransfer

LEMMA PowerLossStep ==
  ASSUME IInv, PowerLoss
  PROVE  IInv'
<1>1. fs' \in [Path -> File \cup {NoFile}]
  <2>1. CASE incoming.active /\ fs[incoming.path] # NoFile
    <3>1. incoming.path \in Path /\ fs[incoming.path] \in File
      BY <2>1 DEF IInv, TypeOK, Transfer
    <3>2. PICK g \in Truncations(fs[incoming.path]) : fs' = [fs EXCEPT ![incoming.path] = g]
      BY <2>1 DEF PowerLoss
    <3>3. QED
      BY <3>1, <3>2, PrefixIsFile DEF IInv, TypeOK
  <2>2. CASE ~(incoming.active /\ fs[incoming.path] # NoFile)
    BY <2>2 DEF PowerLoss, IInv, TypeOK
  <2>3. QED
    BY <2>1, <2>2
<1>2. QED
  BY <1>1, RestartStep DEF PowerLoss

LEMMA PowerLossAfterAckStep ==
  ASSUME IInv, NEW j \in Job, NEW s \in Nat, NEW d \in Chunk,
         PowerLossAfterAck(j, s, d)
  PROVE  IInv'
<1>1. fs \in [Path -> File \cup {NoFile}] /\ incoming.path \in Path
  BY DEF IInv, TypeOK, Transfer
<1>2. ChunkAcceptable(j, s, d)
  BY DEF PowerLossAfterAck
<1>3. fs' \in [Path -> File \cup {NoFile}]
  <2>1. CASE Written(d)[incoming.path] = NoFile
    BY <2>1, <1>1 DEF PowerLossAfterAck
  <2>2. CASE Written(d)[incoming.path] # NoFile
    <3>1. Written(d)[incoming.path] \in File
      BY <1>1, <1>2, <2>2, ExtendedTransfer
    <3>2. PICK g \in Truncations(Written(d)[incoming.path]) :
            fs' = [fs EXCEPT ![incoming.path] = g]
      BY <2>2 DEF PowerLossAfterAck
    <3>3. QED
      BY <3>1, <3>2, <1>1, PrefixIsFile
  <2>3. QED
    BY <2>1, <2>2
<1>4. QED
  BY <1>3, RestartStep DEF PowerLossAfterAck

\* A refused or unwritable chunk, and a put_mqtt whose file does not open, leave
\* no transfer.
LEMMA DroppingSteps ==
  ASSUME IInv, NEW j \in Job
  PROVE  /\ \A s \in Nat, st \in {"rejected", "failed"} : Refuse(j, s, st) => IInv'
         /\ \A p \in Path, size, crc \in Nat :
              PutOpenFails(j, p, size, crc) => IInv'
<1>1. FinishedFs(incoming, FALSE) \in [Path -> File \cup {NoFile}]
  BY SupersededType DEF IInv, TypeOK, Transfer
<1>2. ASSUME NEW s \in Nat, NEW st \in {"rejected", "failed"}, Refuse(j, s, st)
      PROVE  IInv'
  BY <1>1, <1>2, InactiveStep DEF Refuse
<1>3. ASSUME NEW p \in Path, NEW size \in Nat, NEW crc \in Nat,
             PutOpenFails(j, p, size, crc)
      PROVE  IInv'
  BY <1>3, SupersededType, InactiveStep DEF PutOpenFails
<1>4. QED
  BY <1>2, <1>3

LEMMA DeletedStep ==
  ASSUME IInv, NEW j \in Job, NEW p \in Path, Deleted(j, p)
  PROVE  IInv'
  BY DEF Deleted, IInv, TypeOK, TransferInv, Transfer

\* Every step of the file service keeps the invariant.
LEMMA NextIInv == IInv /\ [Next]_vars => IInv'
<1> SUFFICES ASSUME IInv, [Next]_vars PROVE IInv'
  OBVIOUS
<1>1. CASE HandleFileJob
  <2>1. PICK j \in Job :
          \/ ListFiles(j)
          \/ UnsupportedJob(j)
          \/ \E p \in Path :
               \/ DeleteFails(j, p) \/ Deleted(j, p)
               \/ \E size \in Size, crc \in Checksum :
                    \/ PutRejected(j, p, size, crc)
                    \/ PutOpenFails(j, p, size, crc)
                    \/ PutBegun(j, p, size, crc)
               \/ \E n \in ChunkSize :
                    \/ GetFails(j, p, n) \/ GetTooLarge(j, p, n)
                    \/ GetSent(j, p, n) \/ GetInterrupted(j, p, n)
    BY <1>1 DEF HandleFileJob
  <2>2. CASE ListFiles(j) \/ UnsupportedJob(j)
    BY <2>2, UnchangedStep DEF ListFiles, UnsupportedJob
  <2>3. ASSUME NEW p \in Path, DeleteFails(j, p) \/ Deleted(j, p)
        PROVE  IInv'
    BY <2>3, UnchangedStep, DeletedStep DEF DeleteFails
  <2>4. ASSUME NEW p \in Path, NEW size \in Size, NEW crc \in Checksum,
               \/ PutRejected(j, p, size, crc)
               \/ PutOpenFails(j, p, size, crc)
               \/ PutBegun(j, p, size, crc)
        PROVE  IInv'
    BY <2>4, MessageTypes, UnchangedStep, DroppingSteps, PutBegunStep DEF PutRejected
  <2>5. ASSUME NEW p \in Path, NEW n \in ChunkSize,
               \/ GetFails(j, p, n) \/ GetTooLarge(j, p, n)
               \/ GetSent(j, p, n) \/ GetInterrupted(j, p, n)
        PROVE  IInv'
    BY <2>5, UnchangedStep DEF GetFails, GetTooLarge, GetSent, GetInterrupted
  <2>6. QED
    BY <2>1, <2>2, <2>3, <2>4, <2>5
<1>2. CASE HandleFileData
  <2>1. PICK j \in Job, s \in SeqNo, d \in ChunkData :
          \/ ChunkWithoutTransfer(j, s, d) \/ ChunkRefused(j, s, d)
          \/ ChunkWriteFails(j, s, d) \/ ChunkWritten(j, s, d)
          \/ LastChunkWritten(j, s, d)
    BY <1>2 DEF HandleFileData
  <2>2. CASE ChunkWithoutTransfer(j, s, d)
    BY <2>2, UnchangedStep DEF ChunkWithoutTransfer
  <2>3. CASE ChunkRefused(j, s, d) \/ ChunkWriteFails(j, s, d)
    BY <2>3, MessageTypes, DroppingSteps DEF ChunkRefused, ChunkWriteFails
  <2>4. CASE ChunkWritten(j, s, d)
    BY <2>4, MessageTypes, ChunkWrittenStep
  <2>5. CASE LastChunkWritten(j, s, d)
    BY <2>5, MessageTypes, LastChunkWrittenStep
  <2>6. QED
    BY <2>1, <2>2, <2>3, <2>4, <2>5
<1>3. CASE PowerLoss
  BY <1>3, PowerLossStep
<1>4. CASE \E j \in Job, s \in SeqNo, d \in ChunkData : PowerLossAfterAck(j, s, d)
  BY <1>4, MessageTypes, PowerLossAfterAckStep
<1>5. CASE UNCHANGED vars
  BY <1>5, UnchangedStep DEF vars
<1>6. QED
  BY <1>1, <1>2, <1>3, <1>4, <1>5 DEF Next

\* The types, and the bounds on what a transfer holds, for every message a
\* controller can send in every order.
THEOREM TypeCorrect == Spec => []TypeOK
<1>1. IInv => TypeOK
  BY DEF IInv
<1>2. QED
  BY <1>1, InitIInv, NextIInv, PTL DEF Spec

\* While a transfer is active its file holds exactly the bytes received for it.
THEOREM TransferCorrect == Spec => []TransferInv
<1>1. IInv => TransferInv
  BY DEF IInv
<1>2. QED
  BY <1>1, InitIInv, NextIInv, PTL DEF Spec

-----------------------------------------------------------------------------
(* The handlers implement FileStore.  Every step is mapped to the abstract  *)
(* step its comment names, or to none.                                      *)

StoreStep == [Store!StoreNext]_(Store!storeVars)

\* The view of the file system in a state without an active transfer.
LEMMA IdleView ==
  ASSUME fs \in [Path -> File \cup {NoFile}], ~incoming.active
  PROVE  StoreView = fs
  BY DEF StoreView

LEMMA IdleViewNext ==
  ASSUME fs' \in [Path -> File \cup {NoFile}], ~incoming'.active
  PROVE  StoreView' = fs'
  BY DEF StoreView

\* Dropping the transfer, in the view, is what finishMqttPut(false) does.
LEMMA DroppedView ==
  ASSUME IInv
  PROVE  /\ Store!Dropped = Superseded.fs
         /\ incoming.active => Store!Dropped = [fs EXCEPT ![incoming.path] = NoFile]
<1>1. fs \in [Path -> File \cup {NoFile}] /\ incoming.path \in Path
  BY DEF IInv, TypeOK, Transfer
<1>2. \A p \in Path : fs[p] # InProgress
  BY <1>1, NoFileAssumption DEF File
<1>3. CASE incoming.active
  <2>1. Store!Dropped = [fs EXCEPT ![incoming.path] = NoFile]
    BY <1>1, <1>2, <1>3 DEF Store!Dropped, StoreView
  <2>2. QED
    BY <2>1, <1>3, SupersededType DEF Superseded
<1>4. CASE ~incoming.active
  BY <1>1, <1>2, <1>4 DEF Store!Dropped, StoreView, Superseded
<1>5. QED
  BY <1>3, <1>4

LEMMA SamePromise ==
  ASSUME incoming'.expectedSize = incoming.expectedSize,
         incoming'.expectedCrc = incoming.expectedCrc
  PROVE  Promised' = Promised
  BY DEF Promised

\* Answers change nothing.
LEMMA UnchangedView ==
  ASSUME UNCHANGED <<fs, incoming>>
  PROVE  StoreStep
  BY DEF StoreStep, Store!storeVars, StoreView, Promised

\* Store!Begin.
LEMMA PutBegunView ==
  ASSUME IInv, IInv', NEW j \in Job, NEW p \in Path, NEW size \in Nat,
         NEW crc \in Nat, PutBegun(j, p, size, crc)
  PROVE  StoreStep
<1>1. fs' = [Superseded.fs EXCEPT ![p] = <<>>] /\ incoming'.active /\ incoming'.path = p
  BY DEF PutBegun
<1>2. Superseded.fs \in [Path -> File \cup {NoFile}]
  BY SupersededType
<1>3. StoreView' = [Store!Dropped EXCEPT ![p] = InProgress]
  BY <1>1, <1>2, DroppedView DEF StoreView
<1>4. Promised' \in [size : Nat \ {0}, crc : Nat \ {0}]
  <2>1. size \in Nat \ {0} /\ crc \in Nat \ {0}
    BY DEF PutBegun, AcceptablePut
  <2>2. incoming'.expectedSize = size /\ incoming'.expectedCrc = crc
    BY DEF PutBegun
  <2>3. QED
    BY <2>1, <2>2 DEF Promised
<1>5. Store!Begin(p)
  BY <1>3, <1>4 DEF Store!Begin
<1>6. QED
  BY <1>5 DEF StoreStep, Store!StoreNext

\* Store!Abort.
LEMMA AbortView ==
  ASSUME IInv, fs' = Superseded.fs, incoming' = [incoming EXCEPT !.active = FALSE]
  PROVE  StoreStep
<1>1. incoming \in Transfer
  BY DEF IInv, TypeOK
<1>2. /\ ~incoming'.active
      /\ incoming'.expectedSize = incoming.expectedSize
      /\ incoming'.expectedCrc = incoming.expectedCrc
  BY <1>1 DEF Transfer
<1>3. fs' \in [Path -> File \cup {NoFile}]
  BY SupersededType
<1>4. StoreView' = Store!Dropped
  BY <1>2, <1>3, IdleViewNext, DroppedView
<1>5. Store!Abort
  BY <1>2, <1>4, SamePromise DEF Store!Abort
<1>6. QED
  BY <1>5 DEF StoreStep, Store!StoreNext

LEMMA RefuseView ==
  ASSUME IInv, NEW j \in Job, NEW s \in Nat, NEW st \in {"rejected", "failed"},
         incoming.active, Refuse(j, s, st)
  PROVE  StoreStep
  BY AbortView DEF Refuse, Superseded

\* The bytes of an upload in progress cannot be seen in the store.
LEMMA ChunkWrittenView ==
  ASSUME IInv, NEW j \in Job, NEW s \in Nat, NEW d \in Chunk, ChunkWritten(j, s, d)
  PROVE  StoreStep
<1>1. ChunkAcceptable(j, s, d) /\ incoming' = Extended(d) /\ fs' = Written(d)
  BY DEF ChunkWritten
<1>2. incoming.active
  BY <1>1 DEF ChunkAcceptable, OwnTransfer
<1>3. fs \in [Path -> File \cup {NoFile}]
  BY DEF IInv, TypeOK
<1>4. \A p \in Path : p # incoming.path => Written(d)[p] = fs[p]
  BY <1>3 DEF Written
<1>5. StoreView' = StoreView
  BY <1>1, <1>2, <1>4, ExtendedTransfer DEF StoreView
<1>6. Promised' = Promised
  BY <1>1, ExtendedTransfer, SamePromise
<1>7. QED
  BY <1>5, <1>6 DEF StoreStep, Store!storeVars

\* Store!Commit when the image is verified, Store!Abort otherwise.
LEMMA LastChunkWrittenView ==
  ASSUME IInv, IInv', NEW j \in Job, NEW s \in Nat, NEW d \in Chunk,
         LastChunkWritten(j, s, d)
  PROVE  StoreStep
<1> DEFINE t == Extended(d)
<1>1. ChunkAcceptable(j, s, d) /\ incoming' = [t EXCEPT !.active = FALSE]
  BY DEF LastChunkWritten
<1>2. /\ t \in Transfer /\ t.path = incoming.path
      /\ t.expectedSize = incoming.expectedSize /\ t.expectedCrc = incoming.expectedCrc
      /\ t.received = incoming.received \o d
      /\ Written(d)[incoming.path] \in {NoFile, incoming.received \o d}
      /\ Written(d) \in [Path -> File \cup {NoFile}]
  BY <1>1, ExtendedTransfer
<1>3. incoming.active
  BY <1>1 DEF ChunkAcceptable, OwnTransfer
<1>4. fs \in [Path -> File \cup {NoFile}] /\ incoming.path \in Path
  BY DEF IInv, TypeOK, Transfer
<1>5. fs' = IF Verified(t) THEN Written(d) ELSE [fs EXCEPT ![incoming.path] = NoFile]
  BY DEF LastChunkWritten
<1> HIDE DEF t
<1>6. /\ ~incoming'.active
      /\ incoming'.expectedSize = incoming.expectedSize
      /\ incoming'.expectedCrc = incoming.expectedCrc
  BY <1>1, <1>2 DEF Transfer
<1>7. StoreView' = fs' /\ Promised' = Promised
  BY <1>6, IdleViewNext, SamePromise DEF IInv, TypeOK
<1>8. CASE Verified(t)
  <2>1. fs' = Written(d)
    BY <1>5, <1>8
  <2>2. \A p \in Path : p # incoming.path => Written(d)[p] = StoreView[p]
    BY <1>4 DEF Written, StoreView
  <2>3. StoreView \in [Path -> File \cup {NoFile, InProgress}]
    BY <1>4 DEF StoreView
  <2>4. StoreView[incoming.path] = InProgress
    BY <1>3, <1>4 DEF StoreView
  <2>5. StoreView' = [StoreView EXCEPT ![incoming.path] = StoreView'[incoming.path]]
    BY <1>2, <1>4, <1>7, <2>1, <2>2, <2>3
  <2>6. \/ StoreView'[incoming.path] = NoFile
        \/ /\ StoreView'[incoming.path] \in File
           /\ Len(StoreView'[incoming.path]) = Promised.size
           /\ Crc(StoreView'[incoming.path]) = Promised.crc
    BY <1>2, <1>7, <1>8, <2>1 DEF Verified, Promised, Transfer
  <2>7. Store!Commit(incoming.path)
    BY <1>7, <2>4, <2>5, <2>6 DEF Store!Commit, Store!File, File
  <2>8. QED
    BY <1>4, <2>7 DEF StoreStep, Store!StoreNext
<1>9. CASE ~Verified(t)
  <2>1. StoreView' = Store!Dropped
    BY <1>3, <1>5, <1>7, <1>9, DroppedView
  <2>2. QED
    BY <1>7, <2>1 DEF StoreStep, Store!StoreNext, Store!Abort
<1>10. QED
  BY <1>8, <1>9

\* Store!Delete, unless the file is the one under upload.
LEMMA DeletedView ==
  ASSUME IInv, NEW j \in Job, NEW p \in Path, Deleted(j, p)
  PROVE  StoreStep
<1>1. fs \in [Path -> File \cup {NoFile}] /\ incoming' = incoming
  BY DEF IInv, TypeOK, Deleted
<1>2. fs' = [fs EXCEPT ![p] = NoFile] /\ Promised' = Promised
  BY <1>1 DEF Deleted, Promised
<1>3. CASE incoming.active /\ incoming.path = p
  <2>1. StoreView' = StoreView
    BY <1>1, <1>2, <1>3 DEF StoreView
  <2>2. QED
    BY <1>2, <2>1 DEF StoreStep, Store!storeVars
<1>4. CASE ~(incoming.active /\ incoming.path = p)
  <2>1. StoreView' = [StoreView EXCEPT ![p] = NoFile]
    BY <1>1, <1>2, <1>4 DEF StoreView
  <2>2. StoreView[p] # InProgress
    BY <1>1, <1>4, NoFileAssumption DEF StoreView, File
  <2>3. QED
    BY <1>2, <2>1, <2>2 DEF StoreStep, Store!StoreNext, Store!Delete
<1>5. QED
  BY <1>3, <1>4

\* Store!PowerCut: only the file under upload can differ.
LEMMA PowerCutView ==
  ASSUME IInv, IInv', incoming' = NoTransfer,
         \A p \in Path : ~(incoming.active /\ p = incoming.path) => fs'[p] = fs[p]
  PROVE  StoreStep
<1>1. fs' \in [Path -> File \cup {NoFile}] /\ incoming' \in Transfer /\ ~incoming'.active
  BY DEF IInv, TypeOK, NoTransfer
<1>2. StoreView' = fs'
  BY <1>1, IdleViewNext
<1>3. Promised' = Store!NoPromise
  BY DEF Promised, NoTransfer, Store!NoPromise
<1>4. \A p \in Path : StoreView[p] # InProgress => StoreView'[p] = StoreView[p]
  BY <1>2 DEF StoreView
<1>5. Store!PowerCut
  BY <1>1, <1>2, <1>3, <1>4 DEF Store!PowerCut, Store!File, File
<1>6. QED
  BY <1>5 DEF StoreStep, Store!StoreNext

LEMMA PowerLossView ==
  ASSUME IInv, IInv', PowerLoss \/ (\E j \in Job, s \in Nat, d \in Chunk : PowerLossAfterAck(j, s, d))
  PROVE  StoreStep
<1>1. fs \in [Path -> File \cup {NoFile}] /\ incoming.path \in Path
  BY DEF IInv, TypeOK, Transfer
<1>2. CASE PowerLoss
  <2>1. \A p \in Path : ~(incoming.active /\ p = incoming.path) => fs'[p] = fs[p]
    BY <1>1, <1>2 DEF PowerLoss
  <2>2. QED
    BY <1>2, <2>1, PowerCutView DEF PowerLoss
<1>3. ASSUME NEW j \in Job, NEW s \in Nat, NEW d \in Chunk, PowerLossAfterAck(j, s, d)
      PROVE  StoreStep
  <2>1. \A p \in Path : ~(incoming.active /\ p = incoming.path) => fs'[p] = fs[p]
    BY <1>1, <1>3 DEF PowerLossAfterAck, ChunkAcceptable, OwnTransfer
  <2>2. QED
    BY <1>3, <2>1, PowerCutView DEF PowerLossAfterAck
<1>4. QED
  BY <1>2, <1>3

LEMMA InitStore == Init => Store!StoreInit
<1> SUFFICES ASSUME Init PROVE Store!StoreInit
  OBVIOUS
<1>1. IInv /\ ~incoming.active
  BY InitIInv DEF Init, NoTransfer
<1>2. fs \in [Path -> File \cup {NoFile}]
  BY <1>1 DEF IInv, TypeOK
<1>3. StoreView = fs
  BY <1>1, <1>2, IdleView
<1>4. Promised = Store!NoPromise
  BY DEF Init, Promised, NoTransfer, Store!NoPromise
<1>5. QED
  BY <1>2, <1>3, <1>4 DEF Store!StoreInit, Store!File, File

LEMMA NextStore == IInv /\ IInv' /\ [Next]_vars => StoreStep
<1> SUFFICES ASSUME IInv, IInv', [Next]_vars PROVE StoreStep
  OBVIOUS
<1>1. CASE HandleFileJob
  <2>1. PICK j \in Job :
          \/ ListFiles(j)
          \/ UnsupportedJob(j)
          \/ \E p \in Path :
               \/ DeleteFails(j, p) \/ Deleted(j, p)
               \/ \E size \in Size, crc \in Checksum :
                    \/ PutRejected(j, p, size, crc)
                    \/ PutOpenFails(j, p, size, crc)
                    \/ PutBegun(j, p, size, crc)
               \/ \E n \in ChunkSize :
                    \/ GetFails(j, p, n) \/ GetTooLarge(j, p, n)
                    \/ GetSent(j, p, n) \/ GetInterrupted(j, p, n)
    BY <1>1 DEF HandleFileJob
  <2>2. CASE ListFiles(j) \/ UnsupportedJob(j)
    BY <2>2, UnchangedView DEF ListFiles, UnsupportedJob
  <2>3. ASSUME NEW p \in Path, DeleteFails(j, p) \/ Deleted(j, p)
        PROVE  StoreStep
    BY <2>3, UnchangedView, DeletedView DEF DeleteFails
  <2>4. ASSUME NEW p \in Path, NEW size \in Size, NEW crc \in Checksum,
               \/ PutRejected(j, p, size, crc)
               \/ PutOpenFails(j, p, size, crc)
               \/ PutBegun(j, p, size, crc)
        PROVE  StoreStep
    BY <2>4, MessageTypes, UnchangedView, AbortView, PutBegunView DEF PutRejected, PutOpenFails
  <2>5. ASSUME NEW p \in Path, NEW n \in ChunkSize,
               \/ GetFails(j, p, n) \/ GetTooLarge(j, p, n)
               \/ GetSent(j, p, n) \/ GetInterrupted(j, p, n)
        PROVE  StoreStep
    BY <2>5, UnchangedView DEF GetFails, GetTooLarge, GetSent, GetInterrupted
  <2>6. QED
    BY <2>1, <2>2, <2>3, <2>4, <2>5
<1>2. CASE HandleFileData
  <2>1. PICK j \in Job, s \in SeqNo, d \in ChunkData :
          \/ ChunkWithoutTransfer(j, s, d) \/ ChunkRefused(j, s, d)
          \/ ChunkWriteFails(j, s, d) \/ ChunkWritten(j, s, d)
          \/ LastChunkWritten(j, s, d)
    BY <1>2 DEF HandleFileData
  <2>2. CASE ChunkWithoutTransfer(j, s, d)
    BY <2>2, UnchangedView DEF ChunkWithoutTransfer
  <2>3. CASE ChunkRefused(j, s, d) \/ ChunkWriteFails(j, s, d)
    BY <2>3, MessageTypes, RefuseView
       DEF ChunkRefused, ChunkWriteFails, ChunkAcceptable, OwnTransfer
  <2>4. CASE ChunkWritten(j, s, d)
    BY <2>4, MessageTypes, ChunkWrittenView
  <2>5. CASE LastChunkWritten(j, s, d)
    BY <2>5, MessageTypes, LastChunkWrittenView
  <2>6. QED
    BY <2>1, <2>2, <2>3, <2>4, <2>5
<1>3. CASE PowerLoss \/ \E j \in Job, s \in SeqNo, d \in ChunkData : PowerLossAfterAck(j, s, d)
  BY <1>3, MessageTypes, PowerLossView
<1>4. CASE UNCHANGED vars
  BY <1>4, UnchangedView DEF vars
<1>5. QED
  BY <1>1, <1>2, <1>3, <1>4 DEF Next

\* The file service implements the abstract file store.
THEOREM FileServerImplementsFileStore == Spec => ImplementsFileStore
<1>1. Init => Store!StoreInit
  BY InitStore
<1>2. IInv /\ IInv' /\ [Next]_vars => [Store!StoreNext]_(Store!storeVars)
  BY NextStore DEF StoreStep
<1>3. QED
  BY <1>1, <1>2, InitIInv, NextIInv, PTL DEF Spec, ImplementsFileStore, Store!StoreSpec

-----------------------------------------------------------------------------
(* What a single step may never do. *)

\* The result of the transfer, whatever it says, answers its job.
LEMMA ResultAnswers ==
  ASSUME NEW t, t.job = incoming.job, Len(out') = 2,
         \/ out'[1] = FinishResult(t, FALSE)
         \/ out'[2] = FinishResult(t, TRUE)
  PROVE  Answered(incoming.job)
<1>1. PICK i \in 1..Len(out') :
        out'[i].topic = "fs/result" /\ out'[i].job = incoming.job /\ out'[i].op = "put_mqtt"
  BY DEF FinishResult, ImageResult, Result
<1>2. QED
  BY <1>1 DEF Answered

LEMMA ClampedChunkType ==
  ASSUME NEW n \in Nat
  PROVE  ClampedChunk(n) \in Nat \ {0}
  BY LimitAssumption DEF ClampedChunk

\* What a get_mqtt reads is a file.
LEMMA VisibleIsFile ==
  ASSUME IInv, NEW p \in Path, fs[p] # NoFile, NEW f \in Visible(p)
  PROVE  f \in File
<1>1. fs[p] \in File
  BY DEF IInv, TypeOK
<1>2. QED
  BY <1>1, PrefixIsFile DEF Visible

\* Of the messages of a sequence, and one more, none is an acknowledgement.
LEMMA OneMoreQuiet ==
  ASSUME NEW n \in Nat, NEW q, q = [i \in 1..n |-> q[i]],
         \A i \in 1..n : q[i].topic # "fs/ack",
         NEW m, m.topic # "fs/ack"
  PROVE  \A i \in 1..Len(q \o <<m>>) : (q \o <<m>>)[i].topic # "fs/ack"
<1>1. Len(q) = n
  OBVIOUS
<1>2. Len(q \o <<m>>) = n + 1
  BY <1>1
<1>3. (q \o <<m>>)[n + 1] = m
  BY <1>1
<1>4. \A i \in 1..n : (q \o <<m>>)[i] = q[i]
  BY <1>1
<1>5. \A i \in 1..(n + 1) : i \in 1..n \/ i = n + 1
  OBVIOUS
<1>6. QED
  BY <1>2, <1>3, <1>4, <1>5, Zenon

LEMMA FirstMessages ==
  ASSUME NEW n \in Nat, NEW q, q = [i \in 1..n |-> q[i]], NEW k \in 1..n
  PROVE  LET t == SubSeq(q, 1, k - 1)
         IN  /\ k - 1 \in Nat /\ t = [i \in 1..(k - 1) |-> t[i]]
             /\ \A i \in 1..(k - 1) : t[i] = q[i] /\ i \in 1..n
<1>1. Len(q) = n
  OBVIOUS
<1>2. QED
  BY <1>1

LEMMA ChunksAreQuiet ==
  ASSUME NEW j, NEW f, NEW c, ChunkCount(f, c) \in Nat
  PROVE  /\ ChunksOf(j, f, c) = [i \in 1..ChunkCount(f, c) |-> ChunksOf(j, f, c)[i]]
         /\ \A i \in 1..ChunkCount(f, c) : ChunksOf(j, f, c)[i].topic # "fs/ack"
  BY DEF ChunksOf, DataMsg

\* A get_mqtt announces no transfer: none of its messages is an acknowledgement.
LEMMA GetAcknowledgesNothing ==
  ASSUME IInv, NEW j \in Job, NEW p \in Path, NEW n \in Nat,
         GetSent(j, p, n) \/ GetInterrupted(j, p, n)
  PROVE  \A i \in 1..Len(out') : out'[i].topic # "fs/ack"
<1> DEFINE c == ClampedChunk(n)
<1>1. \A f \in File : ChunkCount(f, c) \in Nat
  <2>1. c \in Nat \ {0}
    BY ClampedChunkType
  <2> HIDE DEF c
  <2>2. \A l \in Nat : (l + c - 1) \div c \in Nat
    BY <2>1
  <2>3. QED
    BY <2>2 DEF ChunkCount, File
<1>2. CASE GetSent(j, p, n)
  <2>1. PICK f \in Visible(p) : out' = ChunksOf(j, f, c) \o <<ImageResult(j, "get_mqtt", f)>>
    BY <1>2 DEF GetSent
  <2>2. ChunkCount(f, c) \in Nat
    BY <1>1, <1>2, VisibleIsFile DEF GetSent
  <2> HIDE DEF c
  <2>3. ImageResult(j, "get_mqtt", f).topic # "fs/ack"
    BY DEF ImageResult
  <2>4. QED
    BY <2>1, <2>2, <2>3, ChunksAreQuiet, OneMoreQuiet
<1>3. CASE GetInterrupted(j, p, n)
  <2>1. PICK f \in Visible(p) : \E k \in 1..ChunkCount(f, c) :
          out' = SubSeq(ChunksOf(j, f, c), 1, k - 1) \o <<Result(j, "get_mqtt", "failed")>>
    BY <1>3 DEF GetInterrupted
  <2>2. ChunkCount(f, c) \in Nat
    BY <1>1, <1>3, VisibleIsFile DEF GetInterrupted
  <2> HIDE DEF c
  <2> PICK k \in 1..ChunkCount(f, c) :
           out' = SubSeq(ChunksOf(j, f, c), 1, k - 1) \o <<Result(j, "get_mqtt", "failed")>>
    BY <2>1
  <2> DEFINE t == SubSeq(ChunksOf(j, f, c), 1, k - 1)
  <2>3. /\ k - 1 \in Nat /\ t = [i \in 1..(k - 1) |-> t[i]]
        /\ \A i \in 1..(k - 1) : t[i] = ChunksOf(j, f, c)[i] /\ i \in 1..ChunkCount(f, c)
    BY <2>2, ChunksAreQuiet, FirstMessages
  <2>4. \A i \in 1..(k - 1) : t[i].topic # "fs/ack"
    BY <2>2, <2>3, ChunksAreQuiet
  <2> DEFINE m == Result(j, "get_mqtt", "failed")
  <2>5. m.topic # "fs/ack" /\ out' = t \o <<m>>
    BY DEF Result
  <2> HIDE DEF t, m
  <2>6. PICK l \in Nat : l = k - 1
    BY <2>3
  <2>7. t = [i \in 1..l |-> t[i]] /\ \A i \in 1..l : t[i].topic # "fs/ack"
    BY <2>3, <2>4, <2>6, Zenon
  <2>8. \A i \in 1..Len(t \o <<m>>) : (t \o <<m>>)[i].topic # "fs/ack"
    BY <2>5, <2>7, OneMoreQuiet
  <2>9. QED
    BY <2>5, <2>8, Zenon
<1>4. QED
  BY <1>2, <1>3

\* A handler that leaves the transfer alone acknowledges no put_mqtt.
Ready(m) == m.topic = "fs/ack" /\ m.status = "ready"

LEMMA UnansweredJobs ==
  ASSUME IInv, HandleFileJob, incoming.active, TransferEnds
  PROVE  Answered(incoming.job)
<1>1. PICK j \in Job :
        \/ ListFiles(j)
        \/ UnsupportedJob(j)
        \/ \E p \in Path :
             \/ DeleteFails(j, p) \/ Deleted(j, p)
             \/ \E size \in Size, crc \in Checksum :
                  \/ PutRejected(j, p, size, crc)
                  \/ PutOpenFails(j, p, size, crc)
                  \/ PutBegun(j, p, size, crc)
             \/ \E n \in ChunkSize :
                  \/ GetFails(j, p, n) \/ GetTooLarge(j, p, n)
                  \/ GetSent(j, p, n) \/ GetInterrupted(j, p, n)
  BY DEF HandleFileJob
<1> DEFINE Quiet == UNCHANGED incoming /\ \A i \in 1..Len(out') : ~Ready(out'[i])
<1>2. Quiet => FALSE
  BY DEF TransferEnds, Ready
<1>3. ASSUME NEW p \in Path, NEW size \in Size, NEW crc \in Checksum,
             PutOpenFails(j, p, size, crc) \/ PutBegun(j, p, size, crc)
      PROVE  Answered(incoming.job)
  <2> DEFINE r == FinishResult(incoming, FALSE)
  <2>1. PICK m : out' = <<r>> \o <<m>>
    BY <1>3 DEF PutOpenFails, PutBegun, Superseded
  <2> HIDE DEF r
  <2>2. Len(out') = 2 /\ out'[1] = r
    BY <2>1
  <2>3. QED
    BY <2>2, ResultAnswers DEF r
<1>4. ASSUME NEW p \in Path, DeleteFails(j, p) \/ Deleted(j, p)
      PROVE  Quiet
  BY <1>4 DEF DeleteFails, Deleted, Ready, Result
<1>5. ASSUME NEW p \in Path, NEW size \in Size, NEW crc \in Checksum,
             PutRejected(j, p, size, crc)
      PROVE  Quiet
  BY <1>5 DEF PutRejected, Ready, Result
<1>6. ASSUME NEW p \in Path, NEW n \in ChunkSize,
             \/ GetFails(j, p, n) \/ GetTooLarge(j, p, n)
             \/ GetSent(j, p, n) \/ GetInterrupted(j, p, n)
      PROVE  Quiet
  <2>1. n \in Nat
    BY MessageAssumption
  <2>2. CASE GetFails(j, p, n) \/ GetTooLarge(j, p, n)
    BY <2>2 DEF GetFails, GetTooLarge, Ready, Result
  <2>3. CASE GetSent(j, p, n) \/ GetInterrupted(j, p, n)
    BY <2>1, <2>3, GetAcknowledgesNothing DEF GetSent, GetInterrupted, Ready
  <2>4. QED
    BY <1>6, <2>2, <2>3
<1>7. CASE ListFiles(j) \/ UnsupportedJob(j)
  BY <1>2, <1>7 DEF ListFiles, UnsupportedJob, Ready, Result
<1>8. QED
  BY <1>1, <1>2, <1>3, <1>4, <1>5, <1>6, <1>7

LEMMA EndedIsAnswered ==
  ASSUME IInv, [Next]_vars, TransferEnds
  PROVE  Answered(incoming.job) \/ incoming' = NoTransfer \/ UNCHANGED vars
<1>1. incoming.active
  BY DEF TransferEnds
<1>2. CASE HandleFileJob
  BY <1>1, <1>2, UnansweredJobs
<1>3. CASE HandleFileData
  <2>1. PICK j \in Job, s \in SeqNo, d \in ChunkData :
          \/ ChunkWithoutTransfer(j, s, d) \/ ChunkRefused(j, s, d)
          \/ ChunkWriteFails(j, s, d) \/ ChunkWritten(j, s, d)
          \/ LastChunkWritten(j, s, d)
    BY <1>3 DEF HandleFileData
  <2>2. CASE ChunkWithoutTransfer(j, s, d)
    BY <1>1, <2>2 DEF ChunkWithoutTransfer, TransferEnds, Ack
  <2>3. ASSUME NEW st, Refuse(j, s, st)
        PROVE  Answered(incoming.job)
    <3>1. Len(out') = 2 /\ out'[1] = FinishResult(incoming, FALSE)
      BY <2>3 DEF Refuse
    <3>2. QED
      BY <3>1, ResultAnswers
  <2>4. CASE ChunkWritten(j, s, d)
    <3>1. s \in Nat /\ d \in Chunk
      BY MessageTypes
    <3>2. incoming'.active
      BY <2>4, <3>1, ExtendedTransfer DEF ChunkWritten
    <3>3. out' = <<Ack(j, s, "ok")>>
      BY <2>4 DEF ChunkWritten
    <3>4. QED
      BY <3>2, <3>3 DEF TransferEnds, Ack
  <2>5. CASE LastChunkWritten(j, s, d)
    <3>1. Len(out') = 2 /\ out'[2] = FinishResult(Extended(d), TRUE)
      BY <2>5 DEF LastChunkWritten
    <3>2. Extended(d).job = incoming.job
      BY DEF Extended, IInv, TypeOK, Transfer
    <3>3. QED
      BY <3>1, <3>2, ResultAnswers
  <2>6. QED
    BY <2>1, <2>2, <2>3, <2>4, <2>5 DEF ChunkRefused, ChunkWriteFails
<1>4. CASE PowerLoss \/ \E j \in Job, s \in SeqNo, d \in ChunkData : PowerLossAfterAck(j, s, d)
  BY <1>4 DEF PowerLoss, PowerLossAfterAck
<1>5. QED
  BY <1>2, <1>3, <1>4 DEF Next

\* Whichever way a transfer ends - complete, refused, failed, or superseded - the device
\* publishes a put_mqtt result for its job, unless power is lost (finishMqttPut).
THEOREM TransfersAnswered == Spec => EveryTransferAnswered
<1>1. IInv /\ [Next]_vars =>
        [TransferEnds => Answered(incoming.job) \/ incoming' = NoTransfer]_vars
  BY EndedIsAnswered
<1>2. QED
  BY <1>1, InitIInv, NextIInv, PTL DEF Spec, EveryTransferAnswered

\* What the steps on a transfer leave of the other paths.
Elsewhere == \A p \in Path : ~(incoming.active /\ p = incoming.path) => fs'[p] = fs[p]

LEMMA ChunkElsewhere ==
  ASSUME IInv, NEW j \in Job, NEW s \in Nat, NEW d \in Chunk,
         \/ ChunkWithoutTransfer(j, s, d) \/ ChunkRefused(j, s, d)
         \/ ChunkWriteFails(j, s, d) \/ ChunkWritten(j, s, d)
         \/ LastChunkWritten(j, s, d) \/ PowerLossAfterAck(j, s, d)
  PROVE  Elsewhere
<1>1. fs \in [Path -> File \cup {NoFile}] /\ incoming.path \in Path
  BY DEF IInv, TypeOK, Transfer
<1>2. CASE ChunkWithoutTransfer(j, s, d)
  BY <1>2 DEF ChunkWithoutTransfer, Elsewhere
<1>3. CASE ChunkRefused(j, s, d) \/ ChunkWriteFails(j, s, d)
  BY <1>1, <1>3, SupersededType
     DEF ChunkRefused, ChunkWriteFails, Refuse, ChunkAcceptable, OwnTransfer, Elsewhere
<1>4. CASE \/ ChunkWritten(j, s, d) \/ LastChunkWritten(j, s, d)
           \/ PowerLossAfterAck(j, s, d)
  <2>1. incoming.active
    BY <1>4 DEF ChunkWritten, LastChunkWritten, PowerLossAfterAck, ChunkAcceptable, OwnTransfer
  <2>2. \A p \in Path \ {incoming.path} : Written(d)[p] = fs[p]
    BY <1>1 DEF Written
  <2>3. QED
    BY <1>1, <1>4, <2>1, <2>2 DEF ChunkWritten, LastChunkWritten, PowerLossAfterAck, Elsewhere
<1>5. QED
  BY <1>2, <1>3, <1>4

LEMMA PutElsewhere ==
  ASSUME IInv, NEW j \in Job, NEW p \in Path, NEW size \in Nat, NEW crc \in Nat,
         \/ PutRejected(j, p, size, crc)
         \/ PutOpenFails(j, p, size, crc)
         \/ PutBegun(j, p, size, crc)
  PROVE  \A q \in Path : q # p /\ ~(incoming.active /\ q = incoming.path) => fs'[q] = fs[q]
<1>1. fs \in [Path -> File \cup {NoFile}] /\ incoming.path \in Path
  BY DEF IInv, TypeOK, Transfer
<1>2. \A q \in Path : ~(incoming.active /\ q = incoming.path) => Superseded.fs[q] = fs[q]
  BY <1>1, SupersededType DEF Superseded
<1>3. Superseded.fs \in [Path -> File \cup {NoFile}]
  BY SupersededType
<1>4. QED
  BY <1>2, <1>3 DEF PutRejected, PutOpenFails, PutBegun

LEMMA ProtectedStep ==
  ASSUME IInv, [Next]_vars, NEW q \in Path \ AllowedPath
  PROVE  fs'[q] = fs[q]
<1>1. fs \in [Path -> File \cup {NoFile}]
  BY DEF IInv, TypeOK
<1>2. ~(incoming.active /\ q = incoming.path)
  BY DEF IInv, TransferInv
<1>3. CASE HandleFileJob
  <2>1. PICK j \in Job :
          \/ ListFiles(j)
          \/ UnsupportedJob(j)
          \/ \E p \in Path :
               \/ DeleteFails(j, p) \/ Deleted(j, p)
               \/ \E size \in Size, crc \in Checksum :
                    \/ PutRejected(j, p, size, crc)
                    \/ PutOpenFails(j, p, size, crc)
                    \/ PutBegun(j, p, size, crc)
               \/ \E n \in ChunkSize :
                    \/ GetFails(j, p, n) \/ GetTooLarge(j, p, n)
                    \/ GetSent(j, p, n) \/ GetInterrupted(j, p, n)
    BY <1>3 DEF HandleFileJob
  <2>2. CASE ListFiles(j) \/ UnsupportedJob(j)
    BY <2>2 DEF ListFiles, UnsupportedJob
  <2>3. ASSUME NEW p \in Path, DeleteFails(j, p) \/ Deleted(j, p)
        PROVE  fs'[q] = fs[q]
    BY <1>1, <2>3 DEF DeleteFails, Deleted
  <2>4. ASSUME NEW p \in Path, NEW size \in Size, NEW crc \in Checksum,
               \/ PutRejected(j, p, size, crc)
               \/ PutOpenFails(j, p, size, crc)
               \/ PutBegun(j, p, size, crc)
        PROVE  fs'[q] = fs[q]
    <3>1. CASE p = q
      BY <2>4, <3>1, <1>1, <1>2, SupersededType
         DEF PutRejected, PutOpenFails, PutBegun, AcceptablePut
    <3>2. CASE p # q
      BY <2>4, <3>2, <1>2, MessageTypes, PutElsewhere
    <3>3. QED
      BY <3>1, <3>2
  <2>5. ASSUME NEW p \in Path, NEW n \in ChunkSize,
               \/ GetFails(j, p, n) \/ GetTooLarge(j, p, n)
               \/ GetSent(j, p, n) \/ GetInterrupted(j, p, n)
        PROVE  fs'[q] = fs[q]
    BY <2>5 DEF GetFails, GetTooLarge, GetSent, GetInterrupted
  <2>6. QED
    BY <2>1, <2>2, <2>3, <2>4, <2>5
<1>4. ASSUME NEW j \in Job, NEW s \in SeqNo, NEW d \in ChunkData,
             \/ ChunkWithoutTransfer(j, s, d) \/ ChunkRefused(j, s, d)
             \/ ChunkWriteFails(j, s, d) \/ ChunkWritten(j, s, d)
             \/ LastChunkWritten(j, s, d) \/ PowerLossAfterAck(j, s, d)
      PROVE  fs'[q] = fs[q]
  BY <1>2, <1>4, MessageTypes, ChunkElsewhere DEF Elsewhere
<1>5. CASE PowerLoss
  BY <1>1, <1>2, <1>5 DEF PowerLoss
<1>6. QED
  BY <1>3, <1>4, <1>5 DEF Next, HandleFileData, vars

\* A file at a protected path keeps its bytes, whatever the controllers send and wherever
\* power is lost: only pathAllowed stands in front of it, in each of the four operations.
THEOREM ProtectedKept == Spec => ProtectedUntouched
<1>1. IInv /\ [Next]_vars => [\A p \in Path \ AllowedPath : fs'[p] = fs[p]]_vars
  BY ProtectedStep
<1>2. QED
  BY <1>1, InitIInv, NextIInv, PTL DEF Spec, ProtectedUntouched

=============================================================================
