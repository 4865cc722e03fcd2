------------------------------ MODULE FileServer ------------------------------
(***************************************************************************)
(* The file service of the RemoteDeviceManager firmware: the handlers of   *)
(* fs/jobs (list, put_mqtt, get_mqtt, delete) and fs/data, over a SPIFFS   *)
(* file system.  One handler runs at a time, to its end, on the Arduino    *)
(* loop task: each is one action.  Messages reach a handler after their    *)
(* signature was verified, so every action is a controller's request; the  *)
(* controllers here send anything the protocol can express, in any order.  *)
(* FileTransfer closes the system with the controllers of server.py.       *)
(***************************************************************************)
EXTENDS Integers, Sequences

CONSTANTS
  Job,           \* job identifiers
  Path,          \* normalised paths a job may name
  AllowedPath,   \* those that pathAllowed accepts
  Byte,          \* the bytes files are made of
  NoFile,        \* fs[p] = NoFile: no file at p
  InProgress,    \* the abstract content of a path under upload
  Undecodable,   \* a "data" field that is no even-length hex string
  MaxFile,       \* MQTT_FILE_MAX_BYTES
  MaxChunk,      \* MQTT_FILE_CHUNK_BYTES
  Crc(_),        \* crc32Update folded over a sequence of bytes, from 0
  \* what the controllers put in their messages
  Size, Checksum, SeqNo, ChunkData, ChunkSize,
  Preloaded      \* contents of the files of the flashed SPIFFS image

ASSUME PathAssumption == AllowedPath \subseteq Path /\ Path # {} /\ Job # {}
ASSUME LimitAssumption == MaxFile \in Nat \ {0} /\ MaxChunk \in Nat \ {0}
ASSUME MessageAssumption ==
  /\ Size \subseteq Nat /\ Checksum \subseteq Nat
  /\ SeqNo \subseteq Nat /\ ChunkSize \subseteq Nat
  /\ ChunkData \subseteq Seq(Byte) \cup {Undecodable}
  /\ Preloaded \subseteq Seq(Byte)
ASSUME NoFileAssumption ==
  /\ Undecodable \notin Seq(Byte) /\ NoFile \notin Seq(Byte)
  /\ InProgress \notin Seq(Byte) /\ InProgress # NoFile

VARIABLES
  fs,        \* contents of the file system, path by path
  incoming,  \* incomingFile_, the only transfer the device keeps
  out        \* what the last handler published, in order

vars == <<fs, incoming, out>>

File == Seq(Byte)

-----------------------------------------------------------------------------
(* State. *)

\* received stands for receivedSize (its length), crc (its checksum) and the
\* bytes handed to file.write.
Transfer ==
  [active : BOOLEAN, job : Job, path : Path, expectedSize : Nat, expectedCrc : Nat,
   received : File, nextSeq : Nat]

\* The fields of an inactive transfer are dead until the next put_mqtt sets them.
NoTransfer ==
  [active |-> FALSE, job |-> CHOOSE j \in Job : TRUE, path |-> CHOOSE p \in Path : TRUE,
   expectedSize |-> 0, expectedCrc |-> 0, received |-> <<>>, nextSeq |-> 0]

\* What the device publishes.  image stands for the size and crc32 of a result.
Ack(j, s, st) == [topic |-> "fs/ack", job |-> j, seq |-> s, status |-> st]
DataMsg(j, s, d) == [topic |-> "fs/data", job |-> j, seq |-> s, data |-> d]
Result(j, o, st) == [topic |-> "fs/result", job |-> j, op |-> o, status |-> st]
ImageResult(j, o, im) ==
  [topic |-> "fs/result", job |-> j, op |-> o, status |-> "ok", image |-> im]

Init ==
  /\ fs \in [Path -> Preloaded \cup {NoFile}]
  /\ incoming = NoTransfer
  /\ out = <<>>


-----------------------------------------------------------------------------
(* finishMqttPut. *)

\* (Mutant: the checksum is not compared.)
MutVerified(t) == Len(t.received) = t.expectedSize

\* The transfer is complete and its checksum is the announced one.
Verified(t) ==
  /\ Len(t.received) = t.expectedSize
  /\ Crc(t.received) = t.expectedCrc

\* (Mutant: the file of a failed transfer is not removed.)
MutFinishedFs(t, ok) == fs

\* The file system and the result after finishMqttPut(ok, ...) on transfer t.
FinishedFs(t, ok) ==
  IF ok /\ Verified(t) THEN fs ELSE [fs EXCEPT ![t.path] = NoFile]

FinishResult(t, ok) ==
  IF ok /\ Verified(t) THEN ImageResult(t.job, "put_mqtt", t.received)
                       ELSE Result(t.job, "put_mqtt", "failed")

-----------------------------------------------------------------------------
(* fs/jobs: put_mqtt, handled by beginMqttPut. *)

\* (Mutant: pathAllowed is not asked.)
MutAcceptablePut(p, size, crc) == size # 0 /\ size <= MaxFile /\ crc # 0

AcceptablePut(p, size, crc) ==
  p \in AllowedPath /\ size # 0 /\ size <= MaxFile /\ crc # 0

PutRejected(j, p, size, crc) ==
  /\ ~AcceptablePut(p, size, crc)
  /\ out' = <<Result(j, "put_mqtt", "rejected")>>
  /\ UNCHANGED <<fs, incoming>>

\* (Mutant: the transfer in progress is overwritten without finishMqttPut.)
MutSuperseded == [fs |-> fs, out |-> <<>>]

\* A transfer in progress is dropped, with its file, before the new file is opened.
Superseded ==
  IF incoming.active
    THEN [fs |-> FinishedFs(incoming, FALSE), out |-> <<FinishResult(incoming, FALSE)>>]
    ELSE [fs |-> fs, out |-> <<>>]

PutOpenFails(j, p, size, crc) ==
  /\ AcceptablePut(p, size, crc)
  /\ fs' = Superseded.fs
  /\ incoming' = [incoming EXCEPT !.active = FALSE]
  /\ out' = Superseded.out \o <<Result(j, "put_mqtt", "failed")>>

\* (Mutant: the file is opened with FILE_APPEND.)
MutPutBegun(j, p, size, crc) ==
  /\ AcceptablePut(p, size, crc)
  /\ fs' = [Superseded.fs EXCEPT ![p] = IF @ = NoFile THEN <<>> ELSE @]
  /\ incoming' = [active |-> TRUE, job |-> j, path |-> p, expectedSize |-> size,
                  expectedCrc |-> crc, received |-> <<>>, nextSeq |-> 0]
  /\ out' = Superseded.out \o <<Ack(j, 0, "ready")>>

\* (Mutant: nextSeq is not reset.)
MutPutBegunSeq(j, p, size, crc) ==
  /\ AcceptablePut(p, size, crc)
  /\ fs' = [Superseded.fs EXCEPT ![p] = <<>>]
  /\ incoming' = [active |-> TRUE, job |-> j, path |-> p, expectedSize |-> size,
                  expectedCrc |-> crc, received |-> <<>>, nextSeq |-> incoming.nextSeq]
  /\ out' = Superseded.out \o <<Ack(j, 0, "ready")>>

\* FILE_WRITE truncates: the previous contents of p are gone from here on.
PutBegun(j, p, size, crc) ==
  /\ AcceptablePut(p, size, crc)
  /\ fs' = [Superseded.fs EXCEPT ![p] = <<>>]
  /\ incoming' = [active |-> TRUE, job |-> j, path |-> p, expectedSize |-> size,
                  expectedCrc |-> crc, received |-> <<>>, nextSeq |-> 0]
  /\ out' = Superseded.out \o <<Ack(j, 0, "ready")>>

-----------------------------------------------------------------------------
(* fs/data: put_mqtt chunks, handled by handleFileData. *)

OwnTransfer(j) == incoming.active /\ incoming.job = j

InSequence(s) == s = incoming.nextSeq

Decodes(d) == d # Undecodable /\ Len(d) <= MaxChunk

\* (Mutant: the announced size is not enforced chunk by chunk.)
MutFits(d) == Len(d) # 0

Fits(d) == Len(d) # 0 /\ Len(incoming.received) + Len(d) <= incoming.expectedSize

\* The transfer once the chunk is written.
Extended(d) ==
  [incoming EXCEPT !.received = @ \o d, !.nextSeq = @ + 1]

ChunkWithoutTransfer(j, s, d) ==
  /\ ~OwnTransfer(j)
  /\ out' = <<Ack(j, s, "rejected")>>
  /\ UNCHANGED <<fs, incoming>>

\* The transfer ends, its file is removed and its result published before the
\* chunk is acknowledged.
Refuse(j, s, st) ==
  /\ fs' = FinishedFs(incoming, FALSE)
  /\ incoming' = [incoming EXCEPT !.active = FALSE]
  /\ out' = <<FinishResult(incoming, FALSE), Ack(j, s, st)>>

ChunkRefused(j, s, d) ==
  /\ OwnTransfer(j)
  /\ ~(InSequence(s) /\ Decodes(d) /\ Fits(d))
  /\ Refuse(j, s, "rejected")

ChunkAcceptable(j, s, d) == OwnTransfer(j) /\ InSequence(s) /\ Decodes(d) /\ Fits(d)

\* The flash is full, or the file was removed under the handle.
ChunkWriteFails(j, s, d) ==
  /\ ChunkAcceptable(j, s, d)
  /\ Refuse(j, s, "failed")

\* Bytes written through the handle of a removed file go nowhere.
Written(d) ==
  IF fs[incoming.path] = NoFile THEN fs ELSE [fs EXCEPT ![incoming.path] = @ \o d]

ChunkWritten(j, s, d) ==
  /\ ChunkAcceptable(j, s, d)
  /\ Len(Extended(d).received) < incoming.expectedSize
  /\ fs' = Written(d)
  /\ incoming' = Extended(d)
  /\ out' = <<Ack(j, s, "ok")>>

\* The last chunk is acknowledged before the file is verified.
LastChunkWritten(j, s, d) ==
  /\ ChunkAcceptable(j, s, d)
  /\ Len(Extended(d).received) >= incoming.expectedSize
  /\ fs' = IF Verified(Extended(d)) THEN Written(d)
                                    ELSE [fs EXCEPT ![incoming.path] = NoFile]
  /\ incoming' = [Extended(d) EXCEPT !.active = FALSE]
  /\ out' = <<Ack(j, s, "ok"), FinishResult(Extended(d), TRUE)>>

-----------------------------------------------------------------------------
(* fs/jobs: the other operations. *)

DeleteFails(j, p) ==
  /\ p \notin AllowedPath \/ fs[p] = NoFile
  /\ out' = <<Result(j, "delete", "failed")>>
  /\ UNCHANGED <<fs, incoming>>

\* Nothing protects the file of the transfer in progress.
Deleted(j, p) ==
  /\ p \in AllowedPath /\ fs[p] # NoFile
  /\ fs' = [fs EXCEPT ![p] = NoFile]
  /\ out' = <<Result(j, "delete", "ok")>>
  /\ UNCHANGED incoming

ListFiles(j) ==
  /\ out' = <<Result(j, "list", "ok")>>
  /\ UNCHANGED <<fs, incoming>>

UnsupportedJob(j) ==
  /\ out' = <<Result(j, "unsupported_op", "rejected")>>
  /\ UNCHANGED <<fs, incoming>>

\* The chunk size of a get_mqtt: 0 and anything above the limit mean the limit.
ClampedChunk(n) == IF n = 0 \/ n > MaxChunk THEN MaxChunk ELSE n

\* The chunks a file is read in: n bytes each, the last one shorter.
ChunkCount(f, n) == (Len(f) + n - 1) \div n

ChunkAt(f, n, i) ==
  SubSeq(f, i * n + 1, IF (i + 1) * n < Len(f) THEN (i + 1) * n ELSE Len(f))

ChunksOf(j, f, n) ==
  [i \in 1..ChunkCount(f, n) |-> DataMsg(j, i - 1, ChunkAt(f, n, i - 1))]

Truncations(f) == {SubSeq(f, 1, n) : n \in 0..Len(f)}

\* A second handle on the file under upload sees a prefix of what was written.
Visible(p) ==
  IF incoming.active /\ incoming.path = p /\ fs[p] # NoFile THEN Truncations(fs[p]) ELSE {fs[p]}

GetFails(j, p, n) ==
  /\ p \notin AllowedPath \/ fs[p] = NoFile
  /\ out' = <<Result(j, "get_mqtt", IF p \in AllowedPath THEN "failed" ELSE "rejected")>>
  /\ UNCHANGED <<fs, incoming>>

GetTooLarge(j, p, n) ==
  /\ p \in AllowedPath /\ fs[p] # NoFile /\ Len(fs[p]) > MaxFile
  /\ out' = <<Result(j, "get_mqtt", "rejected")>>
  /\ UNCHANGED <<fs, incoming>>

\* All chunks and the result are published by one call, without acknowledgements.
GetSent(j, p, n) ==
  /\ p \in AllowedPath /\ fs[p] # NoFile
  /\ \E f \in Visible(p) :
       /\ Len(f) <= MaxFile
       /\ out' = ChunksOf(j, f, ClampedChunk(n)) \o <<ImageResult(j, "get_mqtt", f)>>
  /\ UNCHANGED <<fs, incoming>>

\* A publish that fails ends the download.
GetInterrupted(j, p, n) ==
  /\ p \in AllowedPath /\ fs[p] # NoFile
  /\ \E f \in Visible(p) :
       /\ Len(f) <= MaxFile
       /\ \E k \in 1..ChunkCount(f, ClampedChunk(n)) :
            out' = SubSeq(ChunksOf(j, f, ClampedChunk(n)), 1, k - 1)
                     \o <<Result(j, "get_mqtt", "failed")>>
  /\ UNCHANGED <<fs, incoming>>

-----------------------------------------------------------------------------
(* Loss of power: the transfer lived in RAM; of the open file, what the     *)
(* file system had not flushed is lost.                                     *)

PowerLoss ==
  /\ fs' \in IF incoming.active /\ fs[incoming.path] # NoFile
               THEN {[fs EXCEPT ![incoming.path] = f] : f \in Truncations(fs[incoming.path])}
               ELSE {fs}
  /\ incoming' = NoTransfer
  /\ out' = <<>>

\* Power is lost after the last chunk is acknowledged, before the file is closed.
PowerLossAfterAck(j, s, d) ==
  /\ ChunkAcceptable(j, s, d)
  /\ Len(Extended(d).received) >= incoming.expectedSize
  /\ fs' \in IF Written(d)[incoming.path] = NoFile
               THEN {fs}
               ELSE {[fs EXCEPT ![incoming.path] = f] : f \in Truncations(Written(d)[incoming.path])}
  /\ incoming' = NoTransfer
  /\ out' = <<Ack(j, s, "ok")>>

-----------------------------------------------------------------------------

HandleFileJob ==
  \E j \in Job :
    \/ ListFiles(j)
    \/ UnsupportedJob(j)
    \/ \E p \in Path :
         \/ DeleteFails(j, p) \/ Deleted(j, p)
         \/ \E size \in Size, crc \in Checksum :
              \/ PutRejected(j, p, size, crc)
              \/ PutOpenFails(j, p, size, crc)
              \/ PutBegun(j, p, size, crc)
         \/ \E n \in ChunkSize :
              \/ GetFails(j, p, n) \/ GetTooLarge(j, p, n)
              \/ GetSent(j, p, n) \/ GetInterrupted(j, p, n)

HandleFileData ==
  \E j \in Job, s \in SeqNo, d \in ChunkData :
    \/ ChunkWithoutTransfer(j, s, d) \/ ChunkRefused(j, s, d)
    \/ ChunkWriteFails(j, s, d) \/ ChunkWritten(j, s, d) \/ LastChunkWritten(j, s, d)

Next ==
  \/ HandleFileJob
  \/ HandleFileData
  \/ PowerLoss
  \/ \E j \in Job, s \in SeqNo, d \in ChunkData : PowerLossAfterAck(j, s, d)

Spec == Init /\ [][Next]_vars

-----------------------------------------------------------------------------
(* Properties. *)

\* Every variable has its type; the transfer never holds more than the largest
\* file, nor more chunks than bytes (handleFileData, beginMqttPut).
TypeOK ==
  /\ fs \in [Path -> File \cup {NoFile}]
  /\ incoming \in Transfer
  /\ Len(incoming.received) <= MaxFile
  /\ incoming.nextSeq <= Len(incoming.received)

\* While a transfer is active its path is one that may be written, it still waits
\* for bytes, and its file - unless it was deleted meanwhile - holds exactly the
\* bytes received since the put_mqtt, none of an earlier file, job or attempt
\* (beginMqttPut, handleFileData).
TransferInv ==
  incoming.active =>
    /\ incoming.path \in AllowedPath
    /\ incoming.expectedCrc # 0
    /\ Len(incoming.received) < incoming.expectedSize
    /\ incoming.expectedSize <= MaxFile
    /\ fs[incoming.path] \in {NoFile, incoming.received}

\* The file system as the abstract store sees it.
StoreView ==
  [p \in Path |-> IF incoming.active /\ incoming.path = p THEN InProgress ELSE fs[p]]

Promised == [size |-> incoming.expectedSize, crc |-> incoming.expectedCrc]

Store == INSTANCE FileStore WITH store <- StoreView, promise <- Promised

\* The handlers implement the abstract store: a file changes by a verified upload
\* as a whole, by a deletion, or by being dropped with its transfer; only a loss
\* of power leaves unverified bytes.
ImplementsFileStore == Store!StoreSpec

\* A put_mqtt result that the last handler published for job j.
Answered(j) ==
  \E i \in 1..Len(out') :
    out'[i].topic = "fs/result" /\ out'[i].job = j /\ out'[i].op = "put_mqtt"

TransferEnds ==
  incoming.active /\ (~incoming'.active \/ (\E i \in 1..Len(out') : out'[i].topic = "fs/ack" /\ out'[i].status = "ready"))

\* A transfer that ends, be it complete, refused or superseded by the put_mqtt of
\* another controller, is answered by a result for its own job; only a loss of
\* power ends it silently (finishMqttPut).
EveryTransferAnswered ==
  [][TransferEnds =>
       Answered(incoming.job) \/ incoming' = NoTransfer]_vars

\* No sequence of jobs and chunks changes a file at a protected path.
ProtectedUntouched ==
  [][\A p \in Path \ AllowedPath : fs'[p] = fs[p]]_vars

=============================================================================
