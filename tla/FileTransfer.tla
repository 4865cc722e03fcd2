----------------------------- MODULE FileTransfer -----------------------------
(***************************************************************************)
(* Uploads end to end: the threads of the RemoteDeviceManager WebUI, each  *)
(* in AppState.publish_file_upload, the MQTT connections between them and  *)
(* the device, and the device's FileServer.                                *)
(*                                                                         *)
(* MQTT runs at QoS 0 over TCP: the messages of one connection stay in     *)
(* order and are not repeated, but a dropped connection loses any of them. *)
(***************************************************************************)
EXTENDS FileServer, FiniteSets

CONSTANTS
  Upload, Removal,  \* the upload and the delete jobs the WebUI may send
  Target,           \* Target[j]: the path job j names
  Image,            \* Image[j]: the bytes upload j sends
  HostChunk,        \* mqtt_file_chunk_bytes
  Environments      \* the circumstances to consider, one of which a behaviour has

ASSUME JobAssumption == Upload \subseteq Job /\ Removal \subseteq Job
\* A circumstance: the jobs that may be sent, whether the connections drop and
\* acknowledgements come late, whether a file fails to open or a write is short, and
\* whether the device loses power.
ASSUME EnvironmentAssumption ==
  Environments \subseteq [uploads : SUBSET Upload, removals : SUBSET Removal,
                          lossy : BOOLEAN, flashFails : BOOLEAN, powerFails : BOOLEAN]
ASSUME TargetAssumption == Target \in [Upload \cup Removal -> Path]
ASSUME ImageAssumption ==
  /\ DOMAIN Image = Upload /\ HostChunk \in 1..MaxChunk
  /\ \A j \in Upload : Image[j] \in File /\ Crc(Image[j]) \in Nat

VARIABLES
  env,      \* the circumstance of this behaviour
  thread,   \* thread[j]: where the upload thread of job j waits
  acks,     \* the fs/ack messages among the last 200 the WebUI keeps
  removed,  \* the delete jobs sent
  down, up, \* messages on their way to the device, and from it
  outcome,  \* history: the put_mqtt result the device published for each upload
  cut       \* history: the paths whose upload a loss of power interrupted

netVars == <<down, up>>
hostVars == <<thread, acks, removed>>
allVars == <<env, fs, incoming, out, thread, acks, removed, down, up, outcome, cut>>

PutMsg(j) == [kind |-> "put", job |-> j]
ChunkMsg(j, s) ==
  [kind |-> "chunk", job |-> j, seq |-> s, data |-> ChunkAt(Image[j], HostChunk, s)]
DeleteMsg(j) == [kind |-> "delete", job |-> j]

Chunks(j) == ChunkCount(Image[j], HostChunk)

TransferInit ==
  /\ Init
  /\ env \in Environments
  /\ thread = [j \in Upload |-> [pc |-> "idle", next |-> 0]]
  /\ acks = {}
  /\ removed = {}
  /\ down = <<>> /\ up = <<>>
  /\ outcome = [j \in Upload |-> "none"]
  /\ cut = {}

-----------------------------------------------------------------------------
(* The WebUI's upload threads.  Any number of them run at the same time.    *)

At(j, pc) == thread[j].pc = pc
Moved(j, pc, next) == thread' = [thread EXCEPT ![j] = [pc |-> pc, next |-> next]]

\* MqttClient.publish of m by the thread of j, which goes on to wait at pc for an answer to
\* number next.  When the WebUI's own connection is gone it raises an OSError, which
\* do_POST does not expect: the request is dropped without an answer.  A send that
\* times out is a TimeoutError, which is answered like an acknowledgement that does not come.
Publish(j, pc, next, m) ==
  \/ Moved(j, pc, next) /\ down' = Append(down, m)
  \/ env.lossy /\ (\E e \in {"dropped", "timeout"} : Moved(j, e, thread[j].next)) /\ down' = down

\* An empty file or one above the limit is refused before anything is sent.
StartUpload(j) ==
  /\ At(j, "idle") /\ j \in env.uploads
  /\ Len(Image[j]) \in 1..MaxFile
  /\ Publish(j, "wait_ready", 0, PutMsg(j))
  /\ UNCHANGED <<env, fs, incoming, out, acks, removed, up, outcome, cut>>

\* The acknowledgements wait_for_file_ack accepts for the chunk the thread sent.
\* (Mutant: the thread does not look at the status.)
MutChunkAcked(j) == \E st \in {"ready", "ok"} : Ack(j, thread[j].next, st) \in acks

ChunkAcked(j) == Ack(j, thread[j].next, "ok") \in acks

\* (Mutant: one chunk too early.)
MutLastChunkSent(j) == thread[j].next + 2 >= Chunks(j)

\* (Mutant: one chunk too late.)
MutLastChunkLate(j) == thread[j].next = Chunks(j)

LastChunkSent(j) == thread[j].next + 1 = Chunks(j)

GotReady(j) ==
  /\ At(j, "wait_ready")
  /\ Ack(j, 0, "ready") \in acks
  /\ Publish(j, "wait_ok", 0, ChunkMsg(j, 0))
  /\ UNCHANGED <<env, fs, incoming, out, acks, removed, up, outcome, cut>>

GotOk(j) ==
  /\ At(j, "wait_ok") /\ ChunkAcked(j)
  /\ ~LastChunkSent(j)
  /\ Publish(j, "wait_ok", thread[j].next + 1, ChunkMsg(j, thread[j].next + 1))
  /\ UNCHANGED <<env, fs, incoming, out, acks, removed, up, outcome, cut>>

\* The HTTP request is answered when the last chunk is acknowledged; the
\* device's fs/result is not awaited.
UploadDone(j) ==
  /\ At(j, "wait_ok") /\ ChunkAcked(j)
  /\ LastChunkSent(j)
  /\ Moved(j, "done", thread[j].next)
  /\ UNCHANGED <<env, fs, incoming, out, acks, removed, down, up, outcome, cut>>

\* On prompt connections a thread only times out on an answer that never comes.
AnswerPending(j) ==
  \/ \E i \in 1..Len(down) : down[i].job = j
  \/ \E i \in 1..Len(up) : up[i].topic = "fs/ack" /\ up[i].job = j
  \/ At(j, "wait_ready") /\ Ack(j, 0, "ready") \in acks
  \/ At(j, "wait_ok") /\ ChunkAcked(j)

\* (Mutant: the thread waits without a deadline.)
MutMayTimeOut(j) == FALSE

\* The 12 s deadline of wait_for_file_ack.
MayTimeOut(j) == env.lossy \/ ~AnswerPending(j)

GiveUp(j) ==
  /\ At(j, "wait_ready") \/ At(j, "wait_ok")
  /\ MayTimeOut(j)
  /\ Moved(j, "timeout", thread[j].next)
  /\ UNCHANGED <<env, fs, incoming, out, acks, removed, down, up, outcome, cut>>

\* (One whose publish fails sends nothing.)
SendDelete(j) ==
  /\ j \in env.removals \ removed
  /\ removed' = removed \cup {j}
  /\ down' = Append(down, DeleteMsg(j))
  /\ UNCHANGED <<env, fs, incoming, out, thread, acks, up, outcome, cut>>

\* The MQTT loop of the WebUI stores a message where the threads look for it.
Record ==
  /\ up # <<>>
  /\ acks' = IF Head(up).topic = "fs/ack" THEN acks \cup {Head(up)} ELSE acks
  /\ up' = Tail(up)
  /\ UNCHANGED <<env, fs, incoming, out, thread, removed, down, outcome, cut>>

\* 200 later messages push an acknowledgement out before its thread polls.
Evict ==
  /\ env.lossy
  /\ \E m \in acks : acks' = acks \ {m}
  /\ UNCHANGED <<env, fs, incoming, out, thread, removed, down, up, outcome, cut>>

-----------------------------------------------------------------------------
(* The network. *)

Without(q, i) == SubSeq(q, 1, i - 1) \o SubSeq(q, i + 1, Len(q))

Lose ==
  /\ env.lossy
  /\ \/ \E i \in 1..Len(down) : down' = Without(down, i) /\ up' = up
     \/ \E i \in 1..Len(up) : up' = Without(up, i) /\ down' = down
  /\ UNCHANGED <<env, fs, incoming, out, hostVars, outcome, cut>>

-----------------------------------------------------------------------------
(* The device, one message at a time. *)

\* The put_mqtt results among what a handler published.
Outcome(j) ==
  IF \E i \in 1..Len(out') : out'[i] = Result(j, "put_mqtt", "failed") THEN "failed"
  ELSE IF \E i \in 1..Len(out') : out'[i] = Result(j, "put_mqtt", "rejected") THEN "rejected"
  ELSE IF \E i \in 1..Len(out') : out'[i].topic = "fs/result" /\ out'[i].job = j
                                     /\ out'[i].op = "put_mqtt" THEN "ok"
  ELSE outcome[j]

HandlePut(m) ==
  LET j == m.job   p == Target[m.job]   n == Len(Image[m.job])   c == Crc(Image[m.job])
  IN  \/ PutRejected(j, p, n, c)
      \/ env.flashFails /\ PutOpenFails(j, p, n, c)
      \/ PutBegun(j, p, n, c)

HandleChunk(m) ==
  \/ ChunkWithoutTransfer(m.job, m.seq, m.data)
  \/ ChunkRefused(m.job, m.seq, m.data)
  \/ (env.flashFails \/ fs[incoming.path] = NoFile) /\ ChunkWriteFails(m.job, m.seq, m.data)
  \/ ChunkWritten(m.job, m.seq, m.data)
  \/ LastChunkWritten(m.job, m.seq, m.data)

HandleDelete(m) == DeleteFails(m.job, Target[m.job]) \/ Deleted(m.job, Target[m.job])

Handle ==
  /\ down # <<>>
  /\ LET m == Head(down)
     IN  \/ m.kind = "put" /\ HandlePut(m)
         \/ m.kind = "chunk" /\ HandleChunk(m)
         \/ m.kind = "delete" /\ HandleDelete(m)
  /\ down' = Tail(down)
  /\ up' = up \o out'
  /\ outcome' = [j \in Upload |-> Outcome(j)]
  /\ UNCHANGED <<env, hostVars, cut>>

\* Whatever was on its way to the device is lost with its connection.
LosePower ==
  /\ env.powerFails
  /\ \/ PowerLoss
     \/ /\ down # <<>> /\ Head(down).kind = "chunk"
        /\ PowerLossAfterAck(Head(down).job, Head(down).seq, Head(down).data)
  /\ down' = <<>>
  /\ up' = up \o out'
  /\ cut' = IF incoming.active THEN cut \cup {incoming.path} ELSE cut
  /\ UNCHANGED <<env, hostVars, outcome>>

-----------------------------------------------------------------------------

Host ==
  \/ \E j \in Upload : StartUpload(j) \/ GotReady(j) \/ GotOk(j) \/ UploadDone(j) \/ GiveUp(j)
  \/ \E j \in Removal : SendDelete(j)
  \/ Record \/ Evict

TransferNext == Host \/ Handle \/ Lose \/ LosePower

TransferSpec == TransferInit /\ [][TransferNext]_allVars

\* Threads poll every 100 ms, the MQTT loop and the device loop keep turning, and
\* a connection that stays up delivers.  Nobody has to start an upload.
Fairness ==
  /\ \A j \in Upload :
       WF_allVars(GotReady(j) \/ GotOk(j) \/ UploadDone(j) \/ GiveUp(j))
  /\ WF_allVars(Record) /\ WF_allVars(Handle)

FairTransferSpec == TransferSpec /\ Fairness

-----------------------------------------------------------------------------
(* Properties. *)

\* Types; a thread never waits for a chunk its file does not have.
TransferTypeOK ==
  /\ TypeOK
  /\ env \in Environments
  /\ \A j \in Upload :
       /\ thread[j].pc \in {"idle", "wait_ready", "wait_ok", "done", "timeout", "dropped"}
       /\ thread[j].next \in Nat /\ (thread[j].next = 0 \/ thread[j].next < Chunks(j))
       /\ outcome[j] \in {"none", "ok", "failed", "rejected"}
  /\ removed \subseteq Removal
  /\ \A i \in 1..Len(down) : down[i].job \in Upload \cup Removal
  /\ \A m \in acks : m.job \in Upload

\* A file is whole if it was flashed or if some upload sent it for this path.
Whole(p) ==
  fs[p] \in {NoFile} \cup Preloaded
              \cup {Image[j] : j \in {k \in Upload : Target[k] = p}}

\* A file that is not being written is whole: concurrent uploads, lost messages and
\* failing writes leave neither a truncated file nor a mixture of two, and a loss of
\* power spoils no other file than the one under upload (beginMqttPut,
\* handleFileData, finishMqttPut).
FilesIntact ==
  \A p \in Path : (incoming.active /\ incoming.path = p) \/ p \in cut \/ Whole(p)

\* A loss of power spoils no file at all.
PowerCutSafe ==
  \A p \in Path : (incoming.active /\ incoming.path = p) \/ Whole(p)

\* An upload the WebUI answered with "ok" was verified by the device, unless it lost
\* power in between (publish_file_upload answers on the last chunk's
\* acknowledgement, which the device sends before it compares the checksum).
DoneMeansVerified ==
  \A j \in Upload : At(j, "done") => outcome[j] = "ok" \/ Target[j] \in cut

\* The file of an answered upload is on the device until another job for its path
\* is sent; uploads to other paths, whatever becomes of them, do not touch it.
DoneFileKept ==
  \A j \in Upload :
    /\ At(j, "done")
    /\ \A k \in Upload \ {j} : Target[k] # Target[j] \/ At(k, "idle")
    /\ \A k \in removed : Target[k] # Target[j]
    /\ Target[j] \notin cut
    => fs[Target[j]] = Image[j]

\* Stop and wait: a chunk of the device's own transfer always arrives in
\* sequence, so "unexpected_sequence" never ends an upload of the WebUI.
ChunksInSequence ==
  down # <<>> /\ Head(down).kind = "chunk" /\ OwnTransfer(Head(down).job)
    => InSequence(Head(down).seq)

\* An upload request of the WebUI ends whatever the network loses: it is answered, by
\* success or by a timeout, unless a publish of its own failed on a connection of the
\* WebUI that was lost.
EveryUploadEnds ==
  \A j \in Upload : At(j, "wait_ready")
    ~> (At(j, "done") \/ At(j, "timeout") \/ (env.lossy /\ At(j, "dropped")))

\* Uploads that supersede one another do not all fail: on prompt connections to a
\* sound device at least one that was started succeeds, unless its checksum is 0 or
\* somebody deletes a file meanwhile.
Prompt == ~env.lossy /\ ~env.flashFails /\ ~env.powerFails
SomeUploadSucceeds ==
  (Prompt /\ \E j \in Upload : ~At(j, "idle") /\ Crc(Image[j]) # 0)
    ~> ((\E j \in Upload : At(j, "done")) \/ removed # {})

=============================================================================
