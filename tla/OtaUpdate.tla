------------------------------ MODULE OtaUpdate ------------------------------
(***************************************************************************)
(* Over-the-air updates: the ota_url job of the RemoteDeviceManager and    *)
(* the github_latest job and console command of GitHubOtaDemo, from the    *)
(* request to the restart, over HTTP connections that redirect, stall, cut *)
(* short and lie, into the Update library, with loss of power at any time. *)
(*                                                                         *)
(* A size counts blocks.  One read of the connection hands over a few.     *)
(***************************************************************************)
EXTENDS Integers, Sequences

CONSTANTS
  Block,        \* what images are made of
  Crc(_),       \* the CRC-32 of a sequence of blocks
  Sha(_),       \* its SHA-256
  Bootable(_),  \* the boot loader accepts it as an image
  Torn,         \* a partition whose first bytes are erased
  Capacity,     \* size of an OTA partition
  MaxRedirect,  \* requests downloadFirmware makes, redirected ones included
  Shipped,      \* images the device may be delivered with
  NoSha,        \* a job without a 64-digit sha256
  RebootAfterUpdate,  \* TCALL_GITHUB_OTA_REBOOT_AFTER_UPDATE
  \* what jobs and servers say
  Checksum, Digest, Size, Read

ASSUME ImageAssumption ==
  /\ Shipped \subseteq Seq(Block) /\ Shipped # {}
  /\ \A i \in Shipped : Bootable(i)
  /\ Torn \notin Seq(Block)
ASSUME LimitAssumption == {Capacity, MaxRedirect} \subseteq Nat \ {0}
ASSUME MessageAssumption ==
  /\ Checksum \subseteq Nat /\ Size \subseteq Nat
  /\ Read \subseteq Seq(Block)
  /\ RebootAfterUpdate \in BOOLEAN

VARIABLES
  flash,    \* the two OTA partitions
  running,  \* the one that runs
  boot,     \* the one otadata selects
  update,   \* the Update library: whether it is running, and the size it expects
  pc,       \* where the handler stands; "idle" between handlers
  op,       \* the job it handles
  wanted,   \* checksum, digest and size it was given
  hops,     \* redirects followed
  length,   \* Content-Length, 0 if there is none
  chunked,  \* the response is chunked
  fed,      \* the server goes on sending lines that end nothing
  got,      \* what was received and written
  out       \* the ota/result the last handler published

flashVars == <<flash, running, boot>>
jobVars == <<op, wanted, hops, length, chunked, fed, got>>
vars == <<flashVars, update, pc, jobVars, out>>

Slot == {0, 1}
Image == Seq(Block)
Wanted == [crc : Nat, sha : Digest \cup {NoSha}, size : Nat]

NoUpdate == [active |-> FALSE, size |-> 0]
Nothing == [crc |-> 0, sha |-> NoSha, size |-> 0]

\* Update writes to the partition after the one that runs.
Target == 1 - running

Good(s) == flash[s] # Torn /\ Bootable(flash[s])

\* The boot loader takes the selected partition if it holds an image.
BootSlot == IF Good(boot) THEN boot ELSE 1 - boot

None == [op |-> "none", status |-> "none"]
Result(o, st) == [op |-> o, status |-> st]

RamLost ==
  /\ pc' = "idle" /\ update' = NoUpdate /\ op' = "none" /\ wanted' = Nothing
  /\ hops' = 0 /\ length' = 0 /\ chunked' = FALSE /\ fed' = FALSE /\ got' = <<>>

Init ==
  /\ \E i \in Shipped, other \in Shipped \cup {Torn} :
       flash = [s \in Slot |-> IF s = 0 THEN i ELSE other]
  /\ running = 0 /\ boot = 0
  /\ pc = "idle" /\ update = NoUpdate /\ op = "none" /\ wanted = Nothing
  /\ hops = 0 /\ length = 0 /\ chunked = FALSE /\ fed = FALSE /\ got = <<>>
  /\ out = None

-----------------------------------------------------------------------------
(* The end of a handler that did not commit.                                *)

\* The status Manager publishes: remoteOtaCommand returns true whatever happened.
FailureResult(o) ==
  IF o = "ota_url" THEN Result(o, "failed")
  ELSE IF o = "github_latest" THEN Result(o, "ok") ELSE None

Fails ==
  /\ pc' = "idle"
  /\ out' = FailureResult(op)
  /\ UNCHANGED <<flashVars, jobVars>>

\* (Mutant: the library is not told.)
MutAborted == update

\* Update.abort.
Aborted == NoUpdate

-----------------------------------------------------------------------------
(* Jobs. *)

Starts(o, w, p) ==
  /\ pc = "idle"
  /\ pc' = p /\ op' = o /\ wanted' = w
  /\ hops' = 0 /\ length' = 0 /\ chunked' = FALSE /\ fed' = FALSE /\ got' = <<>>
  /\ out' = None
  /\ UNCHANGED <<flashVars, update>>

\* handleOtaJob, ota_url.
UrlJob(crc, sha, size) ==
  Starts("ota_url", [crc |-> crc, sha |-> sha, size |-> size], "request")

\* github_latest, and "ota update" at a console.
GithubJob(o) == Starts(o, Nothing, "data")

UnsupportedOp ==
  /\ pc = "idle"
  /\ out' = Result("unsupported", "rejected")
  /\ UNCHANGED <<flashVars, update, pc, jobVars>>

\* ensureCellularData and latestRelease find the assets of the release.
ReleaseFound ==
  /\ pc = "data"
  /\ pc' = "sidecar"
  /\ UNCHANGED <<flashVars, update, jobVars, out>>

\* Neither fetch bounds the header lines it reads, nor the chunks of a negative size.
LookupLine ==
  /\ pc \in {"data", "sidecar"}
  /\ fed' \in BOOLEAN
  /\ UNCHANGED <<flashVars, update, pc, op, wanted, hops, length, chunked, got, out>>

\* The sidecar names a checksum, whichever; there is no digest.
SidecarRead(crc) ==
  /\ pc = "sidecar"
  /\ wanted' = [wanted EXCEPT !.crc = crc]
  /\ pc' = "request"
  /\ UNCHANGED <<flashVars, update, op, hops, length, chunked, fed, got, out>>

\* No LTE data, no release, no assets, no checksum in the sidecar.
LookupFails ==
  /\ pc \in {"data", "sidecar"}
  /\ Fails
  /\ UNCHANGED update

-----------------------------------------------------------------------------
(* The download. *)

\* An ota_url job without a checksum and a digest is refused before it connects.
Requestable == op = "ota_url" => wanted.crc # 0 /\ wanted.sha # NoSha

\* (Mutant: any number of redirects.)
MutRedirectable == op # "ota_url"

\* ota_url does not follow redirects.
Redirectable == op # "ota_url" /\ hops + 1 < MaxRedirect

\* The status line; of ota_url with status 200.
Answered ==
  /\ pc = "request" /\ Requestable
  /\ pc' = "headers"
  /\ UNCHANGED <<flashVars, update, jobVars, out>>

\* A header line, which may say a length or, to GitHubOtaDemo, that the body is chunked.
\* As long as another follows within the timeout the loop goes on, for ever if they do.
HeaderLine ==
  /\ pc = "headers"
  /\ \/ length' \in Size /\ UNCHANGED chunked
     \/ op # "ota_url" /\ chunked' = TRUE /\ UNCHANGED length
     \/ UNCHANGED <<length, chunked>>
  /\ fed' \in BOOLEAN
  /\ UNCHANGED <<flashVars, update, pc, op, wanted, hops, got, out>>

\* The next request starts with headers of its own.
Redirected ==
  /\ pc = "headers" /\ Redirectable
  /\ pc' = "request" /\ hops' = hops + 1
  /\ length' = 0 /\ chunked' = FALSE
  /\ UNCHANGED <<flashVars, update, op, wanted, fed, got, out>>

\* No URL, no connection, no status line in time, no status 200, one redirect too many,
\* headers that break off; or Update.begin fails.
RequestFails ==
  /\ pc \in {"request", "headers"}
  /\ Fails
  /\ UNCHANGED update

\* Of a job that names a size the size, else what the server says, else anything.
UpdateSize ==
  IF wanted.size > 0 THEN wanted.size ELSE IF length > 0 THEN length ELSE Capacity

\* The end of the headers, of ota_url also by a silence, and Update.begin.
Begin ==
  /\ pc = "headers"
  /\ ~update.active /\ UpdateSize <= Capacity
  /\ update' = [active |-> TRUE, size |-> UpdateSize]
  /\ pc' = "body"
  /\ UNCHANGED <<flashVars, jobVars, out>>

\* The loop over a response that is not chunked ends with the announced length.
Complete == length > 0 /\ Len(got) >= length /\ ~chunked

Fits(data) == Len(got) + Len(data) <= update.size

\* The library keeps up to a sector in RAM; its first write erases the header.
Receive(data) ==
  /\ pc = "body" /\ ~Complete
  /\ Fits(data)
  /\ got' = got \o data
  /\ flash' \in {flash, [flash EXCEPT ![Target] = Torn]}
  /\ UNCHANGED <<running, boot, update, pc, op, wanted, hops, length, chunked, fed, out>>

\* The flash fails, or there is more than Update.begin was told.
WriteFails ==
  /\ pc = "body" /\ ~Complete
  /\ Fails
  /\ update' = Aborted

Verifies ==
  /\ pc' = "verify"
  /\ UNCHANGED <<flashVars, update, jobVars, out>>

AllReceived == pc = "body" /\ Complete /\ Verifies

\* The last chunk, of size 0.
LastChunk == pc = "body" /\ chunked /\ Verifies

\* A chunk of a negative size holds nothing and ends nothing: the loop reads the next.
NegativeChunk ==
  /\ pc = "body" /\ chunked
  /\ fed' \in BOOLEAN
  /\ UNCHANGED <<flashVars, update, pc, op, wanted, hops, length, chunked, got, out>>

\* A connection that ends is the end of a response that is not chunked.
ServerCloses ==
  /\ pc = "body" /\ ~Complete
  /\ \/ ~chunked /\ Verifies
     \/ chunked /\ Fails /\ update' = Aborted

\* (Mutant: the read has no timeout.)
MutStalled == FALSE

\* 30 s without a byte.
Stalled == pc = "body" /\ ~Complete

TimeOut ==
  /\ Stalled
  /\ \/ ~chunked /\ Verifies
     \/ chunked /\ Fails /\ update' = Aborted

-----------------------------------------------------------------------------
(* Verification, commit and restart. *)

\* (Mutant: the digest is not compared.)
MutVerified(image, w) == Crc(image) = w.crc

Verified(image, w) ==
  /\ Crc(image) = w.crc
  /\ w.sha # NoSha => Sha(image) = w.sha

\* (Mutant: the length stands for the whole comparison.)
MutAccepted == length > 0 => Len(got) = length

Accepted ==
  /\ length > 0 => Len(got) = length
  /\ Verified(got, wanted)

Mismatch ==
  /\ pc = "verify" /\ ~Accepted
  /\ Fails
  /\ update' = Aborted

\* Update.end finds no image, or cannot write.
EndFails ==
  /\ pc = "verify" /\ Accepted
  /\ pc' = "idle"
  /\ out' = FailureResult(op)
  /\ update' = NoUpdate
  /\ flash' \in {flash, [flash EXCEPT ![Target] = Torn]}
  /\ UNCHANGED <<running, boot, jobVars>>

Restarts == op = "ota_url" \/ RebootAfterUpdate

\* Update.end(true) selects the partition.  ota_url publishes its result before the
\* restart, GitHubOtaDemo restarts before it returns to the handler.
Committed ==
  /\ pc = "verify" /\ Accepted
  /\ update.active /\ Bootable(got)
  /\ flash' = [flash EXCEPT ![Target] = got]
  /\ boot' = Target
  /\ update' = NoUpdate
  /\ pc' = IF Restarts THEN "restart" ELSE "idle"
  /\ out' = IF op = "ota_url" \/ (op = "github_latest" /\ ~Restarts)
              THEN Result(op, "ok") ELSE None
  /\ UNCHANGED <<running, jobVars>>

Restart ==
  /\ pc = "restart"
  /\ running' = BootSlot
  /\ RamLost
  /\ UNCHANGED <<flash, boot, out>>

PowerLoss ==
  /\ running' = BootSlot
  /\ RamLost
  /\ out' = None
  /\ UNCHANGED <<flash, boot>>

-----------------------------------------------------------------------------

Request ==
  \/ \E crc \in Checksum, sha \in Digest \cup {NoSha}, size \in Size : UrlJob(crc, sha, size)
  \/ \E o \in {"github_latest", "console"} : GithubJob(o)
  \/ UnsupportedOp

\* Lines that end nothing.
Feeds == LookupLine \/ HeaderLine \/ NegativeChunk

\* What depends on servers that answer.
Answers ==
  /\ ~fed
  /\ \/ ReleaseFound \/ (\E crc \in Checksum : SidecarRead(crc))
     \/ Answered \/ Redirected \/ Begin
     \/ (\E data \in Read : Receive(data)) \/ LastChunk \/ ServerCloses \/ WriteFails

\* What the handler does by itself, a timeout at the latest, unless it is kept reading.
Own ==
  /\ ~fed
  /\ \/ LookupFails \/ RequestFails \/ TimeOut \/ AllReceived
     \/ Mismatch \/ EndFails \/ Committed \/ Restart

Next == Request \/ Feeds \/ Answers \/ Own \/ PowerLoss

Spec == Init /\ [][Next]_vars

\* The handler runs on; no server has to answer.
FairSpec == Spec /\ WF_vars(Own)

-----------------------------------------------------------------------------
(* Properties. *)

\* Every variable has its type, and what was written fits into the partition.
TypeOK ==
  /\ flash \in [Slot -> Image \cup {Torn}]
  /\ running \in Slot /\ boot \in Slot
  /\ update \in [active : BOOLEAN, size : 0..Capacity]
  /\ pc \in {"idle", "data", "sidecar", "request", "headers", "body", "verify", "restart"}
  /\ op \in {"none", "ota_url", "github_latest", "console"}
  /\ wanted \in Wanted
  /\ hops \in 0..(MaxRedirect - 1) /\ length \in Nat /\ chunked \in BOOLEAN /\ fed \in BOOLEAN
  /\ got \in Image /\ Len(got) <= Capacity
  /\ out \in [op : {"none", "ota_url", "github_latest", "unsupported"},
              status : {"none", "ok", "failed", "rejected"}]

\* Whatever failed, the Update library is not left running: else Update.begin would
\* refuse every later update until the next reboot.
UpdateReleased ==
  pc \in {"idle", "data", "sidecar", "request", "headers", "restart"} => ~update.active

\* The image that would boot changes to a verified one or back to the running one.
Store == INSTANCE FirmwareStore WITH running <- flash[running], next <- flash[BootSlot]

ImplementsFirmwareStore == Store!StoreSpec

\* An ota_url job is answered with "ok" only when the image it named, of that checksum
\* and digest, boots next (otaUrl).
UrlOkMeansVerified ==
  [][out' # out /\ out' = Result("ota_url", "ok")
       => /\ Crc(flash'[boot']) = wanted.crc
          /\ Sha(flash'[boot']) = wanted.sha
          /\ Bootable(flash'[boot'])]_vars

\* Every ota job answered with "ok" has changed the image that boots next
\* (handleOtaJob, remoteOtaCommand).
OkMeansCommitted ==
  [][out' # out /\ out'.status = "ok" => pc = "verify" /\ Accepted /\ boot' = Target]_vars

\* An update that never ends is one whose server never stops sending header lines or
\* chunks of a negative size: nothing else, no silence, no endless body, no redirect
\* after redirect, keeps the task (readLine, httpDownloadToOta, downloadFirmware,
\* fetchString).
EveryUpdateEnds == <>[](pc # "idle") => []<>fed

=============================================================================
