--------------------------- MODULE OtaUpdateProofs ---------------------------
(***************************************************************************)
(* TLAPS proofs about OtaUpdate, for every set of images, checksum, digest *)
(* and boot loader, and every limit.                                       *)
(***************************************************************************)
EXTENDS OtaUpdate, TLAPS

\* What runs is an image: an update writes to the other partition.
RunningGood == Good(running)

\* An ota_url download was asked for with a digest.
UrlHasDigest == op = "ota_url" /\ pc \in {"headers", "body", "verify"} => wanted.sha # NoSha

\* The inductive invariant.
IInv == TypeOK /\ UpdateReleased /\ RunningGood /\ UrlHasDigest

\* What the steps of a handler leave alone.
LEMMA Messages ==
  /\ Capacity \in Nat /\ MaxRedirect \in Nat /\ 0 \in 0..(MaxRedirect - 1) /\ 0 \in 0..Capacity
  /\ Checksum \subseteq Nat /\ Size \subseteq Nat /\ Read \subseteq Seq(Block)
  /\ Shipped \subseteq Image /\ Torn \notin Image /\ Nothing \in Wanted
  BY LimitAssumption, MessageAssumption, ImageAssumption DEF Image, Nothing, Wanted

LEMMA InitIInv == Init => IInv
<1> SUFFICES ASSUME Init PROVE IInv
  OBVIOUS
<1>1. PICK i \in Shipped, other \in Shipped \cup {Torn} :
        flash = [s \in Slot |-> IF s = 0 THEN i ELSE other]
  BY DEF Init
<1>2. flash \in [Slot -> Image \cup {Torn}] /\ flash[0] = i /\ running \in Slot /\ boot \in Slot
  BY <1>1, Messages DEF Init, Slot
<1>3. RunningGood
  BY <1>1, <1>2, ImageAssumption DEF Init, RunningGood, Good
<1>4. update \in [active : BOOLEAN, size : 0..Capacity]
  BY Messages DEF Init, NoUpdate
<1>5. got \in Image /\ Len(got) <= Capacity
  BY Messages DEF Init, Image
<1>6. chunked \in BOOLEAN /\ fed \in BOOLEAN
  BY DEF Init
<1>7. TypeOK
  BY <1>2, <1>4, <1>5, <1>6, Messages DEF Init, TypeOK, None
<1>8. UpdateReleased /\ UrlHasDigest
  BY DEF Init, UpdateReleased, NoUpdate, UrlHasDigest
<1>9. QED
  BY <1>3, <1>7, <1>8 DEF IInv

-----------------------------------------------------------------------------
(* The ends of a handler. *)

LEMMA FailureType ==
  ASSUME TypeOK
  PROVE  FailureResult(op) \in [op : {"none", "ota_url", "github_latest", "unsupported"},
                                status : {"none", "ok", "failed", "rejected"}]
<1>1. CASE op = "ota_url"
  BY <1>1 DEF FailureResult, Result
<1>2. CASE op = "github_latest"
  BY <1>2 DEF FailureResult, Result
<1>3. CASE op # "ota_url" /\ op # "github_latest"
  BY <1>3 DEF FailureResult, None
<1>4. QED
  BY <1>1, <1>2, <1>3

\* A handler that fails with the library released leaves the invariant.
LEMMA FailStep ==
  ASSUME IInv, Fails, update' = NoUpdate \/ (UNCHANGED update /\ ~update.active)
  PROVE  IInv'
<1>1. update' \in [active : BOOLEAN, size : 0..Capacity] /\ ~update'.active
  <2>1. CASE update' = NoUpdate
    BY <2>1, Messages DEF NoUpdate
  <2>2. CASE UNCHANGED update /\ ~update.active
    BY <2>2, Zenon DEF IInv, TypeOK
  <2>3. QED
    BY <2>1, <2>2
<1>2. out' \in [op : {"none", "ota_url", "github_latest", "unsupported"},
                status : {"none", "ok", "failed", "rejected"}]
  BY FailureType DEF IInv, Fails
<1>3. TypeOK'
  BY <1>1, <1>2 DEF IInv, TypeOK, Fails, flashVars, jobVars
<1>4. UpdateReleased' /\ RunningGood' /\ UrlHasDigest'
  BY <1>1 DEF IInv, UpdateReleased, RunningGood, UrlHasDigest, Good, Fails, flashVars, jobVars
<1>5. QED
  BY <1>3, <1>4 DEF IInv

\* Writing to the other partition leaves the running one alone.
LEMMA TargetWritten ==
  ASSUME IInv, NEW x \in Image \cup {Torn},
         flash' \in {flash, [flash EXCEPT ![Target] = x]}, running' = running
  PROVE  /\ flash' \in [Slot -> Image \cup {Torn}]
         /\ flash'[running] = flash[running] /\ RunningGood'
  BY DEF IInv, TypeOK, Slot, Target, RunningGood, Good

\* After a restart the device runs what the boot loader chose.
LEMMA BootSlotGood ==
  ASSUME IInv
  PROVE  BootSlot \in Slot /\ Good(BootSlot)
  BY DEF IInv, TypeOK, RunningGood, BootSlot, Slot

LEMMA RestartStep ==
  ASSUME IInv, running' = BootSlot, RamLost, UNCHANGED <<flash, boot>>,
         out' \in {out, None}
  PROVE  IInv'
<1>1. RunningGood' /\ running' \in Slot
  BY BootSlotGood DEF RunningGood, Good
<1>2. update' \in [active : BOOLEAN, size : 0..Capacity] /\ ~update'.active
  BY Messages DEF RamLost, NoUpdate
<1>3. got' \in Image /\ Len(got') <= Capacity
  BY Messages DEF RamLost, Image
<1>4. out' \in [op : {"none", "ota_url", "github_latest", "unsupported"},
                status : {"none", "ok", "failed", "rejected"}]
  BY DEF IInv, TypeOK, None
<1>5. chunked' \in BOOLEAN /\ fed' \in BOOLEAN
  BY DEF RamLost
<1>6. TypeOK'
  BY <1>1, <1>2, <1>3, <1>4, <1>5, Messages DEF IInv, TypeOK, RamLost
<1>7. UpdateReleased' /\ UrlHasDigest'
  BY <1>2 DEF UpdateReleased, UrlHasDigest, RamLost
<1>8. QED
  BY <1>1, <1>6, <1>7 DEF IInv

-----------------------------------------------------------------------------
(* The steps of a handler. *)

LEMMA StartStep ==
  ASSUME IInv, NEW o \in {"ota_url", "github_latest", "console"}, NEW w \in Wanted,
         NEW p \in {"data", "request"}, Starts(o, w, p)
  PROVE  IInv'
<1>1. got' \in Image /\ Len(got') <= Capacity
  BY Messages DEF Starts, Image
<1>2. chunked' \in BOOLEAN /\ fed' \in BOOLEAN
  BY DEF Starts
<1>3. update' = update /\ ~update.active
  BY DEF Starts, IInv, UpdateReleased
<1>4. TypeOK'
  BY <1>1, <1>2, <1>3, Messages DEF Starts, IInv, TypeOK, None, flashVars
<1>5. UpdateReleased' /\ RunningGood' /\ UrlHasDigest'
  BY <1>3 DEF Starts, IInv, UpdateReleased, RunningGood, Good, UrlHasDigest, flashVars
<1>6. QED
  BY <1>4, <1>5 DEF IInv

LEMMA RequestStep == IInv /\ Request => IInv'
<1> SUFFICES ASSUME IInv, Request PROVE IInv'
  OBVIOUS
<1>1. ASSUME NEW crc \in Checksum, NEW sha \in Digest \cup {NoSha}, NEW size \in Size,
             UrlJob(crc, sha, size)
      PROVE  IInv'
  <2>1. [crc |-> crc, sha |-> sha, size |-> size] \in Wanted
    BY Messages DEF Wanted
  <2>2. QED
    BY <1>1, <2>1, StartStep DEF UrlJob
<1>2. ASSUME NEW o \in {"github_latest", "console"}, GithubJob(o)
      PROVE  IInv'
  BY <1>2, Messages, StartStep DEF GithubJob
<1>3. CASE UnsupportedOp
  BY <1>3 DEF UnsupportedOp, IInv, TypeOK, UpdateReleased, RunningGood, Good, UrlHasDigest,
              Result, flashVars, jobVars
<1>4. QED
  BY <1>1, <1>2, <1>3 DEF Request

\* The steps before the download.
LEMMA LookupStep ==
  ASSUME IInv,
         \/ ReleaseFound \/ Answered \/ Redirected
         \/ \E crc \in Checksum : SidecarRead(crc)
  PROVE  IInv'
<1>1. CASE ReleaseFound
  BY <1>1 DEF ReleaseFound, IInv, TypeOK, UpdateReleased, RunningGood, Good, UrlHasDigest,
              flashVars, jobVars
<1>2. CASE Redirected
  <2>1. hops' \in 0..(MaxRedirect - 1)
    BY <1>2, Messages DEF Redirected, Redirectable, IInv, TypeOK
  <2>2. QED
    BY <1>2, <2>1, Messages DEF Redirected, IInv, TypeOK, UpdateReleased, RunningGood, Good,
                     UrlHasDigest, flashVars
<1>3. ASSUME NEW crc \in Checksum, SidecarRead(crc)
      PROVE  IInv'
  <2>1. wanted' \in Wanted
    BY <1>3, Messages DEF SidecarRead, IInv, TypeOK, Wanted
  <2>2. QED
    BY <1>3, <2>1 DEF SidecarRead, IInv, TypeOK, UpdateReleased, RunningGood, Good,
                     UrlHasDigest, flashVars
<1>4. CASE Answered
  BY <1>4 DEF Answered, Requestable, IInv, TypeOK, UpdateReleased, RunningGood, Good,
              UrlHasDigest, flashVars, jobVars
<1>5. QED
  BY <1>1, <1>2, <1>3, <1>4

\* A line that ends nothing changes what the headers say at the most.
LEMMA FeedStep == IInv /\ Feeds => IInv'
<1> SUFFICES ASSUME IInv, Feeds PROVE IInv'
  OBVIOUS
<1>1. length' \in Nat /\ chunked' \in BOOLEAN /\ fed' \in BOOLEAN
  BY Messages DEF Feeds, LookupLine, HeaderLine, NegativeChunk, IInv, TypeOK
<1>2. UNCHANGED <<flashVars, update, pc, op, wanted, hops, got, out>>
  BY DEF Feeds, LookupLine, HeaderLine, NegativeChunk
<1>3. QED
  BY <1>1, <1>2 DEF IInv, TypeOK, UpdateReleased, RunningGood, Good, UrlHasDigest, flashVars

LEMMA BeginStep == IInv /\ Begin => IInv'
<1> SUFFICES ASSUME IInv, Begin PROVE IInv'
  OBVIOUS
<1>1. UpdateSize \in Nat
  BY Messages DEF UpdateSize, IInv, TypeOK, Wanted
<1>2. update' \in [active : BOOLEAN, size : 0..Capacity]
  BY <1>1, Messages DEF Begin
<1>3. TypeOK'
  BY <1>2 DEF Begin, IInv, TypeOK, flashVars, jobVars
<1>4. UpdateReleased' /\ RunningGood' /\ UrlHasDigest'
  BY DEF Begin, IInv, UpdateReleased, RunningGood, Good, UrlHasDigest, flashVars, jobVars
<1>5. QED
  BY <1>3, <1>4 DEF IInv

LEMMA ReceiveStep ==
  ASSUME IInv, NEW data \in Read, Receive(data)
  PROVE  IInv'
<1>1. got' \in Image /\ Len(got') <= Capacity
  BY Messages DEF Receive, Fits, IInv, TypeOK, Image
<1>2. /\ flash' \in [Slot -> Image \cup {Torn}]
      /\ RunningGood'
  BY TargetWritten DEF Receive
<1>3. TypeOK'
  BY <1>1, <1>2 DEF Receive, IInv, TypeOK
<1>4. UpdateReleased' /\ UrlHasDigest'
  BY DEF Receive, IInv, UpdateReleased, UrlHasDigest
<1>5. QED
  BY <1>2, <1>3, <1>4 DEF IInv

LEMMA VerifiesStep ==
  ASSUME IInv, pc = "body", Verifies
  PROVE  IInv'
  BY DEF Verifies, IInv, TypeOK, UpdateReleased, RunningGood, Good, UrlHasDigest, flashVars,
         jobVars

LEMMA EndFailsStep == IInv /\ EndFails => IInv'
<1> SUFFICES ASSUME IInv, EndFails PROVE IInv'
  OBVIOUS
<1>1. flash' \in [Slot -> Image \cup {Torn}] /\ RunningGood'
  BY TargetWritten DEF EndFails
<1>2. update' \in [active : BOOLEAN, size : 0..Capacity] /\ ~update'.active
  BY Messages DEF EndFails, NoUpdate
<1>3. TypeOK'
  BY <1>1, <1>2, FailureType DEF EndFails, IInv, TypeOK, jobVars
<1>4. UpdateReleased' /\ UrlHasDigest'
  BY <1>2 DEF EndFails, UpdateReleased, UrlHasDigest
<1>5. QED
  BY <1>1, <1>3, <1>4 DEF IInv

LEMMA CommittedStep == IInv /\ Committed => IInv'
<1> SUFFICES ASSUME IInv, Committed PROVE IInv'
  OBVIOUS
<1>1. flash' \in [Slot -> Image \cup {Torn}] /\ RunningGood'
  BY TargetWritten DEF Committed, IInv, TypeOK
<1>2. update' \in [active : BOOLEAN, size : 0..Capacity] /\ ~update'.active
  BY Messages DEF Committed, NoUpdate
<1>3. boot' \in Slot
  BY DEF Committed, Target, IInv, TypeOK, Slot
<1>4. out' \in [op : {"none", "ota_url", "github_latest", "unsupported"},
                status : {"none", "ok", "failed", "rejected"}]
  BY DEF Committed, Result, None
<1>5. pc' \in {"restart", "idle"}
  BY DEF Committed
<1>6. TypeOK'
  BY <1>1, <1>2, <1>3, <1>4, <1>5 DEF Committed, IInv, TypeOK, jobVars
<1>7. UpdateReleased' /\ UrlHasDigest'
  BY <1>2, <1>5 DEF UpdateReleased, UrlHasDigest
<1>8. QED
  BY <1>1, <1>6, <1>7 DEF IInv

\* The kinds of step there are.
LEMMA Steps ==
  ASSUME IInv, [Next]_vars
  PROVE  \/ Request
         \/ ReleaseFound \/ Answered \/ Redirected \/ \E crc \in Checksum : SidecarRead(crc)
         \/ Feeds \/ Begin
         \/ \E data \in Read : Receive(data)
         \/ pc = "body" /\ Verifies
         \/ pc # "idle" /\ Fails /\ (update' = NoUpdate \/ (UNCHANGED update /\ ~update.active))
         \/ EndFails \/ Committed
         \/ /\ running' = BootSlot /\ RamLost /\ UNCHANGED <<flash, boot>>
            /\ out' \in {out, None}
         \/ UNCHANGED vars
<1>1. CASE LookupFails \/ RequestFails
  BY <1>1 DEF LookupFails, RequestFails, IInv, UpdateReleased
<1>2. CASE WriteFails \/ ServerCloses \/ TimeOut \/ Mismatch
  BY <1>2 DEF WriteFails, ServerCloses, TimeOut, Stalled, Mismatch, Aborted
<1>3. CASE LastChunk \/ AllReceived
  BY <1>3 DEF LastChunk, AllReceived
<1>4. CASE Restart \/ PowerLoss
  BY <1>4 DEF Restart, PowerLoss
<1>5. QED
  BY <1>1, <1>2, <1>3, <1>4 DEF Next, Answers, Own

LEMMA NextIInv == IInv /\ [Next]_vars => IInv'
<1> SUFFICES ASSUME IInv, [Next]_vars PROVE IInv'
  OBVIOUS
<1>1. CASE UNCHANGED vars
  BY <1>1 DEF vars, flashVars, jobVars, IInv, TypeOK, UpdateReleased, RunningGood, Good,
              UrlHasDigest
<1>2. QED
  BY <1>1, Steps, RequestStep, LookupStep, FeedStep, BeginStep, ReceiveStep, VerifiesStep, FailStep,
     EndFailsStep, CommittedStep, RestartStep

LEMMA Invariance == Spec => []IInv
<1>1. QED
  BY InitIInv, NextIInv, PTL DEF Spec

\* TypeOK holds in every state: what an update writes fits into the partition
\* (httpDownloadToOta, downloadFirmware).
THEOREM TypeCorrect == Spec => []TypeOK
<1>1. IInv => TypeOK
  BY DEF IInv
<1>2. QED
  BY <1>1, Invariance, PTL

\* No way out of an update leaves the Update library running
\* (httpDownloadToOta, downloadFirmware).
THEOREM AlwaysReleased == Spec => []UpdateReleased
<1>1. IInv => UpdateReleased
  BY DEF IInv
<1>2. QED
  BY <1>1, Invariance, PTL

-----------------------------------------------------------------------------
(* Implementation of FirmwareStore. *)

\* While the running partition is untouched, what boots next is what booted next, or
\* the running image if the other partition is torn.
LEMMA TornView ==
  ASSUME IInv, flash' \in {flash, [flash EXCEPT ![Target] = Torn]},
         UNCHANGED <<running, boot, wanted>>
  PROVE  Store!Ask \/ Store!Withdraw
<1>1. CASE flash' = flash
  BY <1>1 DEF BootSlot, Good, Store!Ask
<1>2. CASE flash' = [flash EXCEPT ![Target] = Torn]
  <2>1. flash'[Target] = Torn /\ flash'[running] = flash[running]
    BY <1>2 DEF IInv, TypeOK, Slot, Target
  <2>2. BootSlot' = running
    BY <2>1 DEF IInv, TypeOK, RunningGood, Good, BootSlot, Slot, Target
  <2>3. QED
    BY <2>1, <2>2 DEF Store!Withdraw
<1>3. QED
  BY <1>1, <1>2

LEMMA SameView ==
  ASSUME UNCHANGED <<flash, running, boot>>
  PROVE  Store!Ask
  BY DEF BootSlot, Good, Store!Ask

LEMMA CommittedView ==
  ASSUME IInv, Committed
  PROVE  Store!Commit
<1>1. got # Torn /\ Bootable(got)
  BY Messages DEF Committed, IInv, TypeOK
<1>2. flash'[Target] = got /\ flash'[running] = flash[running]
  BY DEF Committed, IInv, TypeOK, Slot, Target
<1>3. BootSlot' = Target
  BY <1>1, <1>2 DEF Committed, BootSlot, Good
<1>4. flash'[BootSlot'] = got
  BY <1>2, <1>3
<1>5. Verified(got, wanted)
  BY DEF Committed, Accepted
<1>6. UNCHANGED <<running, wanted>>
  BY DEF Committed, jobVars
<1>7. QED
  BY <1>1, <1>2, <1>4, <1>5, <1>6 DEF Store!Commit

LEMMA RebootView ==
  ASSUME running' = BootSlot, UNCHANGED <<flash, boot>>
  PROVE  Store!Reboot
  BY DEF BootSlot, Good, Store!Reboot

LEMMA InitStore == Init => Store!StoreInit
<1> SUFFICES ASSUME Init PROVE Store!StoreInit
  OBVIOUS
<1>1. IInv
  BY InitIInv
<1>2. Good(running) /\ BootSlot = running
  BY <1>1 DEF IInv, RunningGood, Init, BootSlot
<1>3. flash[running] \in Image
  BY <1>1, <1>2 DEF IInv, TypeOK, Good
<1>4. QED
  BY <1>2, <1>3 DEF Good, Store!StoreInit

LEMMA NextStore == IInv /\ [Next]_vars => Store!StoreNext \/ UNCHANGED Store!storeVars
<1> SUFFICES ASSUME IInv, [Next]_vars PROVE Store!StoreNext \/ UNCHANGED Store!storeVars
  OBVIOUS
<1>1. CASE \/ Request
           \/ ReleaseFound \/ Answered \/ Redirected \/ \E crc \in Checksum : SidecarRead(crc)
           \/ Feeds \/ Begin
           \/ Verifies \/ Fails \/ UNCHANGED vars
  <2>1. UNCHANGED <<flash, running, boot>>
    BY <1>1 DEF Request, UrlJob, GithubJob, UnsupportedOp, Starts, ReleaseFound, Answered,
                Redirected, SidecarRead, Feeds, LookupLine, HeaderLine, NegativeChunk, Begin,
                Verifies, Fails, vars, flashVars
  <2>2. QED
    BY <2>1, SameView DEF Store!StoreNext
<1>2. CASE EndFails \/ \E data \in Read : Receive(data)
  <2>1. flash' \in {flash, [flash EXCEPT ![Target] = Torn]} /\ UNCHANGED <<running, boot, wanted>>
    BY <1>2 DEF EndFails, Receive, jobVars
  <2>2. QED
    BY <2>1, TornView DEF Store!StoreNext
<1>3. CASE Committed
  BY <1>3, CommittedView DEF Store!StoreNext
<1>4. CASE running' = BootSlot /\ UNCHANGED <<flash, boot>>
  BY <1>4, RebootView DEF Store!StoreNext
<1>5. QED
  BY <1>1, <1>2, <1>3, <1>4, Steps

\* Both update paths implement the abstract store: the image that boots next changes
\* to a verified one at once, or back to the running one (httpDownloadToOta,
\* downloadFirmware).
THEOREM OtaImplementsFirmwareStore == Spec => ImplementsFirmwareStore
<1>1. Init => Store!StoreInit
  BY InitStore
<1>2. IInv /\ [Next]_vars => [Store!StoreNext]_(Store!storeVars)
  BY NextStore
<1>3. QED
  BY <1>1, <1>2, Invariance, PTL DEF Spec, ImplementsFirmwareStore, Store!StoreSpec

\* An ota_url job is answered with "ok" only for the image it named (otaUrl).
THEOREM UrlOkVerified == Spec => UrlOkMeansVerified
<1> DEFINE UrlOk == out' # out /\ out' = Result("ota_url", "ok")
           Right == /\ Crc(flash'[boot']) = wanted.crc
                    /\ Sha(flash'[boot']) = wanted.sha
                    /\ Bootable(flash'[boot'])
<1>1. IInv /\ [Next]_vars => (UrlOk => Right)
  <2> SUFFICES ASSUME IInv, [Next]_vars, UrlOk PROVE Right
    OBVIOUS
  <2>1. Committed
    <3>1. out' # out /\ out' # None
      BY DEF Result, None
    <3>2. ~Request
      BY <3>1 DEF Request, UrlJob, GithubJob, UnsupportedOp, Starts, Result
    <3>3. ~(ReleaseFound \/ Answered \/ Redirected \/ \E crc \in Checksum : SidecarRead(crc))
      BY <3>1 DEF ReleaseFound, Answered, Redirected, SidecarRead
    <3>4. ~Verifies /\ ~UNCHANGED vars
      BY <3>1 DEF Verifies, vars
    <3>5. ~Feeds /\ ~Begin /\ ~\E data \in Read : Receive(data)
      BY <3>1 DEF Feeds, LookupLine, HeaderLine, NegativeChunk, Begin, Receive
    <3>6. FailureResult(op) # Result("ota_url", "ok")
      BY DEF FailureResult, Result, None, IInv, TypeOK
    <3>7. ~Fails /\ ~EndFails
      BY <3>6 DEF Fails, EndFails
    <3>8. QED
      BY <3>1, <3>2, <3>3, <3>4, <3>5, <3>7, Steps
  <2>2. op = "ota_url"
    BY <2>1 DEF Committed, Result, None
  <2>3. wanted.sha # NoSha
    BY <2>1, <2>2 DEF Committed, IInv, UrlHasDigest
  <2>4. flash'[boot'] = got
    BY <2>1 DEF Committed, IInv, TypeOK, Slot, Target
  <2>5. QED
    BY <2>1, <2>3, <2>4 DEF Committed, Accepted, Verified
<1>2. [][IInv /\ [Next]_vars => (UrlOk => Right)]_vars
  BY <1>1, PTL
<1>3. QED
  BY <1>1, Invariance, PTL DEF Spec, UrlOkMeansVerified

=============================================================================
