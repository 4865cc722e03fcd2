------------------------------ MODULE FileStore ------------------------------
(***************************************************************************)
(* What the SPIFFS file service of the device promises to its controllers, *)
(* with the transfer protocol left out: a file is replaced by an upload    *)
(* that is verified as a whole, by nothing else, and an upload that ends   *)
(* any other way leaves no file behind.  FileServer is the code; it is     *)
(* shown to implement this module.                                         *)
(***************************************************************************)
EXTENDS Integers, Sequences

CONSTANTS
  Path,        \* the paths a controller may name
  Byte,        \* the bytes a file is made of
  NoFile,      \* store[p] = NoFile: there is no file at p
  InProgress,  \* store[p] = InProgress: p is being uploaded, its contents are undefined
  Crc(_)       \* the checksum of a sequence of bytes

VARIABLES
  store,       \* what each path holds
  promise      \* size and checksum announced for the upload in progress

storeVars == <<store, promise>>

File == Seq(Byte)

\* Nothing was announced since the device started.
NoPromise == [size |-> 0, crc |-> 0]

\* The files present at boot are those of the flashed image.
StoreInit ==
  /\ store \in [Path -> File \cup {NoFile}]
  /\ promise = NoPromise

\* Giving up the upload in progress, if any, removes its file.
Dropped == [p \in Path |-> IF store[p] = InProgress THEN NoFile ELSE store[p]]

Begin(p) ==
  /\ store' = [Dropped EXCEPT ![p] = InProgress]
  /\ promise' \in [size : Nat \ {0}, crc : Nat \ {0}]

Abort ==
  /\ store' = Dropped
  /\ UNCHANGED promise

\* An upload ends well only with bytes of the announced size and checksum.  The
\* file may have been deleted while it was being written.
Commit(p) ==
  /\ store[p] = InProgress
  /\ \/ store'[p] = NoFile
     \/ /\ store'[p] \in File
        /\ Len(store'[p]) = promise.size
        /\ Crc(store'[p]) = promise.crc
  /\ store' = [store EXCEPT ![p] = store'[p]]
  /\ UNCHANGED promise

Delete(p) ==
  /\ store[p] # InProgress
  /\ store' = [store EXCEPT ![p] = NoFile]
  /\ UNCHANGED promise

\* Only a loss of power can leave unverified bytes under a path; the device forgets
\* what was announced.
PowerCut ==
  /\ store' \in [Path -> File \cup {NoFile}]
  /\ \A p \in Path : store[p] # InProgress => store'[p] = store[p]
  /\ promise' = NoPromise

StoreNext ==
  \/ Abort \/ PowerCut
  \/ \E p \in Path : Begin(p) \/ Commit(p) \/ Delete(p)

StoreSpec == StoreInit /\ [][StoreNext]_storeVars

=============================================================================
