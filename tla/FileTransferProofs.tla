--------------------------- MODULE FileTransferProofs ---------------------------
(***************************************************************************)
(* TLAPS proofs about FileTransfer, for every set of uploads, removals and *)
(* circumstances, every image, every size of chunks and every checksum.    *)
(***************************************************************************)
EXTENDS FileTransfer, FileServerProofs

-----------------------------------------------------------------------------
(* The inductive invariant. *)

\* The messages in a queue, and the answers that have reached the WebUI or still may.
Sent(q) == {q[i] : i \in 1..Len(q)}
Heard == acks \cup Sent(up)

IsQueue(q) == q \in Seq(Sent(q))

Types ==
  /\ env \in Environments /\ removed \subseteq Removal
  /\ thread \in [Upload -> [pc : {"idle", "wait_ready", "wait_ok", "done", "timeout", "dropped"}, next : Nat]]
  /\ outcome \in [Upload -> {"none", "ok", "failed", "rejected"}]
  /\ IsQueue(down) /\ IsQueue(up)

Once(q) == \A i, k \in 1..Len(q) : q[i] = q[k] => i = k

\* Every message on its way to the device is there once, and of the chunks of a job only
\* the one its thread sent last.
Arriving ==
  /\ Once(down)
  /\ \A m \in Sent(down) :
       \/ \E j \in Upload : m = PutMsg(j) \/ m = ChunkMsg(j, thread[j].next)
       \/ \E j \in removed : m = DeleteMsg(j)

\* No other job for the path of j has been sent, and power was not lost under it.
Unrivalled(j) ==
  /\ \A k \in Upload \ {j} : Target[k] # Target[j] \/ At(k, "idle")
  /\ \A k \in removed : Target[k] # Target[j]
  /\ Target[j] \notin cut

\* A thread that has not started has heard nothing; one that has waits for a chunk of its file.
Heeds(j) ==
  /\ At(j, "idle") => \A m \in Heard : m.topic = "fs/ack" => m.job # j
  /\ At(j, "idle") \/ At(j, "wait_ready") => thread[j].next = 0
  /\ ~At(j, "idle") => thread[j].next < Chunks(j)

\* A put_mqtt on its way is the first anybody has heard of its job.
PutPending(j) == PutMsg(j) \in Sent(down) =>
  /\ At(j, "wait_ready") \/ At(j, "timeout") \/ At(j, "dropped")
  /\ thread[j].next = 0
  /\ ~OwnTransfer(j) /\ outcome[j] # "ok"
  /\ \A m \in Heard : m.topic = "fs/ack" => m.job # j
  /\ ChunkMsg(j, thread[j].next) \notin Sent(down)

\* A chunk on its way has not been acknowledged, and is the one the device waits for.
ChunkPending(j) == ChunkMsg(j, thread[j].next) \in Sent(down) =>
  /\ At(j, "wait_ok") \/ At(j, "timeout") \/ At(j, "dropped")
  /\ Ack(j, thread[j].next, "ok") \notin Heard
  /\ OwnTransfer(j) => incoming.nextSeq = thread[j].next

\* An acknowledged chunk was sent, the device is past it, and with the last one the upload
\* is verified or power was lost.
Acknowledged(j) == \A m \in Heard : m.topic = "fs/ack" /\ m.job = j /\ m.status = "ok" =>
  /\ At(j, "wait_ok") \/ At(j, "done") \/ At(j, "timeout") \/ At(j, "dropped")
  /\ m.seq <= thread[j].next
  /\ m.seq = thread[j].next /\ OwnTransfer(j) => incoming.nextSeq = thread[j].next + 1
  /\ m.seq + 1 = Chunks(j) => outcome[j] = "ok" \/ Target[j] \in cut

\* The bytes of the first n chunks of upload j.
Prefix(j, n) ==
  SubSeq(Image[j], 1, IF n * HostChunk < Len(Image[j]) THEN n * HostChunk ELSE Len(Image[j]))

\* The device's transfer is as far as the thread or one chunk ahead, and has received the
\* beginning of the image; nobody but a rival removes its file.
Owned(j) == OwnTransfer(j) =>
  /\ ~At(j, "idle") /\ outcome[j] # "ok"
  /\ incoming.path = Target[j] /\ incoming.expectedSize = Len(Image[j])
  /\ incoming.expectedCrc = Crc(Image[j])
  /\ incoming.nextSeq \in {thread[j].next, thread[j].next + 1}
  /\ At(j, "wait_ready") => incoming.nextSeq = 0
  /\ incoming.received = Prefix(j, incoming.nextSeq)
  /\ Unrivalled(j) => fs[Target[j]] = incoming.received

Verdict(j) == outcome[j] = "ok" =>
  /\ ~At(j, "idle")
  /\ Unrivalled(j) => fs[Target[j]] = Image[j]

\* Only uploads own transfers and are acknowledged.
Uploads ==
  /\ incoming.active => incoming.job \in Upload
  /\ \A m \in acks : m.topic = "fs/ack"
  /\ \A m \in Heard : m.topic = "fs/ack" =>
       m.job \in Upload /\ (m.status = "ok" => m = Ack(m.job, m.seq, "ok") /\ m.seq \in Nat)

JobInv(j) ==
  /\ Heeds(j) /\ PutPending(j) /\ ChunkPending(j) /\ Acknowledged(j) /\ Owned(j) /\ Verdict(j)
  /\ At(j, "done") => outcome[j] = "ok" \/ Target[j] \in cut

UploadInv ==
  /\ IInv /\ Types /\ Arriving /\ Uploads /\ FilesIntact
  /\ \A j \in Upload : JobInv(j)

-----------------------------------------------------------------------------
(* Queues. *)

LEMMA AppendSent ==
  ASSUME NEW S, NEW q \in Seq(S), NEW e \in S
  PROVE  /\ Append(q, e) \in Seq(S)
         /\ \A m : m \in Sent(Append(q, e)) <=> m \in Sent(q) \/ m = e
<1>1. Len(Append(q, e)) = Len(q) + 1 /\ Len(q) \in Nat /\ Append(q, e)[Len(q) + 1] = e
      /\ \A i \in 1..Len(q) : Append(q, e)[i] = q[i]
  OBVIOUS
<1>2. ASSUME NEW m, m \in Sent(Append(q, e))
      PROVE  m \in Sent(q) \/ m = e
  <2>1. PICK i \in 1..(Len(q) + 1) : m = Append(q, e)[i]
    BY <1>1, <1>2 DEF Sent
  <2>2. i \in 1..Len(q) \/ i = Len(q) + 1
    BY <1>1
  <2>3. QED
    BY <1>1, <2>1, <2>2 DEF Sent
<1>3. ASSUME NEW m, m \in Sent(q)
      PROVE  m \in Sent(Append(q, e))
  <2>1. PICK i \in 1..Len(q) : m = q[i]
    BY <1>3 DEF Sent
  <2>2. i \in 1..(Len(q) + 1)
    BY <1>1
  <2>3. QED
    BY <1>1, <2>1, <2>2 DEF Sent
<1>4. e \in Sent(Append(q, e))
  <2>1. Len(q) + 1 \in 1..(Len(q) + 1)
    BY <1>1
  <2>2. QED
    BY <1>1, <2>1 DEF Sent
<1>5. QED
  BY <1>2, <1>3, <1>4

LEMMA ConcatSent ==
  ASSUME NEW S, NEW q \in Seq(S), NEW r \in Seq(S)
  PROVE  q \o r \in Seq(S) /\ \A m \in Sent(q \o r) : m \in Sent(q) \/ m \in Sent(r)
<1>1. Len(q \o r) = Len(q) + Len(r) /\ Len(q) \in Nat /\ Len(r) \in Nat
  OBVIOUS
<1>2. ASSUME NEW m \in Sent(q \o r)
      PROVE  m \in Sent(q) \/ m \in Sent(r)
  <2>1. PICK i \in 1..(Len(q) + Len(r)) : m = (q \o r)[i]
    BY <1>1, <1>2 DEF Sent
  <2>2. CASE i <= Len(q)
    <3>1. i \in 1..Len(q) /\ m = q[i]
      BY <1>1, <2>1, <2>2
    <3>2. QED
      BY <3>1 DEF Sent
  <2>3. CASE i > Len(q)
    <3>1. (i - Len(q)) \in 1..Len(r) /\ m = r[i - Len(q)]
      BY <1>1, <2>1, <2>3
    <3>2. QED
      BY <3>1 DEF Sent
  <2>4. QED
    BY <1>1, <2>1, <2>2, <2>3
<1>3. QED
  BY <1>2

LEMMA TailSent ==
  ASSUME NEW S, NEW q \in Seq(S), q # <<>>
  PROVE  /\ Tail(q) \in Seq(S) /\ Head(q) \in Sent(q) /\ Head(q) \in S
         /\ \A m \in Sent(Tail(q)) : m \in Sent(q)
         /\ Once(q) =>
              /\ Head(q) \notin Sent(Tail(q))
              /\ Once(Tail(q))
<1>1. Len(q) \in Nat \ {0} /\ Len(Tail(q)) = Len(q) - 1 /\ Head(q) = q[1] /\ Tail(q) \in Seq(S)
      /\ \A i \in 1..(Len(q) - 1) : Tail(q)[i] = q[i + 1]
  OBVIOUS
<1>2. \A i \in 1..(Len(q) - 1) : i + 1 \in 1..Len(q) /\ i + 1 # 1
  BY <1>1
<1>3. 1 \in 1..Len(q)
  BY <1>1
<1>4. Head(q) \in Sent(q) /\ Head(q) \in S
  BY <1>1, <1>3 DEF Sent
<1>5. ASSUME NEW m \in Sent(Tail(q))
      PROVE  \E i \in 1..(Len(q) - 1) : m = q[i + 1]
  BY <1>1 DEF Sent
<1>6. ASSUME NEW m \in Sent(Tail(q))
      PROVE  m \in Sent(q)
  BY <1>2, <1>5 DEF Sent
<1>7. ASSUME Once(q)
      PROVE  Head(q) \notin Sent(Tail(q)) /\ Once(Tail(q))
  <2>1. Head(q) \notin Sent(Tail(q))
    BY <1>1, <1>2, <1>3, <1>5, <1>7 DEF Once
  <2>2. ASSUME NEW i \in 1..Len(Tail(q)), NEW k \in 1..Len(Tail(q)), Tail(q)[i] = Tail(q)[k]
        PROVE  i = k
    <3>1. i \in 1..(Len(q) - 1) /\ k \in 1..(Len(q) - 1)
      BY <1>1
    <3>2. q[i + 1] = q[k + 1]
      BY <1>1, <2>2, <3>1
    <3>3. i + 1 = k + 1
      BY <1>2, <1>7, <3>1, <3>2 DEF Once
    <3>4. QED
      BY <3>1, <3>3
  <2>3. QED
    BY <2>1, <2>2 DEF Once
<1>8. QED
  BY <1>1, <1>4, <1>6, <1>7

LEMMA WithoutSent ==
  ASSUME NEW S, NEW q \in Seq(S), NEW n \in 1..Len(q)
  PROVE  /\ Without(q, n) \in Seq(S)
         /\ \A m \in Sent(Without(q, n)) : m \in Sent(q)
         /\ Once(q) => Once(Without(q, n))
<1> DEFINE w == Without(q, n)
           At0(i) == IF i < n THEN i ELSE i + 1
<1>1. /\ w \in Seq(S) /\ Len(w) = Len(q) - 1 /\ Len(q) \in Nat
      /\ \A i \in 1..(Len(q) - 1) : w[i] = IF i < n THEN q[i] ELSE q[i + 1]
  <2>1. SubSeq(q, 1, n - 1) \in Seq(S) /\ Len(SubSeq(q, 1, n - 1)) = n - 1
        /\ \A i \in 1..(n - 1) : SubSeq(q, 1, n - 1)[i] = q[i]
    OBVIOUS
  <2>2. SubSeq(q, n + 1, Len(q)) \in Seq(S) /\ Len(SubSeq(q, n + 1, Len(q))) = Len(q) - n
        /\ \A i \in 1..(Len(q) - n) : SubSeq(q, n + 1, Len(q))[i] = q[n + i]
    OBVIOUS
  <2> DEFINE a == SubSeq(q, 1, n - 1)
             b == SubSeq(q, n + 1, Len(q))
  <2>3. w = a \o b
    BY DEF Without
  <2>4. a \in Seq(S) /\ b \in Seq(S) /\ Len(a) = n - 1 /\ Len(b) = Len(q) - n
        /\ (\A i \in 1..(n - 1) : a[i] = q[i]) /\ (\A i \in 1..(Len(q) - n) : b[i] = q[n + i])
    BY <2>1, <2>2
  <2> HIDE DEF a, b, w
  <2>5. w \in Seq(S) /\ Len(w) = Len(q) - 1 /\ Len(q) \in Nat
    <3>1. a \o b \in Seq(S) /\ Len(a \o b) = Len(a) + Len(b)
      <4>1. a \in Seq(S) /\ b \in Seq(S)
        BY <2>4
      <4>2. QED
        BY ONLY <4>1
    <3>2. Len(q) \in Nat
      OBVIOUS
    <3>3. Len(a) + Len(b) = Len(q) - 1
      BY <2>4, <3>2
    <3>4. QED
      BY <2>3, <3>1, <3>2, <3>3, Zenon
  <2>6. ASSUME NEW i \in 1..(Len(q) - 1)
        PROVE  w[i] = IF i < n THEN q[i] ELSE q[i + 1]
    <3>1. CASE i < n
      BY <2>3, <2>4, <3>1
    <3>2. CASE ~(i < n)
      <4>1. i - (n - 1) \in 1..(Len(q) - n) /\ n + (i - (n - 1)) = i + 1
        BY <3>2, <2>5
      <4>2. w[i] = b[i - (n - 1)]
        BY <2>3, <2>4, <2>5, <3>2
      <4>3. QED
        BY <2>4, <3>2, <4>1, <4>2
    <3>3. QED
      BY <3>1, <3>2
  <2>7. QED
    BY <2>5, <2>6
<1> HIDE DEF w
<1>2. \A i \in 1..(Len(q) - 1) : At0(i) \in 1..Len(q) /\ w[i] = q[At0(i)]
  BY <1>1
<1>3. \A i, k \in 1..(Len(q) - 1) : At0(i) = At0(k) => i = k
  OBVIOUS
<1> HIDE DEF At0
<1>4. \A m \in Sent(w) : m \in Sent(q)
  BY <1>1, <1>2 DEF Sent
<1>5. ASSUME Once(q)
      PROVE  Once(w)
  BY <1>1, <1>2, <1>3, <1>5 DEF Once
<1>6. QED
  BY <1>1, <1>4, <1>5 DEF w

LEMMA OwnQueue ==
  ASSUME NEW S, NEW q \in Seq(S)
  PROVE  IsQueue(q)
<1>1. q \in [1..Len(q) -> Sent(q)] /\ Len(q) \in Nat
  BY DEF Sent
<1>2. QED
  BY <1>1 DEF IsQueue

LEMMA WiderQueue ==
  ASSUME NEW S, NEW q \in Seq(S), NEW T, S \subseteq T
  PROVE  q \in Seq(T)
  OBVIOUS

LEMMA AppendQueue ==
  ASSUME NEW q, IsQueue(q), NEW e
  PROVE  /\ IsQueue(Append(q, e))
         /\ \A m : m \in Sent(Append(q, e)) <=> m \in Sent(q) \/ m = e
         /\ Once(q) /\ e \notin Sent(q) => Once(Append(q, e))
<1>1. q \in Seq(Sent(q) \cup {e})
  BY WiderQueue DEF IsQueue
<1>2. IsQueue(Append(q, e)) /\ \A m : m \in Sent(Append(q, e)) <=> m \in Sent(q) \/ m = e
  <2> DEFINE S == Sent(q) \cup {e}
  <2>1. q \in Seq(S) /\ e \in S
    BY <1>1
  <2> HIDE DEF S
  <2>2. /\ Append(q, e) \in Seq(S)
        /\ \A m : m \in Sent(Append(q, e)) <=> m \in Sent(q) \/ m = e
    BY <2>1, AppendSent
  <2>3. QED
    BY <2>2, OwnQueue
<1>3. ASSUME Once(q), e \notin Sent(q)
      PROVE  Once(Append(q, e))
  <2>1. Len(Append(q, e)) = Len(q) + 1 /\ Len(q) \in Nat /\ Append(q, e)[Len(q) + 1] = e
        /\ \A i \in 1..Len(q) : Append(q, e)[i] = q[i] /\ q[i] # e
    BY <1>1, <1>3 DEF Sent
  <2>2. \A i \in 1..(Len(q) + 1) : i \in 1..Len(q) \/ i = Len(q) + 1
    BY <2>1
  <2>3. QED
    BY <1>3, <2>1, <2>2 DEF Once
<1>4. QED
  BY <1>2, <1>3

LEMMA ConcatQueue ==
  ASSUME NEW q, IsQueue(q), NEW r, IsQueue(r)
  PROVE  IsQueue(q \o r) /\ \A m \in Sent(q \o r) : m \in Sent(q) \/ m \in Sent(r)
<1>1. q \in Seq(Sent(q) \cup Sent(r)) /\ r \in Seq(Sent(q) \cup Sent(r))
  BY WiderQueue DEF IsQueue
<1>2. QED
  BY <1>1, ConcatSent, OwnQueue

LEMMA TailQueue ==
  ASSUME NEW q, IsQueue(q), q # <<>>
  PROVE  /\ IsQueue(Tail(q)) /\ Head(q) \in Sent(q)
         /\ \A m \in Sent(Tail(q)) : m \in Sent(q)
         /\ Once(q) => Head(q) \notin Sent(Tail(q)) /\ Once(Tail(q))
  BY TailSent, OwnQueue DEF IsQueue

LEMMA WithoutQueue ==
  ASSUME NEW q, IsQueue(q), NEW n \in 1..Len(q)
  PROVE  /\ IsQueue(Without(q, n)) /\ \A m \in Sent(Without(q, n)) : m \in Sent(q)
         /\ Once(q) => Once(Without(q, n))
  BY WithoutSent, OwnQueue DEF IsQueue

\* What a handler publishes is one or two messages, or none.
LEMMA FewSent ==
  /\ IsQueue(<<>>) /\ Sent(<<>>) = {} /\ Once(<<>>)
  /\ \A a : IsQueue(<<a>>) /\ Sent(<<a>>) = {a}
  /\ \A a, b : IsQueue(<<a, b>>) /\ Sent(<<a, b>>) = {a, b}
<1>1. IsQueue(<<>>) /\ Sent(<<>>) = {} /\ Once(<<>>)
  BY DEF IsQueue, Sent, Once
<1>2. ASSUME NEW a
      PROVE  IsQueue(<<a>>) /\ Sent(<<a>>) = {a}
  <2>1. <<a>> \in Seq({a}) /\ Len(<<a>>) = 1 /\ <<a>>[1] = a
    OBVIOUS
  <2>2. 1..1 = {1}
    OBVIOUS
  <2>3. Sent(<<a>>) = {a}
    BY <2>1, <2>2 DEF Sent
  <2>4. QED
    BY <2>1, <2>3, OwnQueue
<1>3. ASSUME NEW a, NEW b
      PROVE  IsQueue(<<a, b>>) /\ Sent(<<a, b>>) = {a, b}
  <2>1. <<a, b>> \in Seq({a, b}) /\ Len(<<a, b>>) = 2 /\ <<a, b>>[1] = a /\ <<a, b>>[2] = b
    OBVIOUS
  <2>2. 1..2 = {1, 2}
    OBVIOUS
  <2>3. Sent(<<a, b>>) = {a, b}
    BY <2>1, <2>2 DEF Sent
  <2>4. QED
    BY <2>1, <2>3, OwnQueue
<1>4. QED
  BY <1>1, <1>2, <1>3

-----------------------------------------------------------------------------
(* Images and their chunks. *)

LEMMA Sizes ==
  /\ HostChunk \in Nat \ {0} /\ MaxChunk \in Nat \ {0} /\ MaxFile \in Nat \ {0}
  /\ HostChunk <= MaxChunk
  BY LimitAssumption, ImageAssumption

LEMMA Images ==
  ASSUME NEW j \in Upload
  PROVE  j \in Job /\ Target[j] \in Path /\ Image[j] \in File /\ Len(Image[j]) \in Nat
         /\ Crc(Image[j]) \in Nat
  BY JobAssumption, TargetAssumption, ImageAssumption DEF File

\* The chunks of an image are as many as it takes.
LEMMA ChunkNumbers ==
  ASSUME NEW j \in Upload, NEW n \in Nat
  PROVE  /\ Chunks(j) \in Nat
         /\ n < Chunks(j) <=> n * HostChunk < Len(Image[j])
<1> DEFINE L == Len(Image[j])
<1>1. L \in Nat /\ HostChunk \in Nat \ {0}
  BY Images, Sizes
<1>2. Chunks(j) = (L + HostChunk - 1) \div HostChunk
  BY DEF Chunks, ChunkCount
<1> HIDE DEF L
<1>3. (L + HostChunk - 1) \div HostChunk \in Nat
  BY <1>1, SMT
<1>4. n < (L + HostChunk - 1) \div HostChunk <=> n * HostChunk < L
  BY <1>1, SMT
<1>5. QED
  BY <1>2, <1>3, <1>4 DEF L

LEMMA PrefixNext ==
  ASSUME NEW j \in Upload, NEW n \in Nat, n < Chunks(j)
  PROVE  /\ ChunkAt(Image[j], HostChunk, n) \in File
         /\ Len(ChunkAt(Image[j], HostChunk, n)) \in 1..HostChunk
         /\ Prefix(j, n) \o ChunkAt(Image[j], HostChunk, n) = Prefix(j, n + 1)
         /\ Prefix(j, n) \in File /\ Len(Prefix(j, n)) = n * HostChunk
         /\ Len(Prefix(j, n + 1)) = IF n + 1 < Chunks(j) THEN (n + 1) * HostChunk ELSE Len(Image[j])
         /\ n + 1 = Chunks(j) => Prefix(j, n + 1) = Image[j]
<1> DEFINE f == Image[j]
           a == n * HostChunk
           b == IF (n + 1) * HostChunk < Len(f) THEN (n + 1) * HostChunk ELSE Len(f)
<1>1. f \in Seq(Byte) /\ Len(f) \in Nat
  BY Images DEF File
<1>2. a \in Nat /\ b \in Nat /\ a < b /\ b <= Len(f) /\ b <= a + HostChunk /\ a < Len(f)
      /\ (n + 1 = Chunks(j) => b = Len(f)) /\ (n + 1 < Chunks(j) => b = (n + 1) * HostChunk)
      /\ (~(n + 1 < Chunks(j)) => b = Len(f))
  <2>1. a < Len(f) /\ (n + 1 < Chunks(j) <=> (n + 1) * HostChunk < Len(f))
    BY ChunkNumbers
  <2>2. (n + 1) * HostChunk = a + HostChunk /\ a \in Nat
    BY Sizes, SMT
  <2> DEFINE c == (n + 1) * HostChunk
  <2>3. Chunks(j) \in Nat /\ HostChunk \in Nat \ {0} /\ c = a + HostChunk
    BY <2>2, ChunkNumbers, Sizes
  <2>4. b = (IF c < Len(f) THEN c ELSE Len(f)) /\ (n + 1 < Chunks(j) <=> c < Len(f))
    BY <2>1
  <2> HIDE DEF f, a, b, c
  <2>5. a \in Nat /\ b \in Nat /\ a < b /\ b <= Len(f) /\ b <= a + HostChunk /\ a < Len(f)
    BY <1>1, <2>1, <2>2, <2>3, <2>4
  <2>6. (n + 1 < Chunks(j) => b = c) /\ (~(n + 1 < Chunks(j)) => b = Len(f))
    BY <2>4
  <2>7. QED
    BY <2>3, <2>5, <2>6 DEF c
<1>3. ChunkAt(f, HostChunk, n) = SubSeq(f, a + 1, b)
  BY DEF ChunkAt
<1>4. Prefix(j, n) = SubSeq(f, 1, a) /\ Prefix(j, n + 1) = SubSeq(f, 1, b)
  BY <1>2 DEF Prefix
<1> HIDE DEF f, a, b
<1>5. SubSeq(f, a + 1, b) \in Seq(Byte) /\ Len(SubSeq(f, a + 1, b)) = b - a
      /\ SubSeq(f, 1, a) \in Seq(Byte) /\ Len(SubSeq(f, 1, a)) = a /\ Len(SubSeq(f, 1, b)) = b
  BY <1>1, <1>2
<1>6. SubSeq(f, 1, a) \o SubSeq(f, a + 1, b) = SubSeq(f, 1, b)
  BY <1>1, <1>2
<1>7. b = Len(f) => SubSeq(f, 1, b) = f
  BY <1>1
<1>8. b - a \in 1..HostChunk
  BY <1>2, Sizes
<1>9. QED
  BY <1>2, <1>3, <1>4, <1>5, <1>6, <1>7, <1>8 DEF f, a, b, File

-----------------------------------------------------------------------------
(* What a step leaves of the jobs it is not about. *)

LEMMA OtherJob ==
  ASSUME NEW k \in Upload, JobInv(k),
         thread'[k] = thread[k], cut \subseteq cut',
         outcome'[k] = outcome[k] \/ (OwnTransfer(k) /\ outcome'[k] # "ok"),
         PutMsg(k) \in Sent(down') => PutMsg(k) \in Sent(down),
         ChunkMsg(k, thread[k].next) \in Sent(down')
           => ChunkMsg(k, thread[k].next) \in Sent(down),
         \A m \in Heard' : m.topic = "fs/ack" /\ m.job = k => m \in Heard,
         OwnTransfer(k)' => OwnTransfer(k) /\ incoming' = incoming
                            /\ outcome'[k] = outcome[k],
         Unrivalled(k)' /\ (OwnTransfer(k)' \/ outcome'[k] = "ok")
           => Unrivalled(k) /\ fs'[Target[k]] = fs[Target[k]]
  PROVE  JobInv(k)'
<1>1. outcome'[k] = "ok" => outcome[k] = "ok"
  OBVIOUS
<1>2. outcome[k] = "ok" => outcome'[k] = "ok"
  BY DEF JobInv, Owned
<1>3. Heeds(k)'
  BY DEF JobInv, Heeds, At
<1>4. PutPending(k)'
  BY <1>1 DEF JobInv, PutPending, At
<1>5. ChunkPending(k)'
  BY DEF JobInv, ChunkPending, At, Ack
<1>6. Acknowledged(k)'
  BY <1>2 DEF JobInv, Acknowledged, At
<1>7. Owned(k)'
  BY <1>1 DEF JobInv, Owned, At
<1>8. Verdict(k)'
  BY <1>1 DEF JobInv, Verdict, At
<1>9. At(k, "done")' => outcome'[k] = "ok" \/ Target[k] \in cut'
  BY <1>2 DEF JobInv, At
<1>10. QED
  BY <1>3, <1>4, <1>5, <1>6, <1>7, <1>8, <1>9 DEF JobInv

-----------------------------------------------------------------------------
(* Messages. *)

LEMMA Messages ==
  /\ \A j : PutMsg(j).kind = "put" /\ PutMsg(j).job = j
  /\ \A j, n : ChunkMsg(j, n).kind = "chunk" /\ ChunkMsg(j, n).job = j /\ ChunkMsg(j, n).seq = n
               /\ ChunkMsg(j, n).data = ChunkAt(Image[j], HostChunk, n)
  /\ \A j : DeleteMsg(j).kind = "delete" /\ DeleteMsg(j).job = j
  BY DEF PutMsg, ChunkMsg, DeleteMsg

LEMMA Answers ==
  /\ \A j, n, st : Ack(j, n, st).topic = "fs/ack" /\ Ack(j, n, st).job = j
                   /\ Ack(j, n, st).seq = n /\ Ack(j, n, st).status = st
  /\ \A j, op, st : Result(j, op, st).topic = "fs/result" /\ Result(j, op, st).job = j
                    /\ Result(j, op, st).op = op /\ Result(j, op, st).status = st
  /\ \A j, op, im : ImageResult(j, op, im).topic = "fs/result" /\ ImageResult(j, op, im).job = j
                    /\ ImageResult(j, op, im).op = op /\ ImageResult(j, op, im).status = "ok"
  BY DEF Ack, Result, ImageResult

-----------------------------------------------------------------------------
(* The steps of the WebUI. *)

LEMMA QuietFiles ==
  ASSUME UploadInv, UNCHANGED <<fs, incoming, cut>>
  PROVE  IInv' /\ FilesIntact'
<1>1. IInv'
  BY UnchangedStep DEF UploadInv
<1>2. FilesIntact'
  BY DEF UploadInv, FilesIntact, Whole
<1>3. QED
  BY <1>1, <1>2

\* A thread moves, and sends at most the message its new state waits to be answered.
LEMMA ThreadStep ==
  ASSUME UploadInv, NEW j \in Upload,
         NEW pc \in {"wait_ready", "wait_ok", "done", "timeout", "dropped"}, NEW next \in Nat,
         Moved(j, pc, next), UNCHANGED <<env, fs, incoming, acks, removed, up, outcome, cut>>,
         \/ down' = down
         \/ \E m \in {PutMsg(j), ChunkMsg(j, next)} :
              m \notin Sent(down) /\ down' = Append(down, m),
         next = thread[j].next \/ ChunkMsg(j, thread[j].next) \notin Sent(down),
         JobInv(j)'
  PROVE  UploadInv'
<1>1. thread' = [thread EXCEPT ![j] = [pc |-> pc, next |-> next]] /\ thread'[j].next = next
      /\ thread'[j].pc = pc /\ \A k \in Upload \ {j} : thread'[k] = thread[k]
  BY DEF UploadInv, Types, Moved
<1>2. IsQueue(down') /\ Once(down')
      /\ \A m \in Sent(down') : m \in Sent(down) \/ m = PutMsg(j) \/ m = ChunkMsg(j, next)
  <2>1. CASE down' = down
    BY <2>1 DEF UploadInv, Types, Arriving
  <2>2. CASE down' # down
    <3>1. PICK m \in {PutMsg(j), ChunkMsg(j, next)} :
            m \notin Sent(down) /\ down' = Append(down, m)
      BY <2>2
    <3>2. IsQueue(down) /\ Once(down)
      BY DEF UploadInv, Types, Arriving
    <3>3. QED
      BY <3>1, <3>2, AppendQueue
  <2>3. QED
    BY <2>1, <2>2
<1>3. Types'
  BY <1>1, <1>2 DEF UploadInv, Types
<1>4. Arriving'
  <2>1. ASSUME NEW m \in Sent(down')
        PROVE  \/ \E k \in Upload : m = PutMsg(k) \/ m = ChunkMsg(k, thread'[k].next)
               \/ \E k \in removed' : m = DeleteMsg(k)
    <3>1. CASE m = PutMsg(j) \/ m = ChunkMsg(j, next)
      BY <1>1, <3>1
    <3>2. CASE m \in Sent(down)
      <4>1. CASE \E k \in removed : m = DeleteMsg(k)
        BY <4>1
      <4>2. ASSUME NEW k \in Upload, m = PutMsg(k) \/ m = ChunkMsg(k, thread[k].next)
            PROVE  \E l \in Upload : m = PutMsg(l) \/ m = ChunkMsg(l, thread'[l].next)
        BY <1>1, <3>2, <4>2
      <4>3. QED
        BY <3>2, <4>1, <4>2 DEF UploadInv, Arriving
    <3>3. QED
      BY <1>2, <3>1, <3>2
  <2>2. QED
    BY <1>2, <2>1 DEF Arriving
<1>5. Heard' = Heard /\ Uploads'
  BY DEF UploadInv, Uploads, Heard
<1>6. ASSUME NEW k \in Upload \ {j}
      PROVE  JobInv(k)'
  <2>1. \A n : PutMsg(k) # PutMsg(j) /\ PutMsg(k) # ChunkMsg(j, next)
               /\ ChunkMsg(k, n) # PutMsg(j) /\ ChunkMsg(k, n) # ChunkMsg(j, next)
    BY Messages
  <2>2. Unrivalled(k)' => Unrivalled(k)
    <3>1. ~At(j, "idle")'
      BY <1>1 DEF At
    <3>2. QED
      BY <1>1, <3>1 DEF Unrivalled, At
  <2>3. JobInv(k) /\ thread'[k] = thread[k]
    BY <1>1 DEF UploadInv
  <2>4. OwnTransfer(k)' <=> OwnTransfer(k)
    BY DEF OwnTransfer
  <2>5. QED
    BY <1>2, <1>5, <2>1, <2>2, <2>3, <2>4, OtherJob
<1>7. QED
  BY <1>3, <1>4, <1>5, <1>6, QuietFiles DEF UploadInv

LEMMA StartedStep ==
  ASSUME UploadInv, NEW j \in Upload, StartUpload(j),
         Moved(j, "wait_ready", 0), down' = Append(down, PutMsg(j))
  PROVE  UploadInv'
<1>1. JobInv(j) /\ At(j, "idle") /\ thread[j].next = 0
  BY DEF UploadInv, StartUpload, JobInv, Heeds
<1>2. Moved(j, "wait_ready", 0) /\ down' = Append(down, PutMsg(j))
      /\ UNCHANGED <<env, fs, incoming, acks, removed, up, outcome, cut>>
  BY DEF StartUpload
<1>3. thread'[j].pc = "wait_ready" /\ thread'[j].next = 0
  BY <1>2 DEF UploadInv, Types, Moved
<1>4. PutMsg(j) \notin Sent(down) /\ ChunkMsg(j, 0) \notin Sent(down)
  BY <1>1 DEF JobInv, PutPending, ChunkPending, At
<1>5. ~OwnTransfer(j) /\ outcome[j] # "ok" /\ \A m \in Heard : m.topic = "fs/ack" => m.job # j
  BY <1>1 DEF JobInv, Heeds, Owned, Verdict
<1>6. ChunkMsg(j, 0) \notin Sent(down')
  BY <1>2, <1>4, Messages, AppendQueue DEF UploadInv, Types
<1>7. ~OwnTransfer(j)' /\ outcome'[j] # "ok" /\ \A m \in Heard' : m.topic = "fs/ack" => m.job # j
  BY <1>2, <1>5 DEF OwnTransfer, Heard
<1>8. Heeds(j)'
  <2>1. Len(Image[j]) > 0
    BY LimitAssumption DEF StartUpload
  <2>2. 0 * HostChunk = 0
    BY Sizes
  <2>3. 0 < Chunks(j)
    BY <2>1, <2>2, ChunkNumbers, Images
  <2>4. QED
    BY <1>3, <2>3 DEF Heeds, At
<1>9. JobInv(j)'
  BY <1>3, <1>6, <1>7, <1>8
     DEF JobInv, PutPending, ChunkPending, Acknowledged, Owned, Verdict, At
<1>10. QED
  BY <1>1, <1>2, <1>4, <1>9, ThreadStep

\* A thread that hears its job's "ready" has no put_mqtt on its way any more.
LEMMA FirstChunkStep ==
  ASSUME UploadInv, NEW j \in Upload, GotReady(j),
         Moved(j, "wait_ok", 0), down' = Append(down, ChunkMsg(j, 0))
  PROVE  UploadInv'
<1>1. JobInv(j) /\ At(j, "wait_ready") /\ thread[j].next = 0
  BY DEF UploadInv, GotReady, JobInv, Heeds
<1>2. Moved(j, "wait_ok", 0) /\ down' = Append(down, ChunkMsg(j, 0))
      /\ UNCHANGED <<env, fs, incoming, acks, removed, up, outcome, cut>>
  BY DEF GotReady
<1>3. thread'[j].pc = "wait_ok" /\ thread'[j].next = 0
  BY <1>2 DEF UploadInv, Types, Moved
<1>4. PutMsg(j) \notin Sent(down) /\ ChunkMsg(j, 0) \notin Sent(down)
  <2>1. Ack(j, 0, "ready") \in Heard
    BY DEF GotReady, Heard
  <2>2. PutMsg(j) \notin Sent(down)
    BY <1>1, <2>1, Answers DEF JobInv, PutPending
  <2>3. QED
    BY <1>1, <2>2 DEF JobInv, ChunkPending, At
<1>5. PutMsg(j) \notin Sent(down')
  BY <1>2, <1>4, Messages, AppendQueue DEF UploadInv, Types
<1>6. \A m \in Heard : m.topic = "fs/ack" /\ m.job = j => m.status # "ok"
  BY <1>1 DEF JobInv, Acknowledged, At
<1>7. Heard' = Heard /\ (OwnTransfer(j)' <=> OwnTransfer(j)) /\ (Unrivalled(j)' <=> Unrivalled(j))
  BY <1>2 DEF Heard, OwnTransfer, Unrivalled, At, Moved, UploadInv, Types
<1>8. Heeds(j)'
  BY <1>1, <1>3 DEF JobInv, Heeds, At
<1>9. PutPending(j)' /\ ChunkPending(j)' /\ Acknowledged(j)'
  BY <1>1, <1>2, <1>3, <1>5, <1>6, <1>7, Answers
     DEF JobInv, PutPending, ChunkPending, Acknowledged, Owned, At
<1>10. Owned(j)' /\ Verdict(j)'
  BY <1>1, <1>2, <1>3, <1>7 DEF JobInv, Owned, Verdict, At
<1>11. JobInv(j)'
  BY <1>3, <1>8, <1>9, <1>10 DEF JobInv, At
<1>12. QED
  BY <1>1, <1>2, <1>4, <1>11, ThreadStep

\* A chunk that was acknowledged is no longer on its way.
LEMMA AckedChunk ==
  ASSUME UploadInv, NEW j \in Upload, ChunkAcked(j)
  PROVE  /\ Ack(j, thread[j].next, "ok") \in Heard
         /\ PutMsg(j) \notin Sent(down) /\ ChunkMsg(j, thread[j].next) \notin Sent(down)
         /\ OwnTransfer(j) => incoming.nextSeq = thread[j].next + 1
         /\ thread[j].next + 1 = Chunks(j) => outcome[j] = "ok" \/ Target[j] \in cut
<1>1. JobInv(j)
  BY DEF UploadInv
<1>2. Ack(j, thread[j].next, "ok") \in Heard
  BY DEF ChunkAcked, Heard
<1>3. QED
  BY <1>1, <1>2, Answers DEF JobInv, PutPending, ChunkPending, Acknowledged

LEMMA NextChunkStep ==
  ASSUME UploadInv, NEW j \in Upload, GotOk(j), Moved(j, "wait_ok", thread[j].next + 1),
         down' = Append(down, ChunkMsg(j, thread[j].next + 1))
  PROVE  UploadInv'
<1> DEFINE n == thread[j].next
<1>1. JobInv(j) /\ At(j, "wait_ok") /\ n \in Nat /\ n < Chunks(j) /\ n + 1 # Chunks(j)
      /\ Chunks(j) \in Nat
  BY ChunkNumbers DEF UploadInv, Types, GotOk, JobInv, Heeds, At, LastChunkSent
<1>2. Moved(j, "wait_ok", n + 1) /\ down' = Append(down, ChunkMsg(j, n + 1))
      /\ UNCHANGED <<env, fs, incoming, acks, removed, up, outcome, cut>>
  BY DEF GotOk
<1>3. thread'[j].pc = "wait_ok" /\ thread'[j].next = n + 1
  BY <1>2 DEF UploadInv, Types, Moved
<1>4. PutMsg(j) \notin Sent(down) /\ ChunkMsg(j, n) \notin Sent(down)
      /\ (OwnTransfer(j) => incoming.nextSeq = n + 1)
  BY AckedChunk DEF GotOk
<1>5. ChunkMsg(j, n + 1) \notin Sent(down)
  <2>1. ASSUME NEW k \in Upload
        PROVE  ChunkMsg(j, n + 1) # PutMsg(k) /\ ChunkMsg(j, n + 1) # ChunkMsg(k, thread[k].next)
    <3>1. n + 1 # n
      BY <1>1
    <3>2. QED
      BY <3>1, Messages
  <2>2. \A k : ChunkMsg(j, n + 1) # DeleteMsg(k)
    BY Messages
  <2>3. QED
    BY <2>1, <2>2 DEF UploadInv, Arriving
<1>6. PutMsg(j) \notin Sent(down')
  BY <1>2, <1>4, Messages, AppendQueue DEF UploadInv, Types
<1>7. ASSUME NEW m \in Heard, m.topic = "fs/ack", m.job = j, m.status = "ok"
      PROVE  m.seq <= n + 1 /\ m.seq # n + 1
  <2>1. m.seq <= n /\ m.seq \in Nat
    BY <1>1, <1>7 DEF JobInv, Acknowledged, UploadInv, Uploads
  <2>2. QED
    BY <1>1, <2>1
<1>8. Heard' = Heard /\ (OwnTransfer(j)' <=> OwnTransfer(j)) /\ (Unrivalled(j)' <=> Unrivalled(j))
  BY <1>2 DEF Heard, OwnTransfer, Unrivalled, At, Moved, UploadInv, Types
<1>9. n + 1 \in Nat /\ n + 1 < Chunks(j)
  BY <1>1
<1> HIDE DEF n
<1>10. Heeds(j)'
  BY <1>3, <1>9 DEF Heeds, At
<1>11. PutPending(j)'
  BY <1>6 DEF PutPending
<1>12. ChunkPending(j)'
  BY <1>2, <1>3, <1>4, <1>7, <1>8, Answers DEF ChunkPending, At
<1>13. Acknowledged(j)'
  BY <1>1, <1>2, <1>3, <1>7, <1>8 DEF JobInv, Acknowledged, At
<1>14. Owned(j)' /\ Verdict(j)'
  BY <1>1, <1>2, <1>3, <1>4, <1>8 DEF JobInv, Owned, Verdict, At
<1>15. JobInv(j)'
  BY <1>3, <1>10, <1>11, <1>12, <1>13, <1>14 DEF JobInv, At
<1>16. QED
  BY <1>2, <1>4, <1>5, <1>9, <1>15, ThreadStep DEF n

\* A thread that waits no more keeps its place.
LEMMA ThreadEnds ==
  ASSUME UploadInv, NEW j \in Upload, NEW pc \in {"done", "timeout", "dropped"},
         Moved(j, pc, thread[j].next),
         UNCHANGED <<env, fs, incoming, acks, removed, down, up, outcome, cut>>,
         At(j, "idle") => 0 < Chunks(j),
         pc = "done" =>
           /\ PutMsg(j) \notin Sent(down) /\ ChunkMsg(j, thread[j].next) \notin Sent(down)
           /\ outcome[j] = "ok" \/ Target[j] \in cut
  PROVE  UploadInv'
<1>1. JobInv(j) /\ thread[j].next \in Nat
  BY DEF UploadInv, Types
<1>2. thread'[j].pc = pc /\ thread'[j].next = thread[j].next
  BY DEF UploadInv, Types, Moved
<1>3. Heard' = Heard /\ (OwnTransfer(j)' <=> OwnTransfer(j)) /\ (Unrivalled(j)' <=> Unrivalled(j))
  BY DEF Heard, OwnTransfer, Unrivalled, At, Moved, UploadInv, Types
<1>4. Heeds(j)'
  BY <1>1, <1>2 DEF JobInv, Heeds, At
<1>5. PutPending(j)' /\ ChunkPending(j)'
  BY <1>1, <1>2, <1>3 DEF JobInv, PutPending, ChunkPending, At
<1>6. Acknowledged(j)'
  BY <1>1, <1>2, <1>3 DEF JobInv, Acknowledged, At
<1>7. Owned(j)' /\ Verdict(j)'
  BY <1>1, <1>2, <1>3 DEF JobInv, Owned, Verdict, At
<1>8. JobInv(j)'
  BY <1>2, <1>4, <1>5, <1>6, <1>7 DEF JobInv, At
<1>9. QED
  BY <1>1, <1>8, ThreadStep

LEMMA UploadDoneStep ==
  ASSUME UploadInv, NEW j \in Upload, UploadDone(j)
  PROVE  UploadInv'
<1>1. At(j, "wait_ok") /\ ChunkAcked(j) /\ thread[j].next + 1 = Chunks(j)
  BY DEF UploadDone, LastChunkSent
<1>2. QED
  BY <1>1, AckedChunk, ThreadEnds DEF UploadDone, At

LEMMA GiveUpStep ==
  ASSUME UploadInv, NEW j \in Upload, GiveUp(j)
  PROVE  UploadInv'
  BY ThreadEnds DEF GiveUp, At

\* So does one whose publish fails.
LEMMA DroppedStep ==
  ASSUME UploadInv, NEW j \in Upload, NEW e \in {"dropped", "timeout"},
         Moved(j, e, thread[j].next), down' = down,
         UNCHANGED <<env, fs, incoming, acks, removed, up, outcome, cut>>,
         At(j, "idle") => 0 < Chunks(j)
  PROVE  UploadInv'
<1>1. e \in {"done", "timeout", "dropped"} /\ e # "done"
  OBVIOUS
<1>2. QED
  BY <1>1, ThreadEnds

LEMMA StartUploadStep ==
  ASSUME UploadInv, NEW j \in Upload, StartUpload(j)
  PROVE  UploadInv'
<1>1. 0 < Chunks(j)
  <2>1. Len(Image[j]) > 0
    BY LimitAssumption DEF StartUpload
  <2>2. 0 * HostChunk = 0
    BY Sizes
  <2>3. QED
    BY <2>1, <2>2, ChunkNumbers, Images
<1>2. QED
  BY <1>1, StartedStep, DroppedStep DEF StartUpload, Publish

LEMMA GotReadyStep ==
  ASSUME UploadInv, NEW j \in Upload, GotReady(j)
  PROVE  UploadInv'
<1>1. ~At(j, "idle")
  BY DEF GotReady, At
<1>2. QED
  BY <1>1, FirstChunkStep, DroppedStep DEF GotReady, Publish

LEMMA GotOkStep ==
  ASSUME UploadInv, NEW j \in Upload, GotOk(j)
  PROVE  UploadInv'
<1>1. ~At(j, "idle")
  BY DEF GotOk, At
<1>2. QED
  BY <1>1, NextChunkStep, DroppedStep DEF GotOk, Publish

\* Messages arrive at the WebUI, or get lost.
LEMMA FewerMessages ==
  ASSUME UploadInv, UNCHANGED <<env, fs, incoming, thread, removed, outcome, cut>>,
         IsQueue(down'), IsQueue(up'), Once(down'), \A m \in Sent(down') : m \in Sent(down),
         \A m \in Heard' : m \in Heard, \A m \in acks' : m.topic = "fs/ack"
  PROVE  UploadInv'
<1>1. Types'
  BY DEF UploadInv, Types
<1>2. Arriving'
  BY DEF UploadInv, Arriving
<1>3. Uploads'
  BY DEF UploadInv, Uploads
<1>4. ASSUME NEW k \in Upload
      PROVE  JobInv(k)'
  <2>1. (OwnTransfer(k)' <=> OwnTransfer(k)) /\ (Unrivalled(k)' <=> Unrivalled(k))
    BY DEF OwnTransfer, Unrivalled, At
  <2>2. JobInv(k)
    BY DEF UploadInv
  <2>3. QED
    BY <2>1, <2>2, OtherJob
<1>5. QED
  BY <1>1, <1>2, <1>3, <1>4, QuietFiles DEF UploadInv

LEMMA RecordStep ==
  ASSUME UploadInv, Record
  PROVE  UploadInv'
<1>1. up # <<>> /\ up' = Tail(up) /\ IsQueue(up)
  BY DEF Record, UploadInv, Types
<1>2. IsQueue(up') /\ Head(up) \in Sent(up) /\ \A m \in Sent(up') : m \in Sent(up)
  BY <1>1, TailQueue
<1>3. \A m \in acks' : m.topic = "fs/ack" /\ m \in acks \cup Sent(up)
  BY <1>2 DEF Record, UploadInv, Uploads
<1>4. \A m \in Heard' : m \in Heard
  BY <1>2, <1>3 DEF Heard
<1>5. UNCHANGED <<env, fs, incoming, thread, removed, outcome, cut, down>>
  BY DEF Record
<1>6. IsQueue(down') /\ Once(down') /\ \A m \in Sent(down') : m \in Sent(down)
  BY <1>5 DEF UploadInv, Types, Arriving
<1>7. QED
  BY <1>2, <1>3, <1>4, <1>5, <1>6, FewerMessages

LEMMA EvictStep ==
  ASSUME UploadInv, Evict
  PROVE  UploadInv'
<1>1. UNCHANGED <<env, fs, incoming, thread, removed, outcome, cut, down, up>>
      /\ \A m \in acks' : m \in acks
  BY DEF Evict
<1>2. IsQueue(down') /\ IsQueue(up') /\ Once(down') /\ \A m \in Sent(down') : m \in Sent(down)
  BY <1>1 DEF UploadInv, Types, Arriving
<1>3. \A m \in Heard' : m \in Heard
  BY <1>1 DEF Heard
<1>4. \A m \in acks' : m.topic = "fs/ack"
  BY <1>1 DEF UploadInv, Uploads
<1>5. QED
  BY <1>1, <1>2, <1>3, <1>4, FewerMessages

LEMMA LoseStep ==
  ASSUME UploadInv, Lose
  PROVE  UploadInv'
<1>1. UNCHANGED <<env, fs, incoming, thread, removed, outcome, cut, acks>>
  BY DEF Lose, hostVars
<1>2. IsQueue(down) /\ IsQueue(up) /\ Once(down)
  BY DEF UploadInv, Types, Arriving
<1>3. /\ IsQueue(down') /\ Once(down') /\ \A m \in Sent(down') : m \in Sent(down)
      /\ IsQueue(up') /\ \A m \in Sent(up') : m \in Sent(up)
  <2>1. CASE \E i \in 1..Len(down) : down' = Without(down, i) /\ up' = up
    BY <1>2, <2>1, WithoutQueue
  <2>2. CASE \E i \in 1..Len(up) : up' = Without(up, i) /\ down' = down
    BY <1>2, <2>2, WithoutQueue
  <2>3. QED
    BY <2>1, <2>2 DEF Lose
<1>4. \A m \in Heard' : m \in Heard
  BY <1>1, <1>3 DEF Heard
<1>5. \A m \in acks' : m.topic = "fs/ack"
  BY <1>1 DEF UploadInv, Uploads
<1>6. QED
  BY <1>1, <1>3, <1>4, <1>5, FewerMessages

LEMMA SendDeleteStep ==
  ASSUME UploadInv, NEW j \in Removal, SendDelete(j)
  PROVE  UploadInv'
<1>1. removed' = removed \cup {j} /\ j \notin removed /\ down' = Append(down, DeleteMsg(j))
      /\ UNCHANGED <<env, fs, incoming, thread, acks, up, outcome, cut>>
  BY DEF SendDelete
<1>2. DeleteMsg(j) \notin Sent(down)
  <2>1. \A k, n : DeleteMsg(j) # PutMsg(k) /\ DeleteMsg(j) # ChunkMsg(k, n)
    BY Messages
  <2>2. \A k \in removed : DeleteMsg(j) # DeleteMsg(k)
    BY <1>1, Messages
  <2>3. QED
    BY <2>1, <2>2 DEF UploadInv, Arriving
<1>3. IsQueue(down) /\ Once(down)
  BY DEF UploadInv, Types, Arriving
<1>4. IsQueue(down') /\ Once(down')
      /\ \A m : m \in Sent(down') <=> m \in Sent(down) \/ m = DeleteMsg(j)
  BY <1>1, <1>2, <1>3, AppendQueue
<1>5. Types'
  BY <1>1, <1>4 DEF UploadInv, Types
<1>6. Arriving'
  BY <1>1, <1>4 DEF UploadInv, Arriving
<1>7. Uploads' /\ Heard' = Heard
  BY <1>1 DEF UploadInv, Uploads, Heard
<1>8. ASSUME NEW k \in Upload
      PROVE  JobInv(k)'
  <2>1. (OwnTransfer(k)' <=> OwnTransfer(k)) /\ (Unrivalled(k)' => Unrivalled(k))
    BY <1>1 DEF OwnTransfer, Unrivalled, At
  <2>2. JobInv(k)
    BY DEF UploadInv
  <2>3. \A n : PutMsg(k) # DeleteMsg(j) /\ ChunkMsg(k, n) # DeleteMsg(j)
    BY Messages
  <2>4. QED
    BY <1>1, <1>4, <1>7, <2>1, <2>2, <2>3, OtherJob
<1>9. QED
  BY <1>1, <1>5, <1>6, <1>7, <1>8, QuietFiles DEF UploadInv

-----------------------------------------------------------------------------
(* The steps of the device. *)

Handling ==
  /\ down # <<>> /\ down' = Tail(down) /\ up' = up \o out'
  /\ outcome' = [j \in Upload |-> Outcome(j)]
  /\ UNCHANGED <<env, hostVars, cut>>

\* The message is gone, and what the handler published is on its way.
LEMMA HandledQueues ==
  ASSUME UploadInv, Handling, IsQueue(out')
  PROVE  /\ Head(down) \in Sent(down) /\ Head(down) \notin Sent(down')
         /\ IsQueue(down') /\ Once(down') /\ \A m \in Sent(down') : m \in Sent(down)
         /\ IsQueue(up') /\ \A m \in Heard' : m \in Heard \/ m \in Sent(out')
<1>1. IsQueue(down) /\ IsQueue(up) /\ Once(down) /\ down # <<>> /\ down' = Tail(down)
      /\ up' = up \o out' /\ acks' = acks
  BY DEF UploadInv, Types, Arriving, Handling, hostVars
<1>2. IsQueue(up') /\ \A m \in Sent(up') : m \in Sent(up) \/ m \in Sent(out')
  BY <1>1, ConcatQueue
<1>3. QED
  BY <1>1, <1>2, TailQueue DEF Heard

LEMMA Outcomes ==
  ASSUME UploadInv, Handling, NEW k \in Upload
  PROVE  /\ outcome'[k] = IF Result(k, "put_mqtt", "failed") \in Sent(out') THEN "failed"
                          ELSE IF Result(k, "put_mqtt", "rejected") \in Sent(out') THEN "rejected"
                          ELSE IF \E m \in Sent(out') : m.topic = "fs/result" /\ m.job = k
                                                          /\ m.op = "put_mqtt" THEN "ok"
                          ELSE outcome[k]
         /\ outcome' \in [Upload -> {"none", "ok", "failed", "rejected"}]
<1>1. ASSUME NEW l \in Upload
      PROVE  Outcome(l) = IF Result(l, "put_mqtt", "failed") \in Sent(out') THEN "failed"
                          ELSE IF Result(l, "put_mqtt", "rejected") \in Sent(out') THEN "rejected"
                          ELSE IF \E m \in Sent(out') : m.topic = "fs/result" /\ m.job = l
                                                          /\ m.op = "put_mqtt" THEN "ok"
                          ELSE outcome[l]
  BY DEF Outcome, Sent
<1>2. ASSUME NEW l \in Upload
      PROVE  Outcome(l) \in {"none", "ok", "failed", "rejected"}
  BY <1>1 DEF UploadInv, Types
<1>3. QED
  BY <1>1, <1>2 DEF Handling

\* The invariant after a step of the device, from what it leaves of each part.
LEMMA HandledInv ==
  ASSUME UploadInv, Handling, IsQueue(out'),
         \A m \in Sent(out') : m.topic = "fs/ack" =>
           m.job \in Upload /\ (m.status = "ok" => m = Ack(m.job, m.seq, "ok") /\ m.seq \in Nat),
         IInv', FilesIntact', incoming'.active => incoming'.job \in Upload,
         \A k \in Upload : JobInv(k)'
  PROVE  UploadInv'
<1>1. IsQueue(down') /\ Once(down') /\ (\A m \in Sent(down') : m \in Sent(down))
      /\ IsQueue(up') /\ \A m \in Heard' : m \in Heard \/ m \in Sent(out')
  BY HandledQueues
<1>2. outcome' \in [Upload -> {"none", "ok", "failed", "rejected"}]
  <2>1. CASE Upload = {}
    BY <2>1 DEF Handling
  <2>2. CASE Upload # {}
    BY <2>2, Outcomes
  <2>3. QED
    BY <2>1, <2>2
<1>3. UNCHANGED <<env, thread, acks, removed>>
  BY DEF Handling, hostVars
<1>4. Types'
  BY <1>1, <1>2, <1>3 DEF UploadInv, Types
<1>5. Arriving'
  BY <1>1, <1>3 DEF UploadInv, Arriving
<1>6. Uploads'
  BY <1>1, <1>3 DEF UploadInv, Uploads
<1>7. QED
  BY <1>4, <1>5, <1>6 DEF UploadInv

\* A step may change a file that was under upload, and one it leaves under upload, whole or spoiled.
LEMMA IntactStep ==
  ASSUME FilesIntact, cut \subseteq cut',
         \A p \in Path :
           \/ incoming'.active /\ incoming'.path = p
           \/ p \in cut'
           \/ ~(incoming.active /\ incoming.path = p) /\ fs'[p] = fs[p]
           \/ fs'[p] = NoFile
           \/ \E j \in Upload : Target[j] = p /\ fs'[p] = Image[j]
  PROVE  FilesIntact'
  BY DEF FilesIntact, Whole

\* The file of an unrivalled upload is not under another one.
LEMMA RivalFree ==
  ASSUME UploadInv, NEW k \in Upload, Unrivalled(k), ~OwnTransfer(k), incoming.active
  PROVE  incoming.path # Target[k]
<1>1. incoming.job \in Upload \ {k} /\ OwnTransfer(incoming.job)
  BY DEF UploadInv, Uploads, OwnTransfer
<1>2. Target[incoming.job] = incoming.path /\ ~At(incoming.job, "idle")
  BY <1>1 DEF UploadInv, JobInv, Owned
<1>3. QED
  BY <1>1, <1>2 DEF Unrivalled

\* A message of job j leaves the other jobs what they are if it leaves their transfers and
\* the files that are neither under upload nor at the path of j.
LEMMA OtherJobs ==
  ASSUME UploadInv, Handling, IsQueue(out'), NEW k \in Upload,
         \A m \in Sent(out') : m.topic = "fs/ack" => m.job # k,
         outcome'[k] = outcome[k] \/ (OwnTransfer(k) /\ outcome'[k] = "failed"),
         OwnTransfer(k)' => OwnTransfer(k) /\ UNCHANGED <<fs, incoming>> /\ outcome'[k] = outcome[k],
         fs'[Target[k]] = fs[Target[k]] \/ ~Unrivalled(k)
           \/ (incoming.active /\ incoming.path = Target[k])
  PROVE  JobInv(k)'
<1>1. (\A m \in Sent(down') : m \in Sent(down)) /\ \A m \in Heard' : m \in Heard \/ m \in Sent(out')
  BY HandledQueues
<1>2. JobInv(k) /\ UNCHANGED <<thread, removed, cut>>
  BY DEF UploadInv, Handling, hostVars
<1>3. Unrivalled(k)' <=> Unrivalled(k)
  BY <1>2 DEF Unrivalled, At
<1>4. ASSUME Unrivalled(k), OwnTransfer(k)' \/ outcome'[k] = "ok"
      PROVE  fs'[Target[k]] = fs[Target[k]]
  <2>1. CASE OwnTransfer(k)'
    BY <2>1
  <2>2. CASE ~OwnTransfer(k)'
    <3>1. outcome[k] = "ok"
      BY <1>4, <2>2
    <3>2. ~OwnTransfer(k)
      BY <1>2, <3>1 DEF JobInv, Owned
    <3>3. QED
      BY <1>4, <3>2, RivalFree
  <2>3. QED
    BY <2>1, <2>2
<1>5. QED
  BY <1>1, <1>2, <1>3, <1>4, OtherJob

-----------------------------------------------------------------------------
(* The device handles a put_mqtt. *)

LEMMA SupersededSteps ==
  ASSUME IInv, NEW e
  PROVE  /\ IsQueue(Superseded.out \o <<e>>)
         /\ \A m \in Sent(Superseded.out \o <<e>>) :
              m = e \/ (m = Result(incoming.job, "put_mqtt", "failed") /\ incoming.active)
         /\ \A p \in Path : IF incoming.active /\ p = incoming.path
                              THEN Superseded.fs[p] = NoFile ELSE Superseded.fs[p] = fs[p]
<1>1. CASE incoming.active
  <2> DEFINE r == Result(incoming.job, "put_mqtt", "failed")
  <2>1. Superseded.out = <<r>>
    BY <1>1 DEF Superseded, FinishResult
  <2> HIDE DEF r
  <2> DEFINE q == <<r>> \o <<e>>
  <2>2. q \in Seq({r, e}) /\ Len(q) = 2 /\ q[1] = r /\ q[2] = e
    <3>1. <<r>> \in Seq({r, e}) /\ <<e>> \in Seq({r, e})
      OBVIOUS
    <3>2. Len(<<r>>) = 1 /\ Len(<<e>>) = 1 /\ <<r>>[1] = r /\ <<e>>[1] = e
      OBVIOUS
    <3>3. QED
      BY <3>1, <3>2
  <2> HIDE DEF q
  <2>3. IsQueue(Superseded.out \o <<e>>) /\ Sent(Superseded.out \o <<e>>) = {r, e}
    <3>1. 1..2 = {1, 2}
      OBVIOUS
    <3>2. Sent(q) = {r, e}
      BY <2>2, <3>1 DEF Sent
    <3>3. QED
      BY <2>1, <2>2, <3>2, OwnQueue DEF q
  <2>4. Superseded.fs = [fs EXCEPT ![incoming.path] = NoFile]
    BY <1>1, SupersededType DEF Superseded
  <2>5. fs \in [Path -> File \cup {NoFile}]
    BY DEF IInv, TypeOK
  <2>6. QED
    BY <1>1, <2>3, <2>4, <2>5 DEF r
<1>2. CASE ~incoming.active
  <2>1. Superseded.out = <<>> /\ Superseded.fs = fs
    BY <1>2 DEF Superseded
  <2>2. <<>> \o <<e>> = <<e>>
    OBVIOUS
  <2>3. QED
    BY <1>2, <2>1, <2>2, FewSent
<1>3. QED
  BY <1>1, <1>2

\* What is known of the job whose put_mqtt the device takes from the queue.
LEMMA PutTaken ==
  ASSUME UploadInv, Handling, Head(down).kind = "put", IsQueue(out')
  PROVE  \E j \in Upload :
           /\ Head(down) = PutMsg(j) /\ JobInv(j) /\ ~OwnTransfer(j) /\ outcome[j] # "ok"
           /\ At(j, "wait_ready") \/ At(j, "timeout") \/ At(j, "dropped")
           /\ thread[j].next = 0
           /\ \A m \in Heard : m.topic = "fs/ack" => m.job # j
           /\ PutMsg(j) \notin Sent(down') /\ ChunkMsg(j, thread[j].next) \notin Sent(down')
<1>1. Head(down) \in Sent(down) /\ Head(down) \notin Sent(down')
      /\ \A m \in Sent(down') : m \in Sent(down)
  BY HandledQueues
<1>2. PICK j \in Upload : Head(down) = PutMsg(j)
  BY <1>1, Messages DEF UploadInv, Arriving
<1>3. JobInv(j) /\ PutPending(j)
  BY DEF UploadInv, JobInv
<1>4. QED
  BY <1>1, <1>2, <1>3 DEF PutPending

LEMMA PutStep ==
  ASSUME UploadInv, Handling, Head(down).kind = "put", HandlePut(Head(down))
  PROVE  UploadInv'
<1>1. PICK m0 : m0 = Head(down)
  OBVIOUS
<1> DEFINE j == m0.job
           p == Target[j]
           n == Len(Image[j])
           c == Crc(Image[j])
<1>2. \/ PutRejected(j, p, n, c) \/ PutOpenFails(j, p, n, c) \/ PutBegun(j, p, n, c)
  BY <1>1 DEF HandlePut
<1>3. IInv
  BY DEF UploadInv
<1>4. /\ IsQueue(out')
      /\ \A m \in Sent(out') :
           \/ m = Ack(j, 0, "ready") /\ PutBegun(j, p, n, c)
           \/ m = Result(j, "put_mqtt", "rejected") /\ PutRejected(j, p, n, c)
           \/ m = Result(j, "put_mqtt", "failed") /\ PutOpenFails(j, p, n, c)
           \/ m = Result(incoming.job, "put_mqtt", "failed") /\ incoming.active
                /\ ~PutRejected(j, p, n, c)
  <2> HIDE DEF j, p, n, c
  <2>1. CASE PutRejected(j, p, n, c)
    BY <2>1, FewSent DEF PutRejected
  <2>2. CASE PutOpenFails(j, p, n, c)
    <3> DEFINE e == Result(j, "put_mqtt", "failed")
    <3>1. out' = Superseded.out \o <<e>> /\ ~PutRejected(j, p, n, c)
      BY <2>2 DEF PutOpenFails, PutRejected
    <3> HIDE DEF e
    <3>2. IsQueue(Superseded.out \o <<e>>) /\ \A m \in Sent(Superseded.out \o <<e>>) :
            m = e \/ (m = Result(incoming.job, "put_mqtt", "failed") /\ incoming.active)
      BY <1>3, SupersededSteps
    <3>3. QED
      BY <2>2, <3>1, <3>2 DEF e
  <2>3. CASE PutBegun(j, p, n, c)
    <3> DEFINE e == Ack(j, 0, "ready")
    <3>1. out' = Superseded.out \o <<e>> /\ ~PutRejected(j, p, n, c)
      BY <2>3 DEF PutBegun, PutRejected
    <3> HIDE DEF e
    <3>2. IsQueue(Superseded.out \o <<e>>) /\ \A m \in Sent(Superseded.out \o <<e>>) :
            m = e \/ (m = Result(incoming.job, "put_mqtt", "failed") /\ incoming.active)
      BY <1>3, SupersededSteps
    <3>3. QED
      BY <2>3, <3>1, <3>2 DEF e
  <2>4. QED
    BY <1>2, <2>1, <2>2, <2>3
<1>5. /\ j \in Upload /\ JobInv(j) /\ ~OwnTransfer(j) /\ outcome[j] # "ok"
      /\ At(j, "wait_ready") \/ At(j, "timeout") \/ At(j, "dropped")
      /\ thread[j].next = 0
      /\ \A m \in Heard : m.topic = "fs/ack" => m.job # j
      /\ PutMsg(j) \notin Sent(down') /\ ChunkMsg(j, thread[j].next) \notin Sent(down')
  BY <1>1, <1>4, PutTaken, Messages
<1>6. j \in Job /\ p \in Path /\ n \in Nat /\ c \in Nat
  BY <1>5, Images
<1> HIDE DEF j, n, c
<1>7. fs \in [Path -> File \cup {NoFile}] /\ incoming.path \in Path
  BY <1>3 DEF IInv, TypeOK, Transfer
<1>8. IInv'
  BY <1>2, <1>3, <1>6, UnchangedStep, DroppingSteps, PutBegunStep DEF PutRejected
<1>9. FilesIntact'
  <2>1. ASSUME NEW q \in Path
        PROVE  \/ incoming'.active /\ incoming'.path = q
               \/ ~(incoming.active /\ incoming.path = q) /\ fs'[q] = fs[q]
               \/ fs'[q] = NoFile
    <3>1. CASE PutRejected(j, p, n, c)
      BY <3>1 DEF PutRejected
    <3>2. CASE PutOpenFails(j, p, n, c)
      BY <1>3, <3>2, SupersededSteps DEF PutOpenFails
    <3>3. CASE PutBegun(j, p, n, c)
      <4>1. incoming'.active /\ incoming'.path = p
            /\ (q # p => fs'[q] = Superseded.fs[q])
        BY <1>3, <1>6, <3>3, SupersededType DEF PutBegun
      <4>2. QED
        BY <1>3, <4>1, SupersededSteps
    <3>4. QED
      BY <1>2, <3>1, <3>2, <3>3
  <2>2. FilesIntact /\ cut' = cut
    BY DEF UploadInv, Handling
  <2> HIDE DEF p
  <2>3. QED
    BY <2>1, <2>2, IntactStep
<1>10. incoming'.active => incoming'.job \in Upload
  BY <1>2, <1>3, <1>5
     DEF PutRejected, PutOpenFails, PutBegun, UploadInv, Uploads, IInv, TypeOK, Transfer
<1>11. ASSUME NEW k \in Upload \ {j}
       PROVE  JobInv(k)'
  <2>1. \A m \in Sent(out') : m.topic = "fs/ack" => m.job # k
    BY <1>4, Answers
  <2>2. OwnTransfer(k)' => PutRejected(j, p, n, c) /\ OwnTransfer(k) /\ UNCHANGED <<fs, incoming>>
    BY <1>2, <1>3 DEF OwnTransfer, PutRejected, PutOpenFails, PutBegun, IInv, TypeOK, Transfer
  <2>3. outcome'[k] = outcome[k] \/ (OwnTransfer(k) /\ outcome'[k] = "failed")
    <3>1. \A m \in Sent(out') : m.topic = "fs/result" /\ m.job = k
            => OwnTransfer(k) /\ m = Result(k, "put_mqtt", "failed") /\ ~PutRejected(j, p, n, c)
      BY <1>4, Answers DEF OwnTransfer
    <3>2. CASE \E m \in Sent(out') : m.topic = "fs/result" /\ m.job = k
      <4>1. OwnTransfer(k) /\ Result(k, "put_mqtt", "failed") \in Sent(out')
        BY <3>1, <3>2
      <4>2. QED
        BY <4>1, Outcomes
    <3>3. CASE ~\E m \in Sent(out') : m.topic = "fs/result" /\ m.job = k
      <4>1. Result(k, "put_mqtt", "failed") \notin Sent(out')
            /\ Result(k, "put_mqtt", "rejected") \notin Sent(out')
        BY <3>3, Answers
      <4>2. QED
        BY <3>3, <4>1, Outcomes
    <3>4. QED
      BY <3>2, <3>3
  <2>4. PutRejected(j, p, n, c) => outcome'[k] = outcome[k]
    <3>1. ASSUME PutRejected(j, p, n, c)
          PROVE  \A m \in Sent(out') : ~(m.topic = "fs/result" /\ m.job = k)
      BY <1>4, <3>1, Answers DEF PutRejected, PutBegun, PutOpenFails
    <3>2. ASSUME PutRejected(j, p, n, c)
          PROVE  Result(k, "put_mqtt", "failed") \notin Sent(out')
                 /\ Result(k, "put_mqtt", "rejected") \notin Sent(out')
      BY <3>1, <3>2, Answers
    <3>3. QED
      BY <3>1, <3>2, Outcomes
  <2>5. fs'[Target[k]] = fs[Target[k]] \/ ~Unrivalled(k)
          \/ (incoming.active /\ incoming.path = Target[k])
    <3>1. Unrivalled(k) => Target[k] # p
      BY <1>5 DEF Unrivalled, At
    <3>2. Target[k] \in Path
      BY Images
    <3> HIDE DEF p
    <3>3. QED
      BY <1>2, <1>3, <1>6, <3>1, <3>2, PutElsewhere
  <2> HIDE DEF p
  <2>6. QED
    BY <1>4, <2>1, <2>2, <2>3, <2>4, <2>5, OtherJobs
<1>12. JobInv(j)'
  <2>1. outcome'[j] # "ok"
    <3>1. \A m \in Sent(out') : m.topic = "fs/result" /\ m.job = j
            => m = Result(j, "put_mqtt", "failed") \/ m = Result(j, "put_mqtt", "rejected")
      BY <1>4, Answers
    <3>2. QED
      BY <1>4, <1>5, <3>1, Outcomes
  <2>2. \A m \in Heard' : m.topic = "fs/ack" /\ m.job = j => m.status = "ready"
    BY <1>4, <1>5, HandledQueues, Answers
  <2>3. OwnTransfer(j)' => PutBegun(j, p, n, c)
    BY <1>2, <1>3, <1>5 DEF OwnTransfer, PutRejected, PutOpenFails, IInv, TypeOK, Transfer
  <2>4. PutBegun(j, p, n, c) =>
          /\ incoming'.path = p /\ incoming'.expectedSize = n /\ incoming'.expectedCrc = c
          /\ incoming'.received = <<>> /\ incoming'.nextSeq = 0 /\ fs'[p] = <<>>
    BY <1>3, <1>6, SupersededType DEF PutBegun
  <2>5. Prefix(j, 0) = <<>>
    BY <1>5, Sizes, Images DEF Prefix, File
  <2>6. UNCHANGED <<thread, removed, cut>>
    BY DEF Handling, hostVars
  <2>7. Owned(j)'
    BY <1>5, <2>1, <2>3, <2>4, <2>5, <2>6 DEF Owned, At, n, c
  <2>8. Heeds(j)'
    BY <1>5, <2>6 DEF JobInv, Heeds, At
  <2>9. PutPending(j)' /\ ChunkPending(j)'
    BY <1>5, <2>6 DEF PutPending, ChunkPending
  <2>10. Acknowledged(j)' /\ Verdict(j)'
    BY <2>1, <2>2 DEF Acknowledged, Verdict
  <2>11. QED
    BY <1>5, <2>6, <2>7, <2>8, <2>9, <2>10 DEF JobInv, At
<1>13. \A m \in Sent(out') : m.topic = "fs/ack" =>
         m.job \in Upload /\ (m.status = "ok" => m = Ack(m.job, m.seq, "ok") /\ m.seq \in Nat)
  BY <1>4, <1>5, Answers
<1>14. QED
  BY <1>4, <1>8, <1>9, <1>10, <1>11, <1>12, <1>13, HandledInv

-----------------------------------------------------------------------------
(* The device handles a chunk. *)

\* What is known of the job whose chunk is the first in the queue.
LEMMA ChunkFirst ==
  ASSUME UploadInv, down # <<>>, Head(down).kind = "chunk"
  PROVE  \E j \in Upload :
           /\ Head(down) = ChunkMsg(j, thread[j].next) /\ Head(down) \in Sent(down)
           /\ JobInv(j) /\ thread[j].next \in Nat /\ thread[j].next < Chunks(j)
           /\ At(j, "wait_ok") \/ At(j, "timeout") \/ At(j, "dropped")
           /\ Ack(j, thread[j].next, "ok") \notin Heard /\ PutMsg(j) \notin Sent(down)
           /\ OwnTransfer(j) => incoming.nextSeq = thread[j].next
<1>1. IsQueue(down)
  BY DEF UploadInv, Types
<1>2. Head(down) \in Sent(down)
  BY <1>1, TailQueue
<1>3. PICK j \in Upload : Head(down) = ChunkMsg(j, thread[j].next)
  BY <1>2, Messages DEF UploadInv, Arriving
<1>4. JobInv(j) /\ ChunkPending(j) /\ PutPending(j) /\ Heeds(j) /\ thread[j].next \in Nat
  BY DEF UploadInv, JobInv, Types
<1>5. QED
  BY <1>2, <1>3, <1>4 DEF ChunkPending, PutPending, Heeds, At

\* A chunk of the device's transfer is acceptable, and takes it one chunk further.
LEMMA ChunkFits ==
  ASSUME UploadInv, NEW j \in Upload, NEW n \in Nat, n < Chunks(j),
         OwnTransfer(j), incoming.nextSeq = n
  PROVE  /\ ChunkAcceptable(j, n, ChunkMsg(j, n).data)
         /\ incoming.received \o ChunkMsg(j, n).data = Prefix(j, n + 1)
         /\ Len(Prefix(j, n + 1)) < Len(Image[j]) <=> n + 1 < Chunks(j)
         /\ n + 1 < Chunks(j) \/ Prefix(j, n + 1) = Image[j]
<1> DEFINE d == ChunkAt(Image[j], HostChunk, n)
<1>1. incoming.received = Prefix(j, n) /\ incoming.expectedSize = Len(Image[j])
  BY DEF UploadInv, JobInv, Owned
<1>2. d \in File /\ Len(d) \in 1..HostChunk /\ Prefix(j, n) \o d = Prefix(j, n + 1)
      /\ Prefix(j, n) \in File
      /\ Len(Prefix(j, n + 1)) = (IF n + 1 < Chunks(j) THEN (n + 1) * HostChunk ELSE Len(Image[j]))
      /\ (n + 1 = Chunks(j) => Prefix(j, n + 1) = Image[j])
  BY PrefixNext
<1>3. ChunkMsg(j, n).data = d
  BY Messages
<1> HIDE DEF d
<1>4. Chunks(j) \in Nat /\ Len(Image[j]) \in Nat /\ Len(d) \in Nat /\ Len(Prefix(j, n)) \in Nat
  BY <1>2, ChunkNumbers, Images DEF File
<1>5. n + 1 < Chunks(j) => (n + 1) * HostChunk < Len(Image[j])
  BY ChunkNumbers
<1>6. Len(Prefix(j, n + 1)) <= Len(Image[j])
      /\ (Len(Prefix(j, n + 1)) < Len(Image[j]) <=> n + 1 < Chunks(j))
  <2> DEFINE b == (n + 1) * HostChunk
  <2>1. b \in Nat
    BY Sizes
  <2>2. (n + 1 < Chunks(j) => b < Len(Image[j]))
        /\ Len(Prefix(j, n + 1)) = (IF n + 1 < Chunks(j) THEN b ELSE Len(Image[j]))
    BY <1>2, <1>5
  <2> HIDE DEF b
  <2>3. QED
    BY <1>4, <2>1, <2>2
<1>7. Len(Prefix(j, n)) + Len(d) = Len(Prefix(j, n + 1))
  BY <1>2 DEF File
<1>8. Decodes(d)
  <2>1. d # Undecodable
    BY <1>2, NoFileAssumption DEF File
  <2>2. Len(d) <= MaxChunk
    BY <1>2, Sizes
  <2>3. QED
    BY <2>1, <2>2 DEF Decodes
<1>9. Fits(d)
  BY <1>1, <1>2, <1>4, <1>6, <1>7 DEF Fits
<1>10. n + 1 < Chunks(j) \/ n + 1 = Chunks(j)
  BY <1>4
<1>11. QED
  BY <1>1, <1>2, <1>3, <1>6, <1>8, <1>9, <1>10 DEF ChunkAcceptable, InSequence

LEMMA ChunkStep ==
  ASSUME UploadInv, Handling, Head(down).kind = "chunk", HandleChunk(Head(down))
  PROVE  UploadInv'
<1>1. down # <<>> /\ UNCHANGED <<thread, removed, cut>>
  BY DEF Handling, hostVars
<1>2. PICK j \in Upload :
        /\ Head(down) = ChunkMsg(j, thread[j].next)
        /\ JobInv(j) /\ thread[j].next \in Nat /\ thread[j].next < Chunks(j)
        /\ At(j, "wait_ok") \/ At(j, "timeout") \/ At(j, "dropped")
        /\ Ack(j, thread[j].next, "ok") \notin Heard /\ PutMsg(j) \notin Sent(down)
        /\ OwnTransfer(j) => incoming.nextSeq = thread[j].next
  BY <1>1, ChunkFirst
<1> DEFINE n == thread[j].next
           d == ChunkMsg(j, n).data
           f == Prefix(j, n + 1)
<1>3. \/ ChunkWithoutTransfer(j, n, d) \/ ChunkRefused(j, n, d) \/ ChunkWriteFails(j, n, d)
      \/ ChunkWritten(j, n, d) \/ LastChunkWritten(j, n, d)
  BY <1>2, Messages DEF HandleChunk
<1>4. n \in Nat /\ n < Chunks(j) /\ d \in File /\ d \in Chunk
  BY <1>2, PrefixNext, Messages DEF Chunk
<1>5. OwnTransfer(j) =>
        /\ ChunkAcceptable(j, n, d) /\ incoming.received \o d = f
        /\ (Len(f) < Len(Image[j]) <=> n + 1 < Chunks(j))
        /\ (n + 1 < Chunks(j) \/ f = Image[j])
  BY <1>2, ChunkFits
<1> HIDE DEF n, d, f
<1>6. IInv /\ j \in Job
  BY Images DEF UploadInv
<1>7. ~ChunkRefused(j, n, d)
  BY <1>5 DEF ChunkRefused, ChunkAcceptable
<1>8. OwnTransfer(j) =>
        /\ incoming.active /\ incoming.job = j /\ incoming.path = Target[j]
        /\ incoming.expectedSize = Len(Image[j]) /\ incoming.expectedCrc = Crc(Image[j])
        /\ outcome[j] # "ok" /\ (Unrivalled(j) => fs[Target[j]] = incoming.received)
        /\ Target[j] \in Path /\ incoming.received \in File /\ fs[Target[j]] \in File \cup {NoFile}
  BY <1>2, <1>6, Images DEF JobInv, Owned, OwnTransfer, IInv, TypeOK, Transfer
<1> DEFINE
      Silent == ~OwnTransfer(j) /\ UNCHANGED <<fs, incoming>> /\ out' = <<Ack(j, n, "rejected")>>
      Broken == /\ OwnTransfer(j) /\ ~incoming'.active
                /\ out' = <<Result(j, "put_mqtt", "failed"), Ack(j, n, "failed")>>
                /\ fs' = [fs EXCEPT ![incoming.path] = NoFile]
      Further == /\ OwnTransfer(j) /\ out' = <<Ack(j, n, "ok")>> /\ fs' = Written(d)
                 /\ incoming' = Extended(d) /\ n + 1 < Chunks(j)
      Complete == /\ OwnTransfer(j) /\ ~incoming'.active /\ fs' = Written(d) /\ f = Image[j]
                  /\ out' = <<Ack(j, n, "ok"), ImageResult(j, "put_mqtt", f)>>
<1>9. OwnTransfer(j) =>
        /\ Extended(d).active /\ Extended(d).job = j /\ Extended(d).path = Target[j]
        /\ Extended(d).expectedSize = Len(Image[j]) /\ Extended(d).expectedCrc = Crc(Image[j])
        /\ Extended(d).received = f /\ Extended(d).nextSeq = n + 1
        /\ Written(d) \in [Path -> File \cup {NoFile}]
        /\ Written(d)[Target[j]] \in {NoFile, f}
        /\ (Unrivalled(j) => Written(d)[Target[j]] = f)
  <2> SUFFICES ASSUME OwnTransfer(j)
               PROVE  /\ Extended(d).active /\ Extended(d).job = j /\ Extended(d).path = Target[j]
                      /\ Extended(d).expectedSize = Len(Image[j])
                      /\ Extended(d).expectedCrc = Crc(Image[j])
                      /\ Extended(d).received = f /\ Extended(d).nextSeq = n + 1
                      /\ Written(d) \in [Path -> File \cup {NoFile}]
                      /\ Written(d)[Target[j]] \in {NoFile, f}
                      /\ (Unrivalled(j) => Written(d)[Target[j]] = f)
    OBVIOUS
  <2>1. ChunkAcceptable(j, n, d) /\ incoming.received \o d = f
    BY <1>5
  <2>2. Extended(d).job = incoming.job /\ Extended(d).nextSeq = incoming.nextSeq + 1
    BY <1>6 DEF Extended, IInv, TypeOK, Transfer
  <2>3. incoming.nextSeq = n
    BY <1>2 DEF n
  <2>4. Unrivalled(j) => Written(d)[Target[j]] = f
    <3>1. ASSUME Unrivalled(j)
          PROVE  Written(d) = [fs EXCEPT ![Target[j]] = f]
      <4>1. fs[Target[j]] = incoming.received /\ fs[Target[j]] # NoFile
        BY <1>8, <3>1, NoFileAssumption DEF File
      <4>2. QED
        BY <1>8, <2>1, <4>1 DEF Written
    <3>2. fs \in [Path -> File \cup {NoFile}]
      BY <1>6 DEF IInv, TypeOK
    <3>3. QED
      BY <1>8, <3>1, <3>2
  <2>5. QED
    BY <1>4, <1>6, <1>8, <2>1, <2>2, <2>3, <2>4, ExtendedTransfer
<1>10. Silent \/ Broken \/ Further \/ Complete
  <2>1. CASE ChunkWithoutTransfer(j, n, d)
    BY <2>1 DEF ChunkWithoutTransfer
  <2>2. CASE ChunkWriteFails(j, n, d)
    <3>1. OwnTransfer(j) /\ Refuse(j, n, "failed")
      BY <2>2 DEF ChunkWriteFails, ChunkAcceptable
    <3>2. ~incoming'.active
      BY <1>6, <3>1 DEF Refuse, IInv, TypeOK, Transfer
    <3>3. FinishResult(incoming, FALSE) = Result(j, "put_mqtt", "failed")
      BY <1>8, <3>1 DEF FinishResult
    <3>4. QED
      BY <1>6, <3>1, <3>2, <3>3, SupersededType DEF Refuse
  <2>3. CASE ChunkWritten(j, n, d)
    BY <1>5, <1>8, <1>9, <2>3 DEF ChunkWritten, ChunkAcceptable
  <2>4. CASE LastChunkWritten(j, n, d)
    <3>1. OwnTransfer(j)
      BY <2>4 DEF LastChunkWritten, ChunkAcceptable
    <3>2. Len(f) >= Len(Image[j])
      BY <1>8, <1>9, <2>4, <3>1 DEF LastChunkWritten
    <3>3. f = Image[j]
      <4>1. Len(f) \in Nat /\ Len(Image[j]) \in Nat
        BY <1>5, <1>8, <3>1, <1>4, Images DEF File
      <4>2. QED
        BY <1>5, <3>1, <3>2, <4>1
    <3>4. Verified(Extended(d))
      BY <1>9, <3>1, <3>3 DEF Verified
    <3>5. fs' = Written(d) /\ FinishResult(Extended(d), TRUE) = ImageResult(j, "put_mqtt", f)
      BY <1>9, <2>4, <3>1, <3>4 DEF LastChunkWritten, FinishResult
    <3>6. ~incoming'.active
      <4>1. Extended(d) \in Transfer
        BY <1>4, <1>5, <1>6, <3>1, ExtendedTransfer
      <4>2. incoming' = [Extended(d) EXCEPT !.active = FALSE]
        BY <2>4 DEF LastChunkWritten
      <4> HIDE DEF Silent, Broken, Further, Complete
      <4>3. QED
        BY <4>1, <4>2 DEF Transfer
    <3>7. QED
      BY <2>4, <3>1, <3>3, <3>5, <3>6 DEF LastChunkWritten
  <2>5. QED
    BY <1>3, <1>7, <2>1, <2>2, <2>3, <2>4
<1>11. /\ IsQueue(out')
       /\ \A m \in Sent(out') :
            \/ m = Ack(j, n, "rejected") /\ Silent
            \/ m = Result(j, "put_mqtt", "failed") /\ Broken
            \/ m = Ack(j, n, "failed") /\ Broken
            \/ m = Ack(j, n, "ok") /\ (Further \/ Complete)
            \/ m = ImageResult(j, "put_mqtt", f) /\ Complete
       /\ Broken => Result(j, "put_mqtt", "failed") \in Sent(out')
       /\ Complete => ImageResult(j, "put_mqtt", f) \in Sent(out')
  <2>1. CASE Silent
    BY <2>1, FewSent
  <2>2. CASE Broken
    BY <2>2, FewSent
  <2>3. CASE Further
    BY <2>3, FewSent
  <2>4. CASE Complete
    BY <2>4, FewSent
  <2>5. QED
    BY <1>10, <2>1, <2>2, <2>3, <2>4
<1>12. ChunkMsg(j, n) \notin Sent(down') /\ PutMsg(j) \notin Sent(down')
       /\ \A m \in Heard' : m \in Heard \/ m \in Sent(out')
  BY <1>2, <1>11, HandledQueues DEF n
<1>13. IInv'
  BY <1>3, <1>4, <1>6, <1>7, UnchangedStep, DroppingSteps, ChunkWrittenStep, LastChunkWrittenStep
     DEF ChunkWithoutTransfer, ChunkWriteFails
<1>14. Elsewhere
  BY <1>3, <1>4, <1>6, ChunkElsewhere
<1>15. FilesIntact'
  <2>1. ASSUME NEW q \in Path
        PROVE  \/ incoming'.active /\ incoming'.path = q
               \/ ~(incoming.active /\ incoming.path = q) /\ fs'[q] = fs[q]
               \/ fs'[q] = NoFile
               \/ \E k \in Upload : Target[k] = q /\ fs'[q] = Image[k]
    <3>1. CASE ~(incoming.active /\ incoming.path = q)
      BY <1>14, <3>1 DEF Elsewhere
    <3>2. CASE incoming.active /\ incoming.path = q
      <4>1. CASE Silent
        BY <3>2, <4>1
      <4>2. CASE Broken
        BY <1>6, <3>2, <4>2 DEF IInv, TypeOK
      <4>3. CASE Further
        BY <1>8, <1>9, <3>2, <4>3
      <4>4. CASE Complete
        BY <1>8, <1>9, <3>2, <4>4
      <4>5. QED
        BY <1>10, <4>1, <4>2, <4>3, <4>4
    <3>3. QED
      BY <3>1, <3>2
  <2>2. FilesIntact /\ cut' = cut
    BY <1>1 DEF UploadInv
  <2>3. QED
    BY <2>1, <2>2, IntactStep
<1>16. incoming'.active => incoming'.job \in Upload
  BY <1>9, <1>10 DEF UploadInv, Uploads
<1>17. ASSUME NEW k \in Upload \ {j}
       PROVE  JobInv(k)'
  <2>1. \A m \in Sent(out') : m.job # k
    BY <1>11, Answers
  <2>2. outcome'[k] = outcome[k]
    <3>1. Result(k, "put_mqtt", "failed") \notin Sent(out')
          /\ Result(k, "put_mqtt", "rejected") \notin Sent(out')
      BY <2>1, Answers
    <3>2. QED
      BY <2>1, <3>1, Outcomes
  <2>3. OwnTransfer(k)' => OwnTransfer(k) /\ UNCHANGED <<fs, incoming>>
    <3>1. CASE Silent
      BY <3>1 DEF OwnTransfer
    <3>2. CASE ~Silent
      BY <1>9, <1>10, <3>2 DEF OwnTransfer
    <3>3. QED
      BY <3>1, <3>2
  <2>4. fs'[Target[k]] = fs[Target[k]] \/ (incoming.active /\ incoming.path = Target[k])
    BY <1>14, Images DEF Elsewhere
  <2> HIDE DEF Silent, Broken, Further, Complete
  <2>5. QED
    BY <1>11, <2>1, <2>2, <2>3, <2>4, OtherJobs
<1>18. /\ Silent \/ Further => outcome'[j] = outcome[j]
       /\ Broken => outcome'[j] = "failed"
       /\ Complete => outcome'[j] = "ok"
  <2>1. CASE Silent \/ Further
    <3>1. Sent(out') = {Ack(j, n, "rejected")} \/ Sent(out') = {Ack(j, n, "ok")}
      BY <2>1, FewSent
    <3>2. \A m \in Sent(out') : m.topic # "fs/result"
      BY <3>1, Answers
    <3>3. ~Broken /\ ~Complete
      BY <1>11, <3>2, Answers
    <3>4. outcome'[j] = outcome[j]
      BY <3>2, Outcomes, Answers
    <3> HIDE DEF Silent, Broken, Further, Complete
    <3>5. QED
      BY <3>3, <3>4
  <2>2. CASE Broken
    <3>1. Sent(out') = {Result(j, "put_mqtt", "failed"), Ack(j, n, "failed")}
      BY <2>2, FewSent
    <3>2. ~Silent /\ ~Further /\ ~Complete
      <4>1. Ack(j, n, "ok") \notin Sent(out') /\ Ack(j, n, "rejected") \notin Sent(out')
        BY <3>1, Answers
      <4>2. (Silent => Ack(j, n, "rejected") \in Sent(out')) /\ (Further => Ack(j, n, "ok") \in Sent(out'))
            /\ (Complete => Ack(j, n, "ok") \in Sent(out'))
        BY FewSent
      <4> HIDE DEF Silent, Broken, Further, Complete
      <4>3. QED
        BY <4>1, <4>2
    <3>3. outcome'[j] = "failed"
      BY <1>11, <2>2, Outcomes
    <3> HIDE DEF Silent, Broken, Further, Complete
    <3>4. QED
      BY <3>2, <3>3
  <2>3. CASE Complete
    <3>1. Sent(out') = {Ack(j, n, "ok"), ImageResult(j, "put_mqtt", f)}
      BY <2>3, FewSent
    <3>2. ~Silent /\ ~Further /\ ~Broken
      <4>1. Result(j, "put_mqtt", "failed") \notin Sent(out')
            /\ Ack(j, n, "rejected") \notin Sent(out')
        BY <3>1, Answers
      <4>2. Silent => Ack(j, n, "rejected") \in Sent(out')
        BY FewSent
      <4>3. Further => Sent(out') = {Ack(j, n, "ok")}
        BY FewSent
      <4>4. ImageResult(j, "put_mqtt", f) # Ack(j, n, "ok")
        BY Answers
      <4> HIDE DEF Silent, Broken, Further, Complete
      <4>5. QED
        BY <1>11, <3>1, <4>1, <4>2, <4>3, <4>4
    <3>3. outcome'[j] = "ok"
      <4>1. Result(j, "put_mqtt", "failed") \notin Sent(out')
            /\ Result(j, "put_mqtt", "rejected") \notin Sent(out')
        BY <3>1, Answers
      <4>2. \E m \in Sent(out') : m.topic = "fs/result" /\ m.job = j /\ m.op = "put_mqtt"
        BY <3>1, Answers
      <4>3. QED
        BY <4>1, <4>2, Outcomes
    <3> HIDE DEF Silent, Broken, Further, Complete
    <3>4. QED
      BY <3>2, <3>3
  <2>4. QED
    BY <1>10, <2>1, <2>2, <2>3
<1>19. JobInv(j)'
  <2>1. Heeds(j)' /\ PutPending(j)' /\ ChunkPending(j)'
    BY <1>1, <1>2, <1>12 DEF JobInv, Heeds, PutPending, ChunkPending, At, n
  <2>2. OwnTransfer(j)' => Further
    BY <1>10 DEF OwnTransfer
  <2>3. Owned(j)'
    <3>1. Further => /\ incoming'.path = Target[j] /\ incoming'.expectedSize = Len(Image[j])
                     /\ incoming'.expectedCrc = Crc(Image[j]) /\ incoming'.nextSeq = n + 1
                     /\ incoming'.received = Prefix(j, n + 1) /\ outcome'[j] # "ok"
                     /\ (Unrivalled(j) => fs'[Target[j]] = incoming'.received)
      BY <1>8, <1>9, <1>18 DEF f
    <3>2. Unrivalled(j)' <=> Unrivalled(j)
      BY <1>1 DEF Unrivalled, At
    <3> HIDE DEF Silent, Broken, Further, Complete
    <3>3. QED
      BY <1>1, <1>2, <2>2, <3>1, <3>2 DEF Owned, At, n
  <2>4. Verdict(j)'
    <3>1. CASE Silent
      BY <1>1, <1>2, <1>18, <3>1 DEF JobInv, Verdict, Unrivalled, At
    <3>2. CASE Broken \/ Further
      BY <1>8, <1>18, <3>2 DEF Verdict
    <3>3. CASE Complete
      BY <1>1, <1>2, <1>9, <3>3 DEF Verdict, Unrivalled, At
    <3>4. QED
      BY <1>10, <3>1, <3>2, <3>3
  <2>5. ASSUME NEW m \in Heard', m.topic = "fs/ack", m.job = j, m.status = "ok"
        PROVE  /\ m.seq <= n
               /\ m.seq = n /\ OwnTransfer(j)' => incoming'.nextSeq = n + 1
               /\ m.seq + 1 = Chunks(j) => outcome'[j] = "ok" \/ Target[j] \in cut'
    <3>1. CASE m \in Heard
      <4>1. m.seq <= n /\ m = Ack(j, m.seq, "ok") /\ m.seq \in Nat
        BY <1>2, <2>5, <3>1 DEF JobInv, Acknowledged, UploadInv, Uploads, n
      <4>2. m.seq # n
        BY <1>2, <3>1, <4>1 DEF n
      <4>3. m.seq + 1 # Chunks(j)
        BY <1>4, <4>1, <4>2, ChunkNumbers
      <4>4. QED
        BY <4>1, <4>2, <4>3
    <3>2. CASE m \notin Heard
      <4>1. m = Ack(j, n, "ok") /\ (Further \/ Complete)
        BY <1>11, <1>12, <2>5, <3>2, Answers
      <4>2. m.seq = n
        BY <4>1, Answers
      <4>3. OwnTransfer(j)' => incoming'.nextSeq = n + 1
        BY <1>9, <2>2
      <4>4. n + 1 = Chunks(j) => outcome'[j] = "ok"
        <5>1. Further => n + 1 < Chunks(j)
          OBVIOUS
        <5> HIDE DEF Silent, Broken, Further, Complete
        <5>2. QED
          BY <1>4, <1>18, <4>1, <5>1, ChunkNumbers
      <4>5. QED
        BY <1>4, <4>2, <4>3, <4>4
    <3>3. QED
      BY <3>1, <3>2
  <2>6. Acknowledged(j)'
    BY <1>1, <1>2, <2>5 DEF Acknowledged, At, n
  <2>7. QED
    BY <1>1, <1>2, <2>1, <2>3, <2>4, <2>6 DEF JobInv, At
<1>20. \A m \in Sent(out') : m.topic = "fs/ack" =>
         m.job \in Upload /\ (m.status = "ok" => m = Ack(m.job, m.seq, "ok") /\ m.seq \in Nat)
  BY <1>4, <1>11, Answers
<1>21. QED
  BY <1>11, <1>13, <1>15, <1>16, <1>17, <1>19, <1>20, HandledInv

-----------------------------------------------------------------------------
(* The device deletes a file, or loses power. *)

LEMMA DeleteStep ==
  ASSUME UploadInv, Handling, Head(down).kind = "delete", HandleDelete(Head(down))
  PROVE  UploadInv'
<1>1. PICK st, r, p : /\ HandleDelete(Head(down)) /\ r = Head(down).job /\ p = Target[r]
                      /\ out' = <<Result(r, "delete", st)>>
                      /\ DeleteFails(r, p) \/ Deleted(r, p)
  BY DEF HandleDelete, DeleteFails, Deleted
<1>2. IsQueue(out') /\ \A m \in Sent(out') : m.topic = "fs/result" /\ m.op = "delete"
  BY <1>1, FewSent, Answers
<1>3. r \in removed /\ r \in Removal
  <2>1. Head(down) \in Sent(down)
    BY <1>2, HandledQueues
  <2>2. Head(down) \in {DeleteMsg(k) : k \in removed}
    BY <2>1, Messages DEF UploadInv, Arriving
  <2>3. QED
    BY <1>1, <2>2, Messages DEF UploadInv, Types
<1>4. r \in Job /\ p \in Path
  BY <1>1, <1>3, JobAssumption, TargetAssumption
<1>5. IInv /\ fs \in [Path -> File \cup {NoFile}] /\ UNCHANGED <<incoming, cut>>
  BY <1>1 DEF UploadInv, IInv, TypeOK, DeleteFails, Deleted, Handling
<1>6. IInv'
  BY <1>1, <1>4, <1>5, UnchangedStep, DeletedStep DEF DeleteFails
<1>7. \A q \in Path : fs'[q] = fs[q] \/ (q = p /\ fs'[q] = NoFile)
  BY <1>1, <1>5 DEF DeleteFails, Deleted
<1>8. FilesIntact'
  BY <1>5, <1>7 DEF UploadInv, FilesIntact, Whole
<1>9. ASSUME NEW k \in Upload
      PROVE  JobInv(k)'
  <2>1. outcome'[k] = outcome[k]
    <3>1. Result(k, "put_mqtt", "failed") \notin Sent(out')
          /\ Result(k, "put_mqtt", "rejected") \notin Sent(out')
      BY <1>2, Answers
    <3>2. QED
      BY <1>2, <3>1, Outcomes
  <2>2. JobInv(k) /\ Target[k] \in Path /\ UNCHANGED <<thread, removed, cut>>
    BY Images DEF UploadInv, Handling, hostVars
  <2>3. Unrivalled(k) => fs'[Target[k]] = fs[Target[k]]
    BY <1>1, <1>3, <1>7, <2>2 DEF Unrivalled
  <2>4. (OwnTransfer(k)' <=> OwnTransfer(k)) /\ (Unrivalled(k)' <=> Unrivalled(k))
    BY <1>5, <2>2 DEF OwnTransfer, Unrivalled, At
  <2>5. \A m \in Heard' : m.topic = "fs/ack" => m \in Heard
    BY <1>2, HandledQueues
  <2>6. \A m \in Sent(down') : m \in Sent(down)
    BY <1>2, HandledQueues
  <2>7. QED
    BY <1>5, <2>1, <2>2, <2>3, <2>4, <2>5, <2>6, OtherJob
<1>10. incoming'.active => incoming'.job \in Upload
  BY <1>5 DEF UploadInv, Uploads
<1>11. QED
  BY <1>2, <1>6, <1>8, <1>9, <1>10, HandledInv

LEMMA LosePowerStep ==
  ASSUME UploadInv, LosePower
  PROVE  UploadInv'
<1>1. /\ down' = <<>> /\ up' = up \o out' /\ incoming' = NoTransfer
      /\ cut' = IF incoming.active THEN cut \cup {incoming.path} ELSE cut
      /\ UNCHANGED <<env, thread, acks, removed, outcome>>
  BY DEF LosePower, PowerLoss, PowerLossAfterAck, hostVars
<1>2. IInv /\ IsQueue(up) /\ fs \in [Path -> File \cup {NoFile}]
  BY DEF UploadInv, Types, IInv, TypeOK
<1>3. IInv' /\ (\A q \in Path : ~(incoming.active /\ q = incoming.path) => fs'[q] = fs[q])
      /\ IsQueue(out')
      /\ \A m \in Sent(out') : \E j \in Upload :
           /\ m = Ack(j, thread[j].next, "ok") /\ thread[j].next \in Nat
           /\ At(j, "wait_ok") \/ At(j, "timeout") \/ At(j, "dropped")
           /\ incoming.active /\ incoming.path = Target[j]
  <2>1. CASE PowerLoss
    <3>1. \A q \in Path : ~(incoming.active /\ q = incoming.path) => fs'[q] = fs[q]
      BY <1>2, <2>1 DEF PowerLoss
    <3>2. IsQueue(out') /\ Sent(out') = {}
      BY <2>1, FewSent DEF PowerLoss
    <3>3. QED
      BY <1>2, <2>1, <3>1, <3>2, PowerLossStep
  <2>2. CASE down # <<>> /\ Head(down).kind = "chunk"
             /\ PowerLossAfterAck(Head(down).job, Head(down).seq, Head(down).data)
    <3>1. PICK j \in Upload :
            /\ Head(down) = ChunkMsg(j, thread[j].next) /\ JobInv(j)
            /\ thread[j].next \in Nat /\ thread[j].next < Chunks(j)
            /\ At(j, "wait_ok") \/ At(j, "timeout") \/ At(j, "dropped")
      BY <2>2, ChunkFirst
    <3> DEFINE n == thread[j].next
               d == ChunkMsg(j, n).data
    <3>2. PowerLossAfterAck(j, n, d)
      BY <2>2, <3>1, Messages
    <3>3. n \in Nat /\ d \in Chunk /\ j \in Job
      BY <3>1, PrefixNext, Messages, Images DEF Chunk
    <3> HIDE DEF n, d
    <3>4. IInv' /\ Elsewhere
      BY <1>2, <3>2, <3>3, PowerLossAfterAckStep, ChunkElsewhere
    <3>5. OwnTransfer(j) /\ out' = <<Ack(j, n, "ok")>>
      BY <3>2 DEF PowerLossAfterAck, ChunkAcceptable
    <3>6. incoming.active /\ incoming.path = Target[j]
      BY <3>1, <3>5 DEF JobInv, Owned, OwnTransfer
    <3>7. IsQueue(out') /\ Sent(out') = {Ack(j, n, "ok")}
      BY <3>5, FewSent
    <3>8. QED
      BY <3>1, <3>3, <3>4, <3>6, <3>7 DEF Elsewhere, n
  <2>3. QED
    BY <2>1, <2>2 DEF LosePower
<1>4. IsQueue(up') /\ IsQueue(down') /\ Once(down') /\ Sent(down') = {}
      /\ \A m \in Heard' : m \in Heard \/ m \in Sent(out')
  <2>1. IsQueue(up') /\ \A m \in Sent(up') : m \in Sent(up) \/ m \in Sent(out')
    BY <1>1, <1>2, <1>3, ConcatQueue
  <2>2. QED
    BY <1>1, <2>1, FewSent DEF Heard
<1>5. Types' /\ Arriving'
  BY <1>1, <1>4 DEF UploadInv, Types, Arriving
<1>6. ~incoming'.active
  BY <1>1 DEF NoTransfer
<1>7. Uploads'
  BY <1>1, <1>3, <1>4, <1>6, Answers DEF UploadInv, Uploads
<1>8. FilesIntact'
  <2>1. \A q \in Path : q \in cut' \/ (~(incoming.active /\ incoming.path = q) /\ fs'[q] = fs[q])
    BY <1>1, <1>3
  <2>2. FilesIntact /\ cut \subseteq cut'
    BY <1>1 DEF UploadInv
  <2>3. QED
    BY <2>1, <2>2, IntactStep
<1>9. ASSUME NEW k \in Upload
      PROVE  JobInv(k)'
  <2>1. JobInv(k) /\ ~OwnTransfer(k)' /\ cut \subseteq cut'
    BY <1>1, <1>6 DEF UploadInv, OwnTransfer
  <2>2. ASSUME Unrivalled(k)'
        PROVE  Unrivalled(k) /\ fs'[Target[k]] = fs[Target[k]]
    <3>1. Target[k] \notin cut' /\ Target[k] \in Path
      BY <2>2, Images DEF Unrivalled
    <3>2. QED
      BY <1>1, <1>3, <2>1, <2>2, <3>1 DEF Unrivalled, At
  <2>3. CASE \A m \in Heard' : m.topic = "fs/ack" /\ m.job = k => m \in Heard
    BY <1>1, <1>4, <2>1, <2>2, <2>3, OtherJob
  <2>4. CASE \E m \in Sent(out') : m.job = k
    <3>1. /\ \A m \in Sent(out') : m = Ack(k, thread[k].next, "ok") \/ m.job # k
          /\ At(k, "wait_ok") \/ At(k, "timeout") \/ At(k, "dropped")
          /\ Target[k] \in cut' /\ thread[k].next \in Nat
      BY <1>1, <1>3, <2>4, Answers
    <3>2. Heeds(k)' /\ PutPending(k)' /\ ChunkPending(k)' /\ Owned(k)'
      BY <1>1, <1>4, <2>1, <3>1 DEF JobInv, Heeds, PutPending, ChunkPending, Owned, At
    <3>3. ASSUME NEW m \in Heard', m.topic = "fs/ack", m.job = k, m.status = "ok"
          PROVE  m.seq <= thread[k].next
      <4>1. CASE m \in Heard
        BY <2>1, <3>3, <4>1 DEF JobInv, Acknowledged
      <4>2. CASE m \notin Heard
        <5>1. m.seq = thread[k].next
          BY <1>4, <3>1, <3>3, <4>2, Answers
        <5>2. QED
          BY <3>1, <5>1
      <4>3. QED
        BY <4>1, <4>2
    <3>4. Acknowledged(k)'
      BY <1>1, <2>1, <3>1, <3>3 DEF Acknowledged, At
    <3>5. Verdict(k)'
      BY <1>1, <3>1 DEF Verdict, Unrivalled, At
    <3>6. QED
      BY <1>1, <3>1, <3>2, <3>4, <3>5 DEF JobInv, At
  <2>5. QED
    BY <1>4, <2>3, <2>4
<1>10. QED
  BY <1>3, <1>5, <1>7, <1>8, <1>9 DEF UploadInv

-----------------------------------------------------------------------------
(* The invariant. *)

LEMMA InitUploadInv == TransferInit => UploadInv
<1> SUFFICES ASSUME TransferInit PROVE UploadInv
  OBVIOUS
<1>1. IInv /\ ~incoming.active
  BY InitIInv DEF TransferInit, Init, NoTransfer
<1>2. IsQueue(down) /\ IsQueue(up) /\ Once(down) /\ Sent(down) = {} /\ Sent(up) = {}
  BY FewSent DEF TransferInit
<1>3. Types
  BY <1>2 DEF TransferInit, Types
<1>4. Arriving
  BY <1>2 DEF Arriving
<1>5. Heard = {} /\ Uploads
  BY <1>1, <1>2 DEF TransferInit, Heard, Uploads
<1>6. FilesIntact
  BY DEF TransferInit, Init, FilesIntact, Whole
<1>7. ASSUME NEW j \in Upload
      PROVE  JobInv(j)
  <2>1. At(j, "idle") /\ thread[j].next = 0 /\ outcome[j] = "none" /\ ~OwnTransfer(j)
        /\ thread[j].pc = "idle"
    BY <1>1 DEF TransferInit, At, OwnTransfer
  <2>2. Heeds(j)
    BY <1>5, <2>1 DEF Heeds
  <2>3. QED
    BY <1>2, <1>5, <2>1, <2>2
       DEF JobInv, PutPending, ChunkPending, Acknowledged, Owned, Verdict, At
<1>8. QED
  BY <1>1, <1>3, <1>4, <1>5, <1>6, <1>7 DEF UploadInv

LEMMA NextUploadInv == UploadInv /\ [TransferNext]_allVars => UploadInv'
<1> SUFFICES ASSUME UploadInv, [TransferNext]_allVars PROVE UploadInv'
  OBVIOUS
<1>1. CASE Host
  BY <1>1, StartUploadStep, GotReadyStep, GotOkStep, UploadDoneStep, GiveUpStep, SendDeleteStep,
     RecordStep, EvictStep DEF Host
<1>2. CASE Handle
  <2>1. Handling
    BY <1>2 DEF Handle, Handling
  <2>2. QED
    BY <1>2, <2>1, PutStep, ChunkStep, DeleteStep DEF Handle
<1>3. CASE Lose
  BY <1>3, LoseStep
<1>4. CASE LosePower
  BY <1>4, LosePowerStep
<1>5. CASE UNCHANGED allVars
  <2>1. UNCHANGED <<env, fs, incoming, thread, removed, outcome, cut, down, up, acks>>
    BY <1>5 DEF allVars
  <2>2. IsQueue(down') /\ IsQueue(up') /\ Once(down') /\ Heard' = Heard
    BY <2>1 DEF UploadInv, Types, Arriving, Heard
  <2>3. QED
    BY <2>1, <2>2, FewerMessages DEF UploadInv, Uploads
<1>6. QED
  BY <1>1, <1>2, <1>3, <1>4, <1>5 DEF TransferNext

-----------------------------------------------------------------------------
(* What follows. *)

LEMMA UploadInvTypes ==
  ASSUME UploadInv
  PROVE  TransferTypeOK
<1>1. TypeOK /\ env \in Environments /\ removed \subseteq Removal
  BY DEF UploadInv, IInv, Types
<1>2. ASSUME NEW j \in Upload
      PROVE  /\ thread[j].pc \in {"idle", "wait_ready", "wait_ok", "done", "timeout", "dropped"}
             /\ thread[j].next \in Nat /\ (thread[j].next = 0 \/ thread[j].next < Chunks(j))
             /\ outcome[j] \in {"none", "ok", "failed", "rejected"}
  BY DEF UploadInv, Types, JobInv, Heeds
<1>3. ASSUME NEW i \in 1..Len(down)
      PROVE  down[i].job \in Upload \cup Removal
  <2>1. down[i] \in Sent(down)
    BY DEF Sent
  <2>2. QED
    BY <1>1, <2>1, Messages DEF UploadInv, Arriving
<1>4. \A m \in acks : m.job \in Upload
  BY DEF UploadInv, Uploads, Heard
<1>5. QED
  BY <1>1, <1>2, <1>3, <1>4 DEF TransferTypeOK

\* The types, for every number of uploads and every size of their files.
THEOREM TransferTypeCorrect == TransferSpec => []TransferTypeOK
<1>1. UploadInv => TransferTypeOK
  BY UploadInvTypes
<1>2. QED
  BY <1>1, InitUploadInv, NextUploadInv, PTL DEF TransferSpec

\* Whatever the connections lose, whichever writes fail and wherever power is lost, a file
\* that is neither being written nor was under upload when power was lost is whole.
THEOREM FilesStayIntact == TransferSpec => []FilesIntact
<1>1. UploadInv => FilesIntact
  BY DEF UploadInv
<1>2. QED
  BY <1>1, InitUploadInv, NextUploadInv, PTL DEF TransferSpec

\* An upload the WebUI answered with "ok" was verified, or power was lost under it.
THEOREM UploadsVerified == TransferSpec => []DoneMeansVerified
<1>1. UploadInv => DoneMeansVerified
  BY DEF UploadInv, JobInv, DoneMeansVerified
<1>2. QED
  BY <1>1, InitUploadInv, NextUploadInv, PTL DEF TransferSpec

\* The file of an answered upload stays, as long as no other job for its path is sent.
THEOREM AnsweredFileKept == TransferSpec => []DoneFileKept
<1>1. UploadInv => DoneFileKept
  <2>1. SUFFICES ASSUME UploadInv, NEW j \in Upload, At(j, "done"), Unrivalled(j)
                 PROVE  fs[Target[j]] = Image[j]
    BY DEF DoneFileKept, Unrivalled
  <2>2. outcome[j] = "ok"
    BY <2>1 DEF UploadInv, JobInv, Unrivalled
  <2>3. QED
    BY <2>1, <2>2 DEF UploadInv, JobInv, Verdict
<1>2. QED
  BY <1>1, InitUploadInv, NextUploadInv, PTL DEF TransferSpec

\* A chunk of the device's own transfer arrives in sequence.
THEOREM ChunksArriveInSequence == TransferSpec => []ChunksInSequence
<1>1. UploadInv => ChunksInSequence
  <2>1. SUFFICES ASSUME UploadInv, down # <<>>, Head(down).kind = "chunk",
                        OwnTransfer(Head(down).job)
                 PROVE  InSequence(Head(down).seq)
    BY DEF ChunksInSequence
  <2>2. QED
    BY <2>1, ChunkFirst, Messages DEF InSequence
<1>2. QED
  BY <1>1, InitUploadInv, NextUploadInv, PTL DEF TransferSpec

\* More than that: of all the reasons handleFileData has to refuse a chunk - the sequence, the
\* encoding, the chunk's size, the announced size - none applies to an upload of the WebUI.
ChunksAcceptable ==
  down # <<>> /\ Head(down).kind = "chunk" /\ OwnTransfer(Head(down).job)
    => ChunkAcceptable(Head(down).job, Head(down).seq, Head(down).data)

THEOREM ChunksAreAcceptable == TransferSpec => []ChunksAcceptable
<1>1. UploadInv => ChunksAcceptable
  <2>1. SUFFICES ASSUME UploadInv, down # <<>>, Head(down).kind = "chunk",
                        OwnTransfer(Head(down).job)
                 PROVE  ChunkAcceptable(Head(down).job, Head(down).seq, Head(down).data)
    BY DEF ChunksAcceptable
  <2>2. PICK j \in Upload :
          /\ Head(down) = ChunkMsg(j, thread[j].next) /\ thread[j].next \in Nat
          /\ thread[j].next < Chunks(j)
          /\ OwnTransfer(j) => incoming.nextSeq = thread[j].next
    BY <2>1, ChunkFirst
  <2> DEFINE n == thread[j].next
  <2>3. Head(down).job = j /\ Head(down).seq = n /\ OwnTransfer(j)
    BY <2>1, <2>2, Messages
  <2>4. n \in Nat /\ n < Chunks(j) /\ incoming.nextSeq = n /\ Head(down) = ChunkMsg(j, n)
    BY <2>2, <2>3
  <2> HIDE DEF n
  <2>5. ChunkAcceptable(j, n, ChunkMsg(j, n).data)
    BY <2>1, <2>3, <2>4, ChunkFits
  <2>6. QED
    BY <2>3, <2>4, <2>5
<1>2. QED
  BY <1>1, InitUploadInv, NextUploadInv, PTL DEF TransferSpec

-----------------------------------------------------------------------------
(* The device implements the file store among its controllers, too: its      *)
(* handlers are those of FileServer, and no other step touches its files.    *)

LEMMA HandleStore ==
  ASSUME UploadInv, UploadInv', Handling,
         \/ Head(down).kind = "put" /\ HandlePut(Head(down))
         \/ Head(down).kind = "chunk" /\ HandleChunk(Head(down))
         \/ Head(down).kind = "delete" /\ HandleDelete(Head(down))
  PROVE  StoreStep
<1>1. IInv /\ IInv' /\ down # <<>>
  BY DEF UploadInv, Handling
<1>2. Head(down) \in Sent(down)
  BY <1>1, TailQueue DEF UploadInv, Types
<1>3. ASSUME Head(down).kind = "put", HandlePut(Head(down))
      PROVE  StoreStep
  <2>1. PICK j \in Upload : Head(down) = PutMsg(j)
    BY <1>2, <1>3, Messages DEF UploadInv, Arriving
  <2> DEFINE p == Target[j]
             n == Len(Image[j])
             c == Crc(Image[j])
  <2>2. PutRejected(j, p, n, c) \/ PutOpenFails(j, p, n, c) \/ PutBegun(j, p, n, c)
    BY <1>3, <2>1, Messages DEF HandlePut
  <2>3. j \in Job /\ p \in Path /\ n \in Nat /\ c \in Nat
    BY Images
  <2> HIDE DEF p, n, c
  <2>4. QED
    BY <1>1, <2>2, <2>3, UnchangedView, AbortView, PutBegunView DEF PutRejected, PutOpenFails
<1>4. ASSUME Head(down).kind = "chunk", HandleChunk(Head(down))
      PROVE  StoreStep
  <2>1. PICK j \in Upload : /\ Head(down) = ChunkMsg(j, thread[j].next)
                            /\ thread[j].next \in Nat /\ thread[j].next < Chunks(j)
    BY <1>1, <1>4, ChunkFirst
  <2> DEFINE n == thread[j].next
             d == ChunkMsg(j, n).data
  <2>2. \/ ChunkWithoutTransfer(j, n, d) \/ ChunkRefused(j, n, d) \/ ChunkWriteFails(j, n, d)
        \/ ChunkWritten(j, n, d) \/ LastChunkWritten(j, n, d)
    BY <1>4, <2>1, Messages DEF HandleChunk
  <2>3. j \in Job /\ n \in Nat /\ d \in Chunk
    <3>1. d = ChunkAt(Image[j], HostChunk, n)
      BY Messages
    <3>2. n \in Nat /\ n < Chunks(j)
      BY <2>1
    <3>3. ChunkAt(Image[j], HostChunk, n) \in File
      BY <3>2, PrefixNext
    <3> HIDE DEF n, d
    <3>4. d \in Chunk
      BY <3>1, <3>3 DEF Chunk
    <3>5. QED
      BY <3>2, <3>4, Images
  <2> HIDE DEF n, d
  <2>4. CASE ChunkWithoutTransfer(j, n, d)
    BY <2>4, UnchangedView DEF ChunkWithoutTransfer
  <2>5. CASE ChunkRefused(j, n, d) \/ ChunkWriteFails(j, n, d)
    BY <1>1, <2>3, <2>5, RefuseView DEF ChunkRefused, ChunkWriteFails, ChunkAcceptable, OwnTransfer
  <2>6. CASE ChunkWritten(j, n, d) \/ LastChunkWritten(j, n, d)
    BY <1>1, <2>3, <2>6, ChunkWrittenView, LastChunkWrittenView
  <2>7. QED
    BY <2>2, <2>4, <2>5, <2>6
<1>5. ASSUME Head(down).kind = "delete", HandleDelete(Head(down))
      PROVE  StoreStep
  <2>1. PICK r \in removed : Head(down) = DeleteMsg(r)
    BY <1>2, <1>5, Messages DEF UploadInv, Arriving
  <2>2. DeleteFails(r, Target[r]) \/ Deleted(r, Target[r])
    BY <1>5, <2>1, Messages DEF HandleDelete
  <2>3. r \in Job /\ Target[r] \in Path
    BY JobAssumption, TargetAssumption DEF UploadInv, Types
  <2>4. QED
    BY <1>1, <2>2, <2>3, UnchangedView, DeletedView DEF DeleteFails
<1>6. QED
  BY <1>3, <1>4, <1>5

LEMMA TransferStore ==
  ASSUME UploadInv, UploadInv', [TransferNext]_allVars
  PROVE  StoreStep
<1>1. CASE Host \/ Lose \/ UNCHANGED allVars
  <2>1. UNCHANGED <<fs, incoming>>
    BY <1>1 DEF Host, StartUpload, GotReady, GotOk, UploadDone, GiveUp, SendDelete, Record, Evict,
                Lose, allVars
  <2>2. QED
    BY <2>1, UnchangedView
<1>2. CASE Handle
  <2>1. Handling
    BY <1>2 DEF Handle, Handling
  <2>2. QED
    BY <1>2, <2>1, HandleStore DEF Handle
<1>3. CASE LosePower
  <2>1. IInv /\ IInv'
    BY DEF UploadInv
  <2>2. PowerLoss \/ \E j \in Job, s \in Nat, d \in Chunk : PowerLossAfterAck(j, s, d)
    <3>1. CASE PowerLoss
      BY <3>1
    <3>2. CASE down # <<>> /\ Head(down).kind = "chunk"
               /\ PowerLossAfterAck(Head(down).job, Head(down).seq, Head(down).data)
      <4>1. PICK j \in Upload : /\ Head(down) = ChunkMsg(j, thread[j].next)
                                /\ thread[j].next \in Nat /\ thread[j].next < Chunks(j)
        BY <3>2, ChunkFirst
      <4> DEFINE n == thread[j].next
                 d == ChunkMsg(j, n).data
      <4>2. PowerLossAfterAck(j, n, d)
        BY <3>2, <4>1, Messages
      <4>3. j \in Job /\ n \in Nat /\ d \in Chunk
        BY <4>1, Images, PrefixNext, Messages DEF Chunk
      <4> HIDE DEF n, d
      <4>4. QED
        BY <4>2, <4>3
    <3>3. QED
      BY <1>3, <3>1, <3>2 DEF LosePower
  <2>3. QED
    BY <2>1, <2>2, PowerLossView
<1>4. QED
  BY <1>1, <1>2, <1>3 DEF TransferNext

\* The device with its controllers and its network implements the abstract file store.
THEOREM TransferImplementsFileStore == TransferSpec => ImplementsFileStore
<1>1. TransferInit => Store!StoreInit
  BY InitStore DEF TransferInit
<1>2. UploadInv /\ UploadInv' /\ [TransferNext]_allVars => [Store!StoreNext]_(Store!storeVars)
  BY TransferStore DEF StoreStep
<1>3. QED
  BY <1>1, <1>2, InitUploadInv, NextUploadInv, PTL
     DEF TransferSpec, ImplementsFileStore, Store!StoreSpec

=============================================================================
