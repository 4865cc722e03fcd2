# TLA+ models of the ESP32-S3 TCU

This directory holds TLA+ specifications of the T-Call A7670E firmware (ESP32-S3 with an
A7670 LTE modem) and of the WebUI server that controls it, with the TLC configurations that
check them and TLAPS proofs about them. The specifications are translated from the source,
`src/main.cpp`, `lib/RemoteDeviceManager`, the modem and GNSS drivers and
`tools/remote_device_manager/server.py` of the repository; line numbers below refer to those
files. `PROJECT.json` maps every definition to the lines it stands for.

Abbreviations: **RDM** is `lib/RemoteDeviceManager/src/RemoteDeviceManager.cpp`, **main** is
`src/main.cpp`, **server** is `tools/remote_device_manager/server.py`.

- [1 The system](#1-the-system)
- [2 Modules](#2-modules)
- [3 What the runs show](#3-what-the-runs-show)
- [4 What is proved](#4-what-is-proved)
- [5 Where the code and its documents disagree](#5-where-the-code-and-its-documents-disagree)
- [6 Abstractions](#6-abstractions)
- [7 Not modelled, and the plan](#7-not-modelled-and-the-plan)

## 1 The system

A device in a vehicle talks MQTT to a NanoMQ broker, over WiFi or over the MQTT client built
into its LTE modem. A WebUI process talks to the same broker and serves a browser page. Every
message to the device carries an HMAC over its topic and selected fields; a message whose
signature does not verify is dropped before it has any effect.

The firmware is one Arduino loop task. In each pass, `loop()`
polls the USB console, then the power state machine, then the GNSS runner and the WiFi
console, then `Manager::loop`, which connects if it has to, polls up to a few messages, and publishes
telemetry and state when their intervals have elapsed. Handlers run to their end on this
task. That makes each handler atomic with respect to the others; what interleaves is the
*sequence* of messages, coming from several controllers over connections that may lose them,
with console commands, the passing of time during blocking calls, and loss of power.

### Components

| Component | State it keeps | Operations | Makes it correct |
|---|---|---|---|
| Device file service (RDM 1005-1070, 1180-1397) | SPIFFS files; `incomingFile_`, the only transfer | `list`, `put_mqtt`, `get_mqtt`, `delete`; a chunk on `fs/data` | A file is replaced by a verified upload as a whole; a transfer that ends is answered and leaves no part of a file; protected paths stay untouched |
| WebUI uploads and deletes (server 548-607, 1376-1403) | one thread per request; the last 200 messages | put, wait for `ready`, then a chunk per acknowledgement; 12 s deadline | A request ends, with an answer unless the WebUI's own connection was lost; "ok" means the device verified the file; concurrent uploads leave whole files |
| WebUI downloads (server 609-641, 1380-1393) | `file_downloads[job]`: chunks by sequence number | request; record a chunk; assemble on the result | "ok" means the bytes the device read; nothing but loss keeps a download from completing |
| Timed standby (main 1239-1265, 1611-1689) | `remotePowerState`, activity and probe timestamps | fall asleep, light sleep, probe, wake | A used device stays awake, an unused one sleeps; whoever wakes it finds its peripherals back; a page reaches a sleeping device |
| RDM session (RDM 665-687, 804-956) | MQTT connection, retry deadline, subscriptions | connect, subscribe, dispatch, authenticate, publish | A device whose network is there is connected and listens to every topic |
| Transports (RDM 469-661; main 57-200) | socket or modem client; one pending message; `connected_` | connect, publish, poll, switch | What is delivered is what was sent; a switch does not lose control |
| OTA (RDM 1072-1091, 1399-1495; `GitHubOtaDemo.cpp`) | the update partition | download, verify, make bootable, reboot | Nothing unverified is ever booted; an update always ends, releases the Update library and says what happened |
| GNSS service (`GpsBufferedService.cpp`) | power request, power seen, last fix, deadlines | begin, stop, enable, poll, cold start | A started service brings the receiver up whatever fails, knows whether it is on, and keeps its intervals for every value of the clock |
| A7670 driver (`TCallA7670Modem.cpp`) | power, registration, data, the AT line | AT commands | An answer is read by the command that asked |
| Authentication and envelopes (RDM 116-401; server 161-331) | secret | encode, sign, verify, decode | Both ends compute the same base string |
| WebUI server (server) | messages, statistics, inferred link, last alive | HTTP handlers, record, guard of the transport switch | A switch to LTE is offered only when LTE data is there |
| Console (main 1010-1513) | none of its own | gsm, data, sms, http, mqtt, gps, ota... | Commands may not break what the other components rely on |

### How they interact

- **Messages.** Controllers publish on `fs/jobs`, `fs/data`, `console/cmd`, `ota/jobs`,
  `rdm/alive/request` and `rdm/transport/set`; the device answers on `fs/ack`, `fs/data`,
  `fs/result`, `rdm/alive` and so on. QoS 0 throughout and clean sessions: what is published
  while one end is away is gone.
- **Calls.** `main.cpp` gives the Manager its transport and its callbacks (status, console,
  OTA, transport switch, activity). `noteRemoteActivity` is called between the signature
  check and the handler, and wakes the peripherals.
- **Shared state.** Files (uploads, downloads, deletes), the modem (console, GNSS, standby,
  LTE transport), the activity timer, and on the server the message store that the MQTT loop
  fills and the upload threads poll.

### What is hard

The hazards are listed one by one, at their lines, in `PROJECT.json`. In groups:
several controllers sharing one transfer slot; a transfer failing between any two of its
steps, power included; acknowledgements that come before the verification they seem to
report; timers that are read before the messages that should reset them; time that passes
inside blocking calls; links brought down by one component and expected by another; and
retries, probes and page requests whose periods have to meet.

## 2 Modules

```
 FileStore  (what the file service promises)
     ^  refines
 FileServer (fs/jobs and fs/data on the device) --- FileServerProofs
     ^                    ^
 FileTransfer         FileDownload ---------------- FileTransferProofs, FileDownloadProofs
 (WebUI uploads)      (WebUI downloads)

 FirmwareStore (what an update promises)
     ^  refines
 OtaUpdate (ota/jobs and the console command) ----- OtaUpdateProofs

 Standby (loop task, links, page) ----------------- StandbyProofs

 Session (connection, subscriptions, retained
          state, clock) --------------------------- SessionProofs

 MqttReader (packets in the byte stream, both ends) MqttReaderProofs

 GpsRunner (buffered GNSS service, modem, UART) --- GpsRunnerProofs
```

An arrow upwards is EXTENDS, except those marked *refines*. Each module that is checked has an
`MC` module with the definitions a configuration cannot express. A definition marked
*Mutant* is a plausible bug; nothing uses it. Put in place of the definition after it, it
makes a property fail (`PROJECT.json`, "mutants").

### FileStore

The abstract specification. A path holds a file, nothing, or an upload in progress. `Begin`
starts an upload and drops the one in progress, with its file; `Commit` ends one with bytes of the announced
size and checksum (or with nothing, if the file was deleted meanwhile); `Abort` and a new
`Begin` leave nothing; `PowerCut` alone may leave other bytes.

### FileServer

`fs` is the SPIFFS file system, `incoming` is `incomingFile_`, `out` what the last handler
published, in order. Each handler of `fs/jobs` and `fs/data` is split into one action per
outcome, e.g. `beginMqttPut` into `PutRejected`, `PutOpenFails` and `PutBegun`;
`handleFileData` into `ChunkWithoutTransfer`, `ChunkRefused`, `ChunkWriteFails`,
`ChunkWritten` and `LastChunkWritten`, each with its guard, file system change and messages
in the code's order. `received` stands for the three fields the code updates per chunk (bytes
written, size, running CRC). `Written` keeps the SPIFFS rule that bytes written through the
handle of a removed file go nowhere. `PowerLoss` clears RAM and cuts the open file at any
byte; `PowerLossAfterAck` does so between the acknowledgement of the last chunk and the
verification, the one point inside a handler where something was already promised. In
this module the controllers send anything, in any order.

### FileTransfer

Adds the WebUI's upload threads (`thread[j]`: waiting for `ready`, for `ok`, done, timed
out, or dropped), the acknowledgements the server keeps (`acks`, with `Evict` for the limit of 200), and
a FIFO connection each way. `env` is chosen once and says which jobs may be sent and what may fail:
messages, the flash, the power. One run so covers several circumstances. `Handle` gives the device's head message to the matching
`FileServer` action and appends what it published. `Publish` is every send of a thread, the request and each chunk: on a
connection of the WebUI that was lost it raises an `OSError` (server 383-389), which `do_POST`
does not expect, so the request is dropped without an answer. `outcome` and `cut` are history: the result
the device published for each upload, and the paths whose upload a power cut interrupted.

### FileDownload

Adds `get_mqtt` jobs of the WebUI: the request, `sendMqttFile` (all chunks and the result
in one step, or an interrupted prefix), a connection that may lose any message, and
`_record_file_transfer_unlocked`. Other controllers use the service with `FileServer`'s own
actions at the same time, opens and writes of the flash fail, and `PowerCut` takes the device's power, also between
the last acknowledgement and the verification. `cut`, `read` and `part` are history: what the device had of an upload that a
loss of power broke off, what it read for a job, and what it had of an incomplete or broken-off upload when it read.

### Standby

`pc` is where the loop task stands: at the USB console, with which `loop()` begins, at the WiFi console, which comes before
`pollMqtt`, in `Manager::loop` (`poll` connects, `drain` takes messages), in the second half of a transport switch, announcing, and in light
sleep. `caller` says who called `Manager::loop`: `loop()`, a probe, or `mqtt transport` typed at a console. `busy` counts the units a
blocking call still needs; while it does, only time and other parties move. `idle`, `probed` and `retry` are the ages of
`lastRemoteActivityMs`, `standbyProbeStartMs` and the time to `nextReconnectMs_`; the code only ever looks at these
differences. `net` is the selected transport, WiFi and the modem (standby, on, on with data);
`Link(net)` says whether the selected transport has one. `inbox` is what the connection has
received. A new connection over WiFi starts with the acknowledgements of the six subscriptions (`Fresh`), each of which ends a
pass as if no message were there. On LTE any message may be dropped: `NativeCellularMqttTransport` keeps a single
one, and AT commands empty the UART it comes by. The WebUI page sends an alive request every `Period` (JavaScript, server 1216-1240).
A message is one of its six kinds; what a command does to the modem and the receiver is
nondeterministic. At either console any number of lines may be waiting, and all are run (`ConsoleCommand`): commands that block, `mqtt publish`, and
`mqtt transport` with its nested pass. A handler takes the time of what it brings up (`Blocks`): a command its own, an alive and a switch to LTE
that of the cellular data, and whatever wakes the device that of its peripherals.

Networks that fail are `NetworkFails`, an action of its own, so that `ControlRegained` can speak of
behaviours in which they no longer do.

`opened` is history: the units on end that the page has been open to a device connected over WiFi whose task was
not blocked.

### Session

What `Standby` abstracts from: the MQTT session itself. `link` holds the switchable transport
(`over`, `on` for what `connected()` answers), the manager (`subscribed`, `next` for
`nextReconnectMs_`) and the broker (`live`, `heard` for what the session is subscribed to, `told` for the
retained `rdm/state`, `silent` for its keepalive). Device and broker may disagree, and that is what the
module is about: a modem whose session is gone keeps `on` until a publication fails; a socket
keeps it until it is found closed; `subscribed` is set whatever the six subscriptions
returned (RDM 856-865).

`Ensured(l)` is `ensureConnected` (RDM 839-868) as the set of what it may leave and answer, and
`Publish`, `Subscribe`, `SetMode`, `ReconnectNow` are the calls it and the others make; an action applies
them in the order of the code. `EnsureConnected`, `HandleMessage` and `Reports` are the three parts of
`Manager::loop` (RDM 804-837). The console command `mqtt transport` calls it again from within
a handler (main 1175): `ConsoleSwitch` starts a pass at `depth + 1`, and `Reports` of that pass returns to the
handler. `Local` is what is typed at the USB and WiFi consoles, any number of lines at each: a command that blocks, `mqtt publish`, and
`mqtt transport`, whose pass returns to the console (`caller`). `EnterStandby` to `ProbeEnds` are the standby cycle, as far as it touches the
session; the USB console is read in each of its states. `typed` is history: how long local commands have kept the session silent. The clock is `now`, modulo `Wrap`; `next` is compared with it as an absolute time, as the code does,
the other timers as ages. `trouble` bounds how often anything fails.

### MqttReader

The byte stream from the broker as `WiFiMqttTransport::readPacket` (RDM 568-637) and the WebUI's
`MqttClient.read` (server) take it apart. `Digits`, `Text` and `Encoded` write a packet; `Step` reads a
byte: fixed header, length digits, topic length, topic and payload on the device, the body at once in
the WebUI. `Less` and `Sum` wrap as `uint32_t` does. `Pause` is a second without a byte
(`readByte`'s timeout, the socket's): both readers give up the packet and read on from wherever the
stream stands. `doubt` is history: a packet stalled, and no pause has come since in which the reader
found its feet. In doubt any bytes may be taken for a packet; what such a packet holds is not kept,
only where the reader stands. `Refused` are the well-framed publications that `state.record` fails on with
something else than an `OSError` (server 462-508): an alive whose `w.r` is no number, a file chunk whose `seq` is none. `Recorded` ends the
thread with them, as `mqtt_loop` (1474-1489) does. `PacketAssumption` is what a packet on the wire obeys: `writeString` writes a topic's
length in two bytes, and a body's length fits the `uint32_t` the device keeps it in (MQTT's own limit, four digits, is
below that).

### FirmwareStore and OtaUpdate

`FirmwareStore` says what an update promises: what would boot next changes to an image that
is bootable and is what was asked for, or back to what runs, and to nothing else.

`OtaUpdate` has the two OTA partitions (`flash`), the one that runs and the one otadata
selects; the Update library (`update`: running, and the size it was told); and one handler at a time,
at `pc`: looking up LTE data and the release, reading the checksum sidecar, requesting, reading the
headers and the body, verifying, about to restart. `Manager::otaUrl` and `GitHubOtaDemo` are two
implementations of the same steps, so their differences are guards (`Requestable`, `Redirectable`,
`UpdateSize`, chunked bodies, `Restarts`). Each way out of a handler is an action that publishes the
`ota/result` that way out publishes. The server is free: it redirects, lies about the length, cuts
short, sends too much, or stops. `Feeds` is what the code reads without getting on: header lines (`HeaderLine`, `LookupLine`) and chunks of a negative
size (`NegativeChunk`); `fed` says that the next such line follows in time, as it may for ever. `Receive` may or may not have reached the flash, since the
library keeps up to a sector in RAM and writes the first bytes of an image last. `PowerLoss` is
possible in every state. The Update library and the boot loader are external: `begin`, `write`, `end(true)` and
`abort` as the handlers use them, and a boot loader that takes the other partition when
the selected one holds no image.

### GpsRunner

One pass of `GpsBufferedService::runner` is one of six actions, told apart by the early return it takes:
`RequestWaits`, `RequestEnds`, `FindsOff`, `Sees`, `PollsAgain`, `NothingDue`. The enable request of the modem driver
(`pending`, `since`, `answer`) runs beside it, and `asked` is the modem still working on it. `OtherAt`
is any other AT command on the same UART: it swallows the answer, or leaves a late one of its own.
Console commands block the task (`busy`), standby stops the service and loses the request,
`gsm reset` and `gsm prove` change the receiver without telling the service. `now` is a
clock modulo `Wrap`, and `Due` compares as the code does, with a signed difference; `At` adds modulo
`Wrap`. `deceived` and `quiet` are history: whether the service has been misled since the last
`stop`, and for how long the started runner has had nothing to say to the modem.

## 3 What the runs show

A passing run explores all states of its configuration. Deadlock is checked except in the
configurations of `FileTransfer`, where a bounded set of uploads ends by design, and of `MqttReader`,
where the thread of the WebUI may end.

| Run | Properties | Distinct states |
|---|---|---|
| `file_server` | `TypeOK`, `TransferInv`, `ImplementsFileStore`, `EveryTransferAnswered`, `ProtectedUntouched` | 6,141 |
| `uploads` | `TransferTypeOK`, `FilesIntact`, `DoneFileKept`, `DoneMeansVerified`, `ChunksInSequence`, `EveryUploadEnds`, `SomeUploadSucceeds` | 330,437 |
| `downloads` | `DownloadExact`, `DownloadWhole`, `ReadIsDelivered` | 205,935 |
| `standby` | `TypeOK`, `AwakeIsRestored`, `OpenPageKeepsAwake`, `UnusedDeviceSleeps`, `ControlRegained` | 553,348 |
| `standby_wakes` | `OpenPageWakes` | 13,934 |
| `session` | `TypeOK`, `HearsAgainInTime`, `SessionIsFed`, `StateIsTold` | 839,845 |
| `framing` | `TypeOK`, `ThreadLives`, `InStep` | 33,337 |
| `ota_update` | `TypeOK`, `UpdateReleased`, `ImplementsFirmwareStore`, `UrlOkMeansVerified`, `EveryUpdateEnds` | 179,640 |
| `gps_runner` | `TypeOK`, `SeenIsOn`, `RunnerKeepsTime`, `ColdStartsGoOn`, `ReceiverComesUp` | 345,536 |
| `uploads_power_cut`, `standby_switch`, `ota_ok` | one each, violated: section 5 | |

**file_server.** Two jobs, an allowed and a protected path, files of up to two bytes over two
byte values, every size from 0 to one above the limit, chunks that are empty, too long,
undecodable, and out of sequence. Two bytes in chunks of one make a transfer with a
first, a last and no chunk; a third byte repeats the middle case. The checksum is a sum modulo
3, which collides and is 0 for some contents, as CRC-32 does: nothing in these properties
depends on a good one. `TransferInv` is the heart: while a transfer is active, its file, if it was
not deleted, holds exactly the bytes received since its `put_mqtt`.

**uploads.** Four circumstances in one run: `Calm`, uploads to two paths (one with a checksum of
0) and a delete on connections that lose nothing; `Rivals`, three uploads that supersede one
another, two of them on one path; `Lossy`, two uploads to one path with lost messages, evicted
acknowledgements and failing opens and writes; `Rough`, the same with a single-chunk upload and power cuts.
`FilesIntact`: a path that is not being written holds a file of the flashed image or the bytes of one
upload, never a mixture. `DoneFileKept`: the file of an upload answered with ok is there until somebody sends
another job for its path. `DoneMeansVerified`: although the request is answered on the
acknowledgement of the last chunk, which precedes the verification, an answered upload was
verified (the chunks arrived in sequence, and they came from one image), unless the device
lost power in between. `ChunksInSequence`: the stop-and-wait protocol never triggers the
device's sequence check. `EveryUploadEnds`: no request hangs; each ends done, timed out, or, on a lossy connection, dropped when a publish of its own fails. `SomeUploadSucceeds`: where nothing is lost and
nothing fails, uploads that keep superseding one another do not all fail.

**downloads.** A download of a path that two other controllers upload to, overwrite and delete, with opens and writes that fail. A download
marked ok is exactly what the device read (`DownloadExact`), and that is a whole file; the device also serves, with ok, a path whose
upload is in progress or was broken off by a loss of power, and then the download is the beginning of that one upload, never
bytes of two uploads nor of the file that was there before (`DownloadWhole`). On a connection that loses nothing a
download the device answers with ok completes (`ReadIsDelivered`). `lossy` is chosen once, so one
run covers both a connection and a supply of power that fail and ones that do not. The checksum has no collisions on these files: with a
colliding one `DownloadExact` says nothing about the code.

**standby.** Both transports, lossy links, six acknowledgements for each connection, commands and bring-up of up to one unit, switches both ways,
any number of lines at both consoles, and messages that do not verify. `AwakeIsRestored` covers every way back from standby: by a
message on either transport, handled by a command, an alive or a switch. `OpenPageKeepsAwake`: of all that comes between, a blocked task
is the only thing that puts a device to sleep in front of an open page; once the task has run freely for longer than a request
interval, with acknowledgements, other messages, rejected ones and nested passes in between, it has noted a request. Whether the device then stays
awake through a long command is not promised, and is not so: main 1664 tests the idle time before the waiting messages are polled (section
5). The run reaches such a sleep, and TLC violates the bound one below it. On LTE the property says nothing, since requests may be dropped there.
`UnusedDeviceSleeps`: once the page is closed and no controller sends
anything, the device sleeps again and again, whatever is typed at its consoles. `ControlRegained`: once networks no longer fail,
the device has a session again and again, whatever was switched; the standby cycle is what
repairs a switch to a WiFi that is off.

**standby_wakes.** The configured 15 s, 7 s, 10 s and 10 s, in seconds, and WiFi up within
3 s: a page that stays open wakes the device, whatever their phases are. With a bring-up of more than
the window, or commands at the USB console that use it up, the probe never listens and the device need
never wake (section 5).

**session.** One unit is about ten seconds; an idle time of two, telemetry every unit, state every two, a
keepalive of three, commands and bring-up of up to one, a failure of any kind at any point, any number of lines at both consoles, and a
clock that wraps after six, so that a deadline set before the wrap is pending after it in every phase.
`HearsAgainInTime` is about everything `ensureConnected` does not repair: a subscription that failed and counts
as made, a modem session thought alive, a switch of the transport whose attempt is due after the
wrap. None of them outlasts one idle time, one sleep and one bring-up, because falling asleep tears
the session down and `reconnectNow` clears the deadline. The idle time counts as the probe's window or as one
command and a pass where these are longer: a command that wakes the device may block that long before its session is looked at. The bound is exact for remote
commands, TLC violates the one below it. Lines typed at the USB or WiFi console run before the idle time is looked at and before the broker
is, each to its end and as many as there are; nothing bounds the time they take, and it comes on top (`deaf` leaves it out). It rests on
`RDM_STANDBY_ENABLED`, the default; without standby nothing bounds it (section 5). `SessionIsFed`: a keepalive is announced and no ping is
ever sent, and yet the broker does not drop an idle session, because each pass ends with telemetry, however long its commands, and those of
the pass within it, took. What is typed at the consoles publishes nothing, so that its time comes on top here as well, exactly (`typed`). Commands
longer than the keepalive lose the session: in the model the broker drops it (`Aged`).
`StateIsTold`: what the retained `rdm/state` says of sleep comes to agree with the device, although a report whose
publication failed waits a whole interval, and a probe that ends in the announcement publishes both values. It
is a leads-to, not an invariant: a device that falls asleep without a connection leaves `awake` behind
until it wakes. It supposes that nobody switches the transport, or types at the consoles, for ever.

**framing.** A length digit counts to 4 in place of 128; packets with one, two and three length digits, empty
topics and payloads, packets that are no publications, and bytes that look like headers. `InStep`: unless
a packet stalled, either end delivers each publication as it was written, with its last byte, and
nothing else, for every sequence of packets; it contains that lengths are read as they are written.
`ThreadLives`: the thread of the WebUI ends on a publication that `record` fails on, when its last byte is read, and on no other stream of whole
packets. Both, and that it ends when a stall
has put it out of step, are in section 5. The run also shows that the device, whose `remaining` wraps when
a topic is longer than its packet, leaves the reader in one of its states and is found in step again after
the next pause.

**ota_update.** Images of up to two blocks of two kinds, bootable or not, in partitions of two blocks,
a checksum that collides and a digest that does not, every size from 0 to one above the partition,
one redirect allowed and one too many. `ImplementsFirmwareStore` is the heart: whatever the servers
do and wherever power fails, what boots next changes only to a bootable image of the checksum (and the digest,
for `ota_url`) the job named, or back to what runs. `UpdateReleased`: no way out leaves the
Update library running, which would refuse every later update until a reboot. `UrlOkMeansVerified` relates the answer to what is selected for the next
boot. `EveryUpdateEnds`: an update ends unless its server never stops sending header lines or chunks of a negative size; those
the code reads for ever (section 5). No silence, no cut, no endless body and no redirect after redirect keeps the loop task.

**gps_runner.** A clock of eight units, intervals of one and two, commands and sleeps of up to one
unit, cold starts after two: every interval is crossed by the wrap of the clock, in every phase.
`SeenIsOn`: a receiver that is believed on (`gpsPowerSeen_`) and is off was switched off by a
command, or an answer was mixed up. `RunnerKeepsTime`: a started runner is never silent for longer than its
intervals. It excepts the deadline 0 that `begin` sets, which is half a clock ahead when `begin` is called in the upper half of
the clock (section 5). `ColdStartsGoOn`: without a fix, cold starts go on for ever, although both tests are
differences that start over when the clock wraps. `ReceiverComesUp`: after requests that were refused, lost or answered too late, a
service nobody deceives ends up with the receiver on.

### Fairness

- `WF(LoopTask)`: the Arduino core calls `loop()` again and again, and every blocking call in
  the model returns after a bounded number of units.
- In `Standby`, `SF(HandlePowerState)` and `SF(PollMqtt)`: whoever types at a console leaves it without a line again and again;
  the code runs all there are before it goes on.
- `SF(Tick)`: time passes. Strong, because a tick is not enabled in the middle of a pass; weak
  fairness would let the task spin through passes in no time.
- In `Session`, `SF(Reports)`: the loop finds no message waiting again and again, without which it would
  never report. `WF(NetworkUp)`: a network comes back, `WF(SocketCloses)`: the TCP stack
  closes a socket whose peer is gone. Messages, switches and failures are under no fairness.
- `WF(SendAlive)`: `setInterval` of the page fires. Opening and closing the page, messages of
  other controllers and loss of links are under no fairness.
- `WF(Own)` in `OtaUpdate`: the handler runs on, and its read times out when the server stops. No server has
  to answer, and as long as one sends what the code reads on for (`fed`), nothing is fair.
- In `GpsRunner`, `WF(Task)` and `SF(Tick)` as above; `SF(SwitchesOn)`, `SF(Runner /\ Sees)` and strong
  fairness of a cold start: a modem that is asked again and again carries a request out once, has its answer
  read by the one who asked once, and accepts a cold start once. Without them a modem that refuses for ever is
  legal, and the code can do no more than ask. Commands, resets and mixed-up answers are under no fairness.
- `WF` on the threads of the WebUI, on `Record` and on `Handle`: threads poll every 100 ms, the MQTT loop
  of the server and the loop of the device keep turning. Starting an upload is not fair;
  losing a message is not either, so `EveryUploadEnds` rests on the 12 s deadline.

### Bounds

Message queues are bounded by the number of jobs (uploads, downloads) or by `MaxInbox`
(standby). Times are small numbers with the ratios of the configuration, or the configured seconds
(`standby_wakes`). `After`, `Window` saturate the clocks at the value the code compares them
with, so no behaviour is lost. In `Session`, `MaxTrouble` bounds the failures of a behaviour, to one, at any point of it; switches, consoles and the wrap of the clock are not bounded. The
theorems about `Session` hold for any number of failures; `StateIsTold` is checked for one.
`MaxDepth` bounds the passes of `Manager::loop` within one another, `taken` allows a message each unit. One page is open at a time.

## 4 What is proved

TLAPS checks these for every value of the constants that satisfies the named assumptions of
the modules. Every invariant and every action property that a passing run checks has its theorem; three of
them carry a condition, which is explained below (`Collision`, and the one of `PageKeepsAwake`).

| Theorem | Statement |
|---|---|
| `FileServerProofs!TypeCorrect` | `Spec => []TypeOK` |
| `FileServerProofs!TransferCorrect` | `Spec => []TransferInv` |
| `FileServerProofs!FileServerImplementsFileStore` | `Spec => ImplementsFileStore` |
| `FileServerProofs!TransfersAnswered` | `Spec => EveryTransferAnswered` |
| `FileServerProofs!ProtectedKept` | `Spec => ProtectedUntouched` |
| `FileTransferProofs!TransferTypeCorrect` | `TransferSpec => []TransferTypeOK` |
| `FileTransferProofs!FilesStayIntact` | `TransferSpec => []FilesIntact` |
| `FileTransferProofs!UploadsVerified` | `TransferSpec => []DoneMeansVerified` |
| `FileTransferProofs!AnsweredFileKept` | `TransferSpec => []DoneFileKept` |
| `FileTransferProofs!ChunksArriveInSequence` | `TransferSpec => []ChunksInSequence` |
| `FileTransferProofs!ChunksAreAcceptable` | `TransferSpec => []ChunksAcceptable` |
| `FileTransferProofs!TransferImplementsFileStore` | `TransferSpec => ImplementsFileStore` |
| `FileDownloadProofs!DownloadsChecked` | `DownloadSpec => []DownloadChecked` |
| `FileDownloadProofs!DownloadsExact` | `DownloadSpec => [](Collision \/ DownloadExact)` |
| `FileDownloadProofs!DownloadsWhole` | `DownloadSpec => [](Collision \/ DownloadWhole)` |
| `StandbyProofs!TypeCorrect` | `Spec => []TypeOK` |
| `StandbyProofs!WakingRestores` | `Spec => []AwakeIsRestored` |
| `StandbyProofs!PageKeepsAwake` | if `Period < After`, then `Spec => OpenPageKeepsAwake` |
| `SessionProofs!TypeCorrect` | `Spec => []TypeOK` |
| `SessionProofs!SessionFed` | `Spec => []SessionIsFed` |
| `SessionProofs!HeardAgain` | `Spec => []HearsAgainInTime` |
| `MqttReaderProofs!TypeCorrect` | `Spec => []TypeOK` |
| `MqttReaderProofs!ThreadSurvives` | `Spec => []ThreadLives` |
| `MqttReaderProofs!ReadInStep` | `Spec => InStep` |
| `OtaUpdateProofs!TypeCorrect` | `Spec => []TypeOK` |
| `OtaUpdateProofs!AlwaysReleased` | `Spec => []UpdateReleased` |
| `OtaUpdateProofs!OtaImplementsFirmwareStore` | `Spec => ImplementsFirmwareStore` |
| `OtaUpdateProofs!UrlOkVerified` | `Spec => UrlOkMeansVerified` |
| `GpsRunnerProofs!TypeCorrect` | `Spec => []TypeOK` |
| `GpsRunnerProofs!BeliefCorrect` | `Spec => []SeenIsOn` |
| `GpsRunnerProofs!KeepsTime` | `Spec => []RunnerKeepsTime` |

**File service.** The inductive invariant is `IInv == TypeOK /\ TransferInv`. Neither is
inductive alone: that a file stays below the limit needs the announced size to be below it, which `TransferInv`
carries from `AcceptablePut` to the last chunk; and `TransferInv` needs the types to
append to a sequence. There is one lemma for each kind of step: beginning, extending,
finishing, dropping, losing power. The refinement maps the path under upload to
`InProgress` and the announced size and checksum to `promise`; each handler is then `Begin`,
`Commit`, `Abort`, `Delete`, `PowerCut` or a stutter. `Commit` is where `TransferInv` is
needed: the file is the bytes received, hence of the size and checksum that were verified. Assumptions: paths, jobs and
limits are non-empty or positive, messages have the types of the decoder, and `NoFile`,
`InProgress` and `Undecodable` are no byte sequences. Nothing is assumed of the checksum.
`EveryTransferAnswered` and `ProtectedUntouched` follow step by step: the first needs of the invariant only that the
transfer is the one whose job the answer names, the second that the path of an active transfer is an allowed one.

**Uploads.** `UploadInv` joins the invariant of `FileServer` with the two queues, the acknowledgements kept by the
server and one `JobInv` for each upload. None of the five properties is inductive. The chain behind `DoneMeansVerified`, whose answer
precedes the verification, is: a chunk on its way is the one its thread sent last and is there once (`Arriving`), because a
thread sends the next only on the acknowledgement of this one (`ChunkPending`); the device's transfer is therefore as far as the
thread or one chunk ahead, and has received exactly the first chunks of the image (`Owned`); an acknowledgement of the last
chunk was heard only if the handler that sent it went on to verify the file, or power was lost between
(`Acknowledged`); and the file then stays, unless a rival job or a power cut touched it (`Verdict`,
`Unrivalled`). `ChunksAreAcceptable` states more than `ChunksInSequence`: of all the reasons `handleFileData` has for
refusing a chunk none applies to the accepted transfer of a WebUI thread. The refinement carries over from `FileServer`, as each
step of the composition is a step of the device or leaves it alone. `ImageAssumption` says of an upload what the WebUI
ensures: a file below the limit, cut into chunks the device accepts, with a checksum that is a number. Messages
are lost, never duplicated or reordered: MQTT at QoS 0 over one TCP connection.

**Downloads.** `DownloadInv == ServiceInv /\ QueueInv`. `ServiceInv` carries through every handler of the device, and through every loss of power,
that a file is one that was flashed or a verified upload, or else a beginning of the one upload it is a part of, in progress or broken
off (`FilesSound`); that needs a new transfer to start on a path with nothing broken off (`Announced`), which `beginMqttPut` ensures by
writing from the first byte. `QueueInv` says that a job is asked once, that its
result names what the device read, and that nothing marked ok has another checksum. With no assumption about the
checksum, a download marked ok has the checksum of the one file read for it, which is whole or such a beginning (`DownloadsChecked`). What the runs check
holds but for `Collision`: two different files of one checksum met in this download. CRC-32 has such files, so the theorem says
exactly what the code can promise; the checksum of the run has none.

**Standby.** `IInv == TypeOK /\ AwakeIsRestored /\ HaltInv`. `AwakeIsRestored` is not
inductive: it needs to know that the step into light sleep, which puts the modem into standby, is only taken
with `power = "EnteringStandby"`. `HaltInv` says so. The proof then has one lemma for each step of the
task, and one (`Handled`) for the three kinds of message, whose common part is that
`Peripherals` has the modem out of standby.

`PageKeepsAwake` needs an invariant of its own, `WakeInv`, about what an awake device has missed: `Missed`, the smaller of the idle time and the
units the page has been open to a free task. A free task ends each unit with an empty inbox, so what is unread was sent within the
unit. Hence (`Asked`) either nothing has been missed since the last handled message, or a request waits and at most an interval was missed, or
none waits and at most the age of the last one (`Since`). No acknowledgement, message or nested pass comes into it but through that empty
inbox. A device that falls asleep has `idle >= After`, so `Missed` is `opened` and at most `Period`. The
hypothesis, a request interval shorter than the idle time, is what any page needs; the device has 10 s and 60 s. No bound on commands or networks is assumed.

**Session.** `Shape` has the types, the places a nested pass can stand at (`Passes`), and that a WiFi session has its
socket. `SessionIsFed` needs `Fed`: the session is as silent as the telemetry is old, but for the remote commands
the pass is in, one for each level of nesting, the units they still need (`Blocked`), and the time local commands have taken (`typed`). `HearsAgainInTime` needs `DeafInv`, a
bound for each phase of the standby cycle: awake, a device is deaf no longer than it is idle; asleep, that and the part of
the sleep that has passed; in a probe it has either not tried to connect, and will do so at once with a deadline of 0
(`FreshProbe`), or has been deaf for the probe only. A nested pass of a console may take the message that ends the deafness in any of these phases, so the invariant
knows who called (`caller`). The absolute deadline of `ensureConnected` and its wrap drop
out of the argument, as standby clears it; that is what makes the bound independent of `Wrap`. The first attempt at this proof
failed for a good reason: the bound on idling left out a command as long as the idle time, and was one unit short.

**Framing.** `ReaderInv` says where a reader in step stands: `Placed(reader, rest, packet)` gives for each place the bytes still to
come and what the counters must be, for instance, in the topic, that it is what has been read and what is to
come up to the payload, and that `topicLeft` is the length of the latter. For the length digits it is
`left + multiplier * m = Len(Body(p))`, where the digits to come are those of `m`: each digit read takes its share of
what is missing, so that neither `remaining` nor `multiplier` wraps before the last one. One lemma per
place (`FirstInStep` to `SkipInStep`) takes a byte. Without doubt a reader stops only where the packet it has read is refused (`RecordedInStep`). `Digits` is a recursive function; that it is what its definition says
is proved by induction on a set of numbers (`DigitsUpTo`), not assumed. In doubt nothing is known of the bytes,
and the invariant keeps the types and that a reader that counts down has something to count (`Waiting`), from which
`TypeCorrect` follows whatever lengths are read. Assumptions: `Base > 1`, a topic length fits two bytes, a body a word.

**Updates.** `IInv == TypeOK /\ UpdateReleased /\ RunningGood /\ UrlHasDigest`. The refinement needs
to know where `BootSlot` leads: while an update tears the other partition, the boot loader falls back to
the running one, which must hold an image (`RunningGood`); it does, because updates write to the other one. What
`Commit` promises of an `ota_url` job needs the digest to be there when the body is verified (`UrlHasDigest`), which only
`Requestable` ensures, several steps before. Assumptions: shipped images are bootable sequences of
blocks, `Torn` is none, the limits are positive. Nothing is assumed of the checksum, the digest or the boot loader.

**GNSS.** `BeliefInv == SeenIsOn /\ OkMeansOn`. `SeenIsOn` alone is not inductive: the runner believes an OK it
reads from the UART, so the invariant must say that an OK waiting for it means that the receiver is on or the service was
deceived. That proof needs no assumption about the clock.

`RunnerKeepsTime` needs `TimeInv`. Each deadline has a witness modulo `Wrap`: it lies `a` units `Ahead`, with the silence so
far and `a` within the interval; or it passed `e` units ago (`Behind`), while the task was blocked, and the runner runs
next; or a request is open and looked after in every pass (`Waiting`), until `EnableTimeout` ends it. The comparison by
signed difference is right as long as nothing is later than half the clock, which is what `ClockAssumption`
asks: intervals with one blocking command, and the request's timeout with two, are below half of `Wrap`. On the
device these are minutes at the most against 24.8 days. It also has the second look not later than the retry, as the code's constants do.

**Only model-checked:** the liveness properties, `EveryUploadEnds`, `SomeUploadSucceeds`, `ReadIsDelivered`,
`UnusedDeviceSleeps`, `ControlRegained`, `OpenPageWakes`, `StateIsTold`, `EveryUpdateEnds`, `ColdStartsGoOn` and
`ReceiverComesUp`: liveness under fairness and ENABLED are beyond the prover.
What is proved is about the model: the abstractions of section 6 stand in front of every theorem.

## 5 Where the code and its documents disagree

Each of the first three has a run that TLC must find violated, with a trace.

1. **Power cut during an upload** (`uploads_power_cut`). `beginMqttPut` (RDM 1232) writes to
   the final path at once. A power cut leaves a part of the file there, and nothing
   at boot removes it; the hardware test HW-24 expects no corrupt file system.
2. **Transport switch** (`standby_switch`). After a standby on LTE, WiFi stays off
   (main 1252); a later switch to WiFi has no link and cuts the connection it came by, until
   the next probe brings WiFi up. HW-07 expects a switch without loss of control.
3. **github_latest says ok** (`ota_ok`). `remoteOtaCommand` (main 1594) returns true whatever
   `handleOtaCommand` did, so a `github_latest` job that found no data, no release or a wrong
   checksum is answered with ok. HW-19 expects OTA jobs to report errors. The one that succeeds
   restarts inside `downloadFirmware` and is never answered.

Others were met while modelling and have no run of their own:

- **Swallowed request.** `publishSleepState` (RDM 748) polls one message and drops it. A request
  that arrives while the device announces its sleep neither resets the timer nor is handled, although
  `docs/mqtt-file-transfer-standard.md` 84 says any authenticated command does.
- **Probe window.** The window starts before the network is brought up (main 1651), so the device
  listens for what is left of it, if anything; lines 95-97 of that document have it listen for the whole
  window. With a bring-up as long as the window a sleeping device is never woken.
- **Long commands.** A command, or a network that is brought up, as long as the idle time puts the device to sleep in front of an open page
  (main 1664), although lines 98-99 have a device with an open page stay awake: what arrived meanwhile is read after the test. `sms send` alone
  may take 70 s, cellular data 150 s. `OpenPageKeepsAwake` says that nothing else does.
- **`gps on` after 24.8 days.** `begin` sets its deadlines to 0, which is in the future for a clock in its
  upper half (`GpsBufferedService.cpp` 78), so the runner that `gps on` enables (README 535) does nothing
  until `millis()` wraps. The standby cycle calls `begin` as well.
- **Receiver off, service content.** After `gsm reset` or `gsm prove` `gpsPowerSeen_` stays true: the service polls a
  receiver that is off and does not ask for its power again.
- **Stale fix.** A poll without an answer leaves `hasFix` (`GpsBufferedService.cpp` 136): a lost fix keeps
  the cold start "after extended no-fix period" from coming.
- **Reconnect deadline.** `now < nextReconnectMs_` (RDM 840) is no difference. A connection lost after `millis()`
  wrapped is not restored until the clock passes the old deadline, up to 49 days; HW-18 expects a reconnect. So is a device
  that the console command `mqtt transport` switched, and a subscription over LTE that failed is not
  made again at all while the connection lasts. `Session` shows that the standby cycle repairs all three within
  its own period; with `RDM_STANDBY_ENABLED` off nothing does. The retry of the LTE alive
  (main 503) compares in the same way.
- **Dropped request.** `MqttClient.publish` of the server raises an `OSError` when the WebUI's own connection is lost (383-389), and `do_POST`
  (1397-1403) expects `TimeoutError` and `ValueError` only: an upload at any of its chunks ends without an HTTP answer.
- **Partial downloads.** `get_mqtt` answers ok for a path whose upload is in progress or was broken off by a loss of power: the checksum
  it sends is that of the part (RDM 1245-1310). `DownloadWhole` shows that it is a beginning of one upload.
- **Dead thread.** The loop around `MqttClient.read` and `state.record` expects `OSError` only (server 1474-1489). A publication whose fields
  `record` cannot convert (`_normalize_alive` 485-508 with a `w.r` that is no number) ends the MQTT thread with a `ValueError` or `TypeError`, and so
  does a `struct.error` of `parse_publish`, which unpacks two bytes of a body that may be shorter when the stream is out of step after a stall.
  The WebUI is deaf until it is restarted. `ThreadLives` shows that there is no third way.
- **Endless headers.** The loops over header lines (RDM 1444; `GitHubOtaDemo.cpp` 256) have no bound but the timeout of a line, and a chunk of a
  negative size (`GitHubOtaDemo.cpp` 555-583, and 328-352 of the lookup) is read and passed over: a server that sends either without end keeps the loop task, and
  with it MQTT and standby, for ever. `EveryUpdateEnds` shows that these are the only ways.
- **Keepalive.** CONNECT announces a keepalive (RDM 503) and the device never sends PINGREQ. `SessionIsFed` shows
  that telemetry stands in for it; a telemetry interval above it would not, and neither do commands, typed or remote, that
  take longer: the broker drops the session while they run.

## 6 Abstractions

- A signature is a yes or a no: `unsigned` messages are rejected, all others are accepted. Replay of
  signed messages is not modelled.
- The payloads of commands, results and telemetry are left out; sizes and checksums of a
  result are represented by the bytes they are computed from.
- CRC-32 is the constant operator `Crc`. Sizes stay below 16 KiB and
  do not wrap. Timers are elapsed time, except in `GpsRunner` and, for the reconnect deadline, in `Session`,
  whose clocks wrap.
- In `FileServer` a second handle on a file that is being written sees any prefix of it, and a
  power cut may leave any prefix: SPIFFS promises neither more nor less.
- In `Standby`, passes of the loop that do not block take no time, and telemetry, which is how the
  code notices a broken link, comes at least once per unit.
- In `Standby` and `Session` a remote command may block for up to `MaxCommand` or `MaxBlock` units, after it was handled, and so may
  each line typed at a console, of which there may be any number; messages that arrive meanwhile wait.
- A remote `mqtt transport` (`console/cmd`), with its pass within the handler, is in `Session` only; in `Standby` it is typed at a console. The time of
  `ArduinoOTA.handle` and of the GNSS runner within a pass is in neither.
- Loss of power and reboots are in the file and update modules only; standby is a light sleep, which keeps RAM.
- In `OtaUpdate` a size counts blocks. A header line says a length, that the body is chunked, or nothing of interest; lines and negative chunks that follow
  one another without end are the state `fed`. The lookup of a release is two steps that succeed or not, or are fed.
- In `GpsRunner` the runner runs between two commands that block, a time that nothing reads before it is set again
  is kept at 0, an answer nobody waits for is dropped at once, and of the cached readings only `hasFix` is kept.
- In `Session` the networks are reachable or not; who brings them up is in `Standby`. One topic stands for those of the commands.
  The guard of the WebUI only withholds messages which the model sends anyway. An attempt over the modem with the
  broker in reach fails finitely often.
- In `MqttReader` a packet that is no publication has a type and bytes; the fields of CONNECT and CONNACK are left out.
  What is read in doubt is not kept, and `record` may fail on it. Of `record` only whether it fails is modelled.

## 7 Not modelled, and the plan

Done, in the order of importance: `FileStore`, `FileServer`, `FileTransfer`, `FileDownload`,
`Standby`, `FirmwareStore`, `OtaUpdate`, `GpsRunner`, `Session`, `MqttReader`, and the proofs of all their invariants and
action properties. What comes next, in this order:

1. **Transport guard** of the WebUI, and the alive it relies on; the readers of `rdm/state`.
2. **Modem driver**: registration, bearer and data activation under retries.
3. **Proofs**: types of `FileDownload` as a property of its run; safety parts of the liveness properties, as the deadline that
   bounds a waiting upload thread.

Left out for good: AT texts and their parsing, JSON and CBOR text handling, HTML, statistics, the dyndns and
console scripts, and the broker, which is vendored.

Of the 83,000 lines of source in the repository about 9,900 are the program's own; the rest
is the vendored broker with the headers of its libraries (`tools/mqtt_broker/nanomq`), which no model of this program
would translate. The modules stand for roughly a sixth of the program's own lines. Most of the others format and
parse text: AT commands and answers, JSON, console output, HTML.
