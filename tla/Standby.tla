-------------------------------- MODULE Standby --------------------------------
(***************************************************************************)
(* Timed standby: the loop task of main.cpp, which polls the broker, falls *)
(* asleep after RDM_STANDBY_AFTER_MS without an authenticated message, and *)
(* wakes every RDM_STANDBY_WAKE_INTERVAL_MS to probe for one; the links it *)
(* switches off and on; and the WebUI page, whose requests keep it awake.  *)
(*                                                                         *)
(* Time is counted in elapsed units, which is what the code computes: each *)
(* test of handleRemotePowerState is a difference of two millis().  A unit *)
(* is long against one pass of loop() that does not block, and a blocking  *)
(* call takes the number of units it is given by its action.               *)
(***************************************************************************)
EXTENDS Integers, Sequences, FiniteSets

CONSTANTS
  After,         \* RDM_STANDBY_AFTER_MS
  WakeInterval,  \* RDM_STANDBY_WAKE_INTERVAL_MS
  Window,        \* RDM_STANDBY_PROBE_WINDOW_MS
  Retry,         \* MQTT_RECONNECT_INTERVAL_MS
  Period,        \* the interval of the page's rdm/alive/request
  MaxBringUp,    \* longest setupWifi or ensureCellularData
  MaxCommand,    \* longest console command
  Topics,        \* topics the device subscribes to
  MaxInbox,      \* bound: messages waiting on a connection
  Message,       \* kinds of message other controllers send
  Transports,    \* the MQTT_TRANSPORTs the firmware may be built with
  Consoles,      \* of the USB and the WiFi console, those someone types at
  GpsAutostart,  \* TCALL_GPS_AUTOSTART
  Reliable       \* a network or broker asked for is there

Signed == {"alive", "command", "to_wifi", "to_lte"}

ASSUME TimeAssumption ==
  /\ {After, WakeInterval, Window, Retry, Period} \subseteq Nat \ {0}
  /\ {MaxBringUp, MaxCommand, Topics, MaxInbox} \subseteq Nat
ASSUME KindAssumption ==
  /\ Message \subseteq Signed \cup {"unsigned"}
  /\ Transports \subseteq {"wifi", "lte"} /\ Consoles \subseteq {"usb", "wifi"}
  /\ {GpsAutostart, Reliable} \subseteq BOOLEAN

VARIABLES
  power,     \* remotePowerState
  prepared,  \* standbyNetworksPrepared
  pc,        \* where the loop task stands; "usb" is where loop() begins
  caller,    \* what called Manager::loop: loop(), a probe, or a command of a console
  busy,      \* units until the blocking call the task is in returns
  turned,    \* a whole pass of loop() was run in this unit
  idle,      \* units since lastRemoteActivityMs, up to After
  probed,    \* units since standbyProbeStartMs, up to Window
  retry,     \* units until nextReconnectMs_
  net,       \* selected transport, WiFi, modem
  gps,       \* gpsBuffer.started_
  session,   \* the transport says it is connected
  inbox,     \* what the connection received and poll has not taken yet
  page,      \* a page of the WebUI is open
  nextAlive, \* units until its next request
  opened     \* history: units on end the page has been open to a device connected over
             \* WiFi whose task was not blocked, up to Period + 1

taskVars == <<power, prepared, pc, caller>>
timeVars == <<busy, turned, idle, probed, retry>>
linkVars == <<net, gps, session, inbox>>
pageVars == <<page, nextAlive>>
vars == <<taskVars, timeVars, linkVars, pageVars, opened>>

-----------------------------------------------------------------------------
(* Links. *)

\* The modem is in standby, on, or on with a data connection.
Net == [transport : {"wifi", "lte"}, wifi : BOOLEAN, modem : {"standby", "on", "data"}]

Link(n) == IF n.transport = "wifi" THEN n.wifi ELSE n.modem = "data"

\* The outcomes of asking for something that may fail.
Tried(before, after) == IF Reliable THEN {after} ELSE {before, after}

WithWifi(n) == Tried(n, [n EXCEPT !.wifi = TRUE])
WithData(n) == Tried(n, [n EXCEPT !.modem = "data"])
ModemAwake(n) == [n EXCEPT !.modem = IF @ = "standby" THEN "on" ELSE @]

\* (Mutant: the modem is left in standby when the transport is WiFi.)
MutRestored(n) ==
  IF n.transport = "lte" THEN WithData(ModemAwake(n)) ELSE WithWifi(n)

\* restoreAwakePeripherals: WiFi stays off when the transport is LTE.
Restored(n) ==
  IF n.transport = "lte" THEN WithData(ModemAwake(n)) ELSE WithWifi(ModemAwake(n))

\* prepareNetworksForStandbyProbe: only the active transport is brought up.
ProbeNets(n) == IF n.transport = "lte" THEN WithData(ModemAwake(n)) ELSE WithWifi(n)

\* A new connection starts with the acknowledgements of its subscriptions; the modem
\* keeps those of the cellular transport to itself.
Fresh(s, n) == [i \in 1..(IF s /\ n.transport = "wifi" THEN Topics ELSE 0) |-> "suback"]

\* ensureConnected once the retry time has come.
Connected(n) ==
  /\ session' \in Tried(FALSE, Link(n))
  /\ inbox' = Fresh(session', n)
  /\ retry' = Retry

\* reconnectNow.
Disconnected == session' = FALSE /\ inbox' = <<>> /\ retry' = 0

\* setup, which ends with the first attempt to connect (Manager::begin).
Init ==
  /\ power = "Awake" /\ prepared = FALSE
  /\ pc = "usb" /\ caller = "loop"
  /\ busy = 0 /\ turned = FALSE
  /\ idle = 0 /\ probed = 0 /\ retry = Retry
  /\ \E t \in Transports :
       net \in Tried([transport |-> t, wifi |-> FALSE, modem |-> "on"],
                     [transport |-> t, wifi |-> TRUE,
                      modem |-> IF t = "lte" THEN "data" ELSE "on"])
  /\ gps = GpsAutostart
  /\ session \in Tried(FALSE, Link(net)) /\ inbox = Fresh(session, net)
  /\ page = FALSE /\ nextAlive = 0 /\ opened = 0

-----------------------------------------------------------------------------
(* The controllers.  What is published while the device has no session is   *)
(* lost: its subscriptions are QoS 0 and its sessions clean.                *)

\* What waits on the connection, and how many messages are among it.
Waiting == {inbox[i] : i \in 1..Len(inbox)}
Messages == Cardinality({i \in 1..Len(inbox) : inbox[i] # "suback"})

\* Bound: a request is not queued behind MaxInbox messages if another one is waiting.
Queued(m) == m # "alive" \/ "alive" \notin Waiting \/ Messages < MaxInbox

\* The native transport keeps one message, and other AT commands empty the UART it comes
\* by: on LTE a message may be dropped.
Arrived(m) ==
  IF ~(session /\ Link(net) /\ Queued(m)) THEN {inbox}
  ELSE IF net.transport = "lte" THEN {inbox, Append(inbox, m)}
  ELSE {Append(inbox, m)}

\* A page sends its first request at once.  Bound: one page after the other, each
\* opened when the last one's next request would have been due.
OpenPage ==
  /\ ~page /\ nextAlive = 0
  /\ page' = TRUE /\ opened' = 0
  /\ UNCHANGED <<taskVars, timeVars, linkVars, nextAlive>>

ClosePage ==
  /\ page /\ nextAlive > 0
  /\ page' = FALSE /\ opened' = 0
  /\ UNCHANGED <<taskVars, timeVars, linkVars, nextAlive>>

SendAlive ==
  /\ page /\ nextAlive = 0
  /\ nextAlive' = Period
  /\ inbox' \in Arrived("alive")
  /\ UNCHANGED <<taskVars, timeVars, net, gps, session, page, opened>>

SendMessage(m) ==
  /\ session /\ Link(net) /\ Messages < MaxInbox
  /\ inbox' \in Arrived(m)
  /\ UNCHANGED <<taskVars, timeVars, net, gps, session, pageVars, opened>>

\* The network or the broker breaks the connection.
LoseLink ==
  /\ ~Reliable
  /\ session /\ net.transport = "wifi"
  /\ session' = FALSE /\ inbox' = <<>>
  /\ net' \in {net, [net EXCEPT !.wifi = FALSE]}
  /\ opened' = 0
  /\ UNCHANGED <<taskVars, timeVars, gps, pageVars>>

-----------------------------------------------------------------------------
(* The loop task.                                                           *)

Ready(p) == pc = p /\ busy = 0

(* The consoles: pollStreamConsole runs every line that has arrived, USB's at    *)
(* the start of loop(), in every power state, and WiFi's before pollMqtt.        *)

Typed(c) == Ready(c) /\ c \in Consoles /\ (c = "wifi" => net.wifi)

\* A connection the device gives up is not counted on.
StillOpened == opened' = IF session' THEN opened ELSE 0

\* A command may block, and may switch the receiver or the data connection.
Command(c) ==
  /\ Typed(c)
  /\ busy' \in 0..MaxCommand
  /\ gps' \in BOOLEAN
  /\ net' \in {[net EXCEPT !.modem = s] : s \in {net.modem, "on", "data"}}
  /\ UNCHANGED <<taskVars, turned, idle, probed, retry, session, inbox, pageVars, opened>>

\* mqtt publish connects if it can, and shows whether the link holds.
Publish(c) ==
  /\ Typed(c)
  /\ IF ~session /\ retry = 0 THEN Connected(net)
     ELSE /\ session' = (session /\ Link(net))
          /\ inbox' = IF session' THEN inbox ELSE <<>>
          /\ UNCHANGED retry
  /\ StillOpened
  /\ UNCHANGED <<taskVars, busy, turned, idle, probed, net, gps, pageVars>>

\* The outcome of a switch, once the cellular data it asks for is up or given up.
\* WiFi is taken as it is.
Switched(n, m) ==
  IF m = "to_wifi" THEN [n EXCEPT !.transport = "wifi"]
  ELSE IF n.modem = "data" THEN [n EXCEPT !.transport = "lte"] ELSE n

\* mqtt transport: a connection over the other link is given up, and a pass of
\* Manager::loop follows.  Bringing up the data takes the time of a Command before it.
SwitchTransport(c, m) ==
  /\ Typed(c)
  /\ net' = Switched(net, m)
  /\ session' = (session /\ net' = net)
  /\ inbox' = IF session' THEN inbox ELSE <<>>
  /\ pc' = "poll" /\ caller' = c
  /\ StillOpened
  /\ UNCHANGED <<power, prepared, timeVars, gps, pageVars>>

ConsoleCommand(c) ==
  Command(c) \/ Publish(c) \/ \E m \in {"to_wifi", "to_lte"} : SwitchTransport(c, m)

\* No line is left at the WiFi console: pollMqtt.
PollMqtt ==
  /\ Ready("wifi")
  /\ pc' = "poll"
  /\ UNCHANGED <<power, prepared, caller, timeVars, linkVars, pageVars, opened>>

-----------------------------------------------------------------------------
(* handleRemotePowerState, once no line is left at the USB console.             *)

IdleTooLong == idle >= After

\* handleRemotePowerState, awake and idle for too long: loop() returns at once.
EnterStandby ==
  /\ Ready("usb") /\ power = "Awake" /\ IdleTooLong
  /\ power' = "EnteringStandby" /\ turned' = FALSE
  /\ UNCHANGED <<prepared, pc, caller, busy, idle, probed, retry, linkVars, pageVars, opened>>

\* Awake otherwise: the rest of loop(), the WiFi console first.
StayAwake ==
  /\ Ready("usb") /\ power = "Awake" /\ ~IdleTooLong
  /\ pc' = "wifi"
  /\ UNCHANGED <<power, prepared, caller, timeVars, linkVars, pageVars, opened>>

\* publishSleepState connects if it can, publishes, and polls once: the message it
\* gets is dropped.
PublishSleepState ==
  \/ /\ session
     /\ inbox' = IF inbox = <<>> THEN <<>> ELSE Tail(inbox)
     /\ UNCHANGED <<session, retry>>
  \/ /\ ~session /\ retry = 0
     /\ session' \in Tried(FALSE, Link(net))
     /\ \E q \in {Fresh(session', net)} : inbox' \in {q, IF q = <<>> THEN q ELSE Tail(q)}
     /\ retry' = Retry
  \/ ~session /\ retry > 0 /\ UNCHANGED <<session, inbox, retry>>

\* enterTimedStandby, up to the delay that follows "sleeping".
AnnounceSleep ==
  /\ Ready("usb") /\ power = "EnteringStandby"
  /\ PublishSleepState
  /\ pc' = "halt"
  /\ UNCHANGED <<power, prepared, caller, busy, turned, idle, probed, net, gps, pageVars,
                 opened>>

\* The rest of it, into the light sleep.
Sleep ==
  /\ Ready("halt")
  /\ Disconnected
  /\ gps' = FALSE
  /\ net' = [net EXCEPT !.wifi = FALSE, !.modem = "standby"]
  /\ pc' = "asleep" /\ busy' = WakeInterval
  /\ UNCHANGED <<power, prepared, caller, turned, idle, probed, pageVars, opened>>

\* (Mutant: the clock is read before the sleep.)
MutProbeStart == WakeInterval

\* The age of standbyProbeStartMs when it is set: the window starts at the wake-up,
\* before the networks are brought up.
ProbeStart == 0

\* (Mutant: the networks count as prepared by the last probe.)
MutWake ==
  /\ Ready("asleep")
  /\ probed' = ProbeStart
  /\ power' = "StandbyProbe"
  /\ pc' = "usb" /\ turned' = FALSE
  /\ UNCHANGED <<prepared, caller, busy, idle, retry, linkVars, pageVars, opened>>

Wake ==
  /\ Ready("asleep")
  /\ probed' = ProbeStart
  /\ prepared' = FALSE /\ power' = "StandbyProbe"
  /\ pc' = "usb" /\ turned' = FALSE
  /\ UNCHANGED <<caller, busy, idle, retry, linkVars, pageVars, opened>>

\* prepareNetworksForStandbyProbe, which blocks until the network is up or given up.
PrepareNetworks ==
  /\ Ready("usb") /\ power = "StandbyProbe" /\ ~prepared
  /\ net' \in ProbeNets(net)
  /\ Disconnected
  /\ prepared' = TRUE
  /\ busy' \in 0..MaxBringUp
  /\ pc' = "poll" /\ caller' = "probe"
  /\ UNCHANGED <<power, turned, idle, probed, gps, pageVars, opened>>

ProbeAgain ==
  /\ Ready("usb") /\ power = "StandbyProbe" /\ prepared
  /\ pc' = "poll" /\ caller' = "probe"
  /\ UNCHANGED <<power, prepared, timeVars, linkVars, pageVars, opened>>

\* Manager::loop connects first.
EnsureConnected ==
  /\ Ready("poll")
  /\ IF ~session /\ retry = 0 THEN Connected(net) ELSE UNCHANGED <<session, inbox, retry>>
  /\ pc' = "drain"
  /\ UNCHANGED <<power, prepared, caller, busy, turned, idle, probed, net, gps, pageVars,
                 opened>>

\* (Mutant: the timer is reset by a wake-up only.)
MutNoteActivity ==
  /\ idle' = IF power = "Awake" THEN idle ELSE 0
  /\ power' = "Awake"
  /\ prepared' = IF power = "Awake" THEN prepared ELSE FALSE

\* noteRemoteActivity: the timer, and if the device was not awake, its peripherals.
NoteActivity ==
  /\ idle' = 0
  /\ power' = "Awake"
  /\ prepared' = IF power = "Awake" THEN prepared ELSE FALSE

Peripherals == IF power = "Awake" THEN {net} ELSE Restored(net)

Receivers == IF power = "Awake" THEN {gps} ELSE {gps \/ GpsAutostart}

\* The time a handler takes: what it brings up itself, after the peripherals if it woke
\* the device.
Blocks(own) == busy' \in 0..(own + IF power = "Awake" THEN 0 ELSE MaxBringUp)

Taken(m) ==
  /\ Ready("drain") /\ session /\ inbox # <<>> /\ Head(inbox) = m
  /\ NoteActivity
  /\ UNCHANGED <<caller, turned, probed, retry, pageVars, opened>>

\* The answer shows whether the link holds.
Answered ==
  /\ session' = Link(net')
  /\ inbox' = IF session' THEN Tail(inbox) ELSE <<>>

\* console/cmd, fs/jobs, fs/data, ota/jobs.
HandleCommand ==
  /\ Taken("command")
  /\ \E n \in Peripherals : net' \in {[n EXCEPT !.modem = s] : s \in {n.modem, "on", "data"}}
  /\ gps' \in Receivers \cup BOOLEAN
  /\ Blocks(MaxCommand)
  /\ Answered
  /\ UNCHANGED pc

\* rdm/alive/request: the reply may first try to bring LTE data up.
HandleAlive ==
  /\ Taken("alive")
  /\ \E n \in Peripherals : net' \in {n} \cup WithData(n)
  /\ gps' \in Receivers
  /\ Blocks(MaxBringUp)
  /\ Answered
  /\ UNCHANGED pc

\* rdm/transport/set: the cellular data of a switch to LTE is brought up first, while
\* the connection goes on receiving.
HandleTransportSet(m) ==
  /\ Taken(m)
  /\ \E n \in Peripherals : net' \in IF m = "to_lte" THEN WithData(n) ELSE {n}
  /\ gps' \in Receivers
  /\ Blocks(IF m = "to_lte" THEN MaxBringUp ELSE 0)
  /\ pc' = m
  /\ inbox' = Tail(inbox) /\ UNCHANGED session

\* It disconnects, whatever the outcome, and connects to answer.
TransportSet(m) ==
  /\ Ready(m)
  /\ net' = Switched(net, m)
  /\ Connected(net')
  /\ pc' = "drain"
  /\ UNCHANGED <<power, prepared, caller, busy, turned, idle, probed, gps, pageVars, opened>>

HandleMessage ==
  \/ HandleCommand \/ HandleAlive
  \/ \E m \in {"to_wifi", "to_lte"} : HandleTransportSet(m) \/ TransportSet(m)

\* verifyIncomingAuth fails before the activity is noted.
RejectMessage ==
  /\ Ready("drain") /\ inbox # <<>> /\ session
  /\ Head(inbox) = "unsigned"
  /\ inbox' = Tail(inbox)
  /\ UNCHANGED <<taskVars, timeVars, net, gps, session, pageVars, opened>>

\* (Mutant: the probe never ends.)
MutWindowOver == FALSE

WindowOver == probed >= Window

\* The pass ends when poll finds no message; an acknowledgement counts as none.
\* The telemetry that follows shows a broken link (bound: its interval is no longer
\* than a unit).
Drained ==
  /\ Ready("drain")
  /\ ~(session /\ inbox # <<>> /\ Head(inbox) # "suback")
  /\ session' = (session /\ Link(net))
  /\ inbox' = IF session' /\ inbox # <<>> THEN Tail(inbox) ELSE <<>>
  /\ pc' = IF caller \in {"usb", "wifi"} THEN caller
           ELSE IF caller = "probe" /\ power = "Awake" THEN "greet" ELSE "usb"
  /\ caller' = IF pc' = "greet" THEN caller ELSE "loop"
  /\ power' = IF caller = "probe" /\ power = "StandbyProbe" /\ WindowOver
                THEN "EnteringStandby" ELSE power
  /\ turned' = (turned \/ caller \in {"loop", "probe"})
  /\ UNCHANGED <<prepared, busy, idle, probed, retry, net, gps, pageVars, opened>>

\* The probe woke the device: handleRemotePowerState publishes "awake".
AnnounceAwake ==
  /\ Ready("greet")
  /\ PublishSleepState
  /\ pc' = "usb" /\ caller' = "loop"
  /\ UNCHANGED <<power, prepared, busy, turned, idle, probed, net, gps, pageVars,
                 opened>>

HandlePowerState ==
  EnterStandby \/ StayAwake \/ AnnounceSleep \/ PrepareNetworks \/ ProbeAgain

LoopTask ==
  \/ (\E c \in Consoles : ConsoleCommand(c)) \/ PollMqtt
  \/ HandlePowerState \/ Sleep \/ Wake
  \/ EnsureConnected \/ HandleMessage \/ RejectMessage \/ Drained \/ AnnounceAwake

-----------------------------------------------------------------------------
(* Time. *)

Up(n, bound) == IF n < bound THEN n + 1 ELSE bound
Down(n) == IF n > 0 THEN n - 1 ELSE 0

Linked == session /\ net.transport = "wifi"

\* Nothing is left to do in this unit: the task is blocked, or it has run a pass and
\* found every message, and the page has sent what was due.
Tick ==
  /\ busy > 0 \/ (pc = "usb" /\ turned /\ inbox = <<>>)
  /\ page => nextAlive > 0
  /\ busy' = Down(busy) /\ turned' = FALSE
  /\ idle' = Up(idle, After) /\ probed' = Up(probed, Window) /\ retry' = Down(retry)
  /\ nextAlive' = Down(nextAlive)
  /\ opened' = IF page /\ Linked /\ busy = 0 THEN Up(opened, Period + 1) ELSE 0
  /\ UNCHANGED <<taskVars, linkVars, page>>

-----------------------------------------------------------------------------

Controllers == OpenPage \/ ClosePage \/ SendAlive \/ (\E m \in Message : SendMessage(m))

Next == Controllers \/ LoseLink \/ LoopTask \/ Tick

Spec == Init /\ [][Next]_vars

\* The Arduino loop keeps turning, time passes, the page's timer fires, and whoever types
\* at a console leaves it without a line again and again.
FairSpec ==
  /\ Spec
  /\ WF_vars(LoopTask) /\ SF_vars(Tick) /\ WF_vars(SendAlive)
  /\ SF_vars(HandlePowerState) /\ SF_vars(PollMqtt)

-----------------------------------------------------------------------------
(* Properties. *)

\* Every variable has its type; the clocks stay within the bounds they are read
\* against (handleRemotePowerState).
TypeOK ==
  /\ power \in {"Awake", "EnteringStandby", "StandbyProbe"}
  /\ pc \in {"usb", "wifi", "poll", "drain", "to_wifi", "to_lte", "greet", "halt", "asleep"}
  /\ caller \in {"loop", "probe", "usb", "wifi"}
  /\ prepared \in BOOLEAN /\ turned \in BOOLEAN
  /\ busy \in Nat /\ idle \in 0..After /\ probed \in 0..Window /\ retry \in 0..Retry
  /\ net \in Net /\ gps \in BOOLEAN /\ session \in BOOLEAN
  /\ inbox \in Seq(Signed \cup {"unsigned", "suback"})
  /\ page \in BOOLEAN /\ nextAlive \in 0..Period
  /\ opened \in 0..(Period + 1)

\* Whichever way the device came back from standby, and whatever link it uses, an
\* awake device has its modem out of standby; asleep it has no session and nothing
\* powered (noteRemoteActivity, restoreAwakePeripherals, enterTimedStandby).
AwakeIsRestored ==
  /\ power = "Awake" => net.modem # "standby"
  /\ pc = "asleep" =>
       ~session /\ ~gps /\ ~net.wifi /\ net.modem = "standby" /\ power = "EnteringStandby"

\* Nothing but a blocked task makes a connected device fall asleep before an open page:
\* commands and networks brought up may take longer than the idle time, which is tested
\* before what arrived meanwhile is read (handleRemotePowerState), but once the task has
\* run freely for longer than the interval of the page's requests, with acknowledgements,
\* other messages, rejected ones and nested passes in between, it has noted one
\* (Manager::loop, noteRemoteActivity).
OpenPageKeepsAwake ==
  [][power = "Awake" /\ power' = "EnteringStandby" => opened <= Period]_vars

\* A transport switch leaves the device with a connection when the networks are there.
SwitchKeepsControl ==
  [][\A m \in {"to_wifi", "to_lte"} : TransportSet(m) => session']_vars

\* What a network or the broker may do to the device: break its connection, not be
\* there for a probe (prepareNetworksForStandbyProbe), or refuse a connection
\* (ensureConnected).
NetworkFails ==
  \/ LoseLink
  \/ PrepareNetworks /\ ~Link(net')
  \/ EnsureConnected /\ retry' > retry /\ Link(net) /\ ~session'

\* A device nobody uses sleeps again and again: neither a failed probe, a failed
\* wake-up nor what is typed at its consoles leaves it awake and draining its battery.
UnusedDeviceSleeps ==
  <>[]~page /\ <>[][~\E m \in Message : SendMessage(m)]_vars => []<>(pc = "asleep")

\* Once its networks stop failing the device is connected again and again, whatever was
\* switched, lost or commanded before: the standby cycle repairs what a switch broke
\* (enterTimedStandby, prepareNetworksForStandbyProbe).
ControlRegained == <>[][~NetworkFails]_vars => []<>session

\* A page that stays open wakes a sleeping device.
OpenPageWakes == (page /\ power # "Awake") ~> (~page \/ power = "Awake")

=============================================================================
