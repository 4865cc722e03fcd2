-------------------------------- MODULE Session --------------------------------
(***************************************************************************)
(* The device's MQTT session: Manager::loop and ensureConnected over the   *)
(* switchable transport, the broker's view of the session, the retained    *)
(* rdm/state, the standby cycle that tears the session down and builds it  *)
(* again, and the commands of the USB and WiFi consoles, which run between *)
(* the passes of Manager::loop.                                            *)
(*                                                                         *)
(* The clock is millis(), which wraps: nextReconnectMs_ is compared with   *)
(* it as an absolute time.  The other timers are differences of two        *)
(* readings, and are kept as ages.  Who brings the links up is modelled by *)
(* Standby; here a network is reachable or not.                            *)
(***************************************************************************)
EXTENDS Integers, Sequences

CONSTANTS
  Wrap,            \* millis() runs modulo Wrap
  ReconnectEvery,  \* MQTT_RECONNECT_INTERVAL_MS
  TelemetryEvery,  \* TELEMETRY_INTERVAL_MS
  StateEvery,      \* STATE_INTERVAL_MS
  KeepAlive,       \* silence after which the broker drops a session
  After,           \* RDM_STANDBY_AFTER_MS
  WakeInterval,    \* RDM_STANDBY_WAKE_INTERVAL_MS
  Window,          \* RDM_STANDBY_PROBE_WINDOW_MS
  MaxBlock,        \* longest command, or bring-up of a network
  Topics,          \* the topics in the order they are subscribed to; the last one is
                   \* rdm/transport/set, another one stands for those of the commands
  MaxTrouble,      \* bound: times a network or the modem fails
  MaxDepth         \* bound: passes of Manager::loop within one another

Transports == {"wifi", "lte"}
Topic == {Topics[i] : i \in 1..Len(Topics)}
TransportTopic == Topics[Len(Topics)]

ASSUME TimeAssumption ==
  /\ {ReconnectEvery, TelemetryEvery, StateEvery, KeepAlive, After, WakeInterval, Window}
       \subseteq Nat \ {0}
  /\ {MaxBlock, MaxTrouble, MaxDepth} \subseteq Nat
  /\ Wrap \in Nat /\ ReconnectEvery < Wrap
ASSUME TopicAssumption == Topics \in Seq(STRING) /\ Topics # <<>>

VARIABLES
  now,     \* millis()
  link,    \* the transport, the manager and the broker, see Link
  reach,   \* reach[t]: a connection over t finds the broker
  power,   \* "awake", "entering" standby, "asleep", "probe", "prepared" once the networks
           \* of the probe are, or "woken" by its message
  pc,      \* where the loop task stands
  caller,  \* who called the outermost pass of Manager::loop: loop() or one of its
           \* consoles
  depth,   \* passes of Manager::loop around this one
  busy,    \* units until the blocking call the task is in returns
  turned,  \* a whole pass was made in this unit
  taken,   \* a message was taken in this unit
  idle, probed, telemetry, state,  \* ages of lastRemoteActivityMs,
           \* standbyProbeStartMs, nextTelemetryMs_, nextStateMs_
  deaf     \* history: units a topic has been missing though the broker was there, no
           \* message came through, nothing failed and no local command ran

clocks == <<idle, probed, telemetry, state>>
task == <<caller, depth, turned, taken>>
vars == <<now, link, reach, power, pc, busy, task, clocks, deaf>>

-----------------------------------------------------------------------------
(* The connection. *)

Link == [over : Transports,         \* active_
         on : BOOLEAN,              \* what connected() answers
         live : BOOLEAN,            \* the broker has a session of the device
         heard : SUBSET Topic,      \* the topics that session is subscribed to
         subscribed : BOOLEAN,      \* subscribed_
         next : 0..(Wrap - 1),      \* nextReconnectMs_
         told : {"awake", "sleeping"},  \* sleep_state of the retained rdm/state
         silent : Nat,              \* units since the broker heard from the session
         typed : Nat,               \* history: those that local commands took
         trouble : 0..MaxTrouble]   \* bound: failures so far

Failed(l) == IF l.trouble < MaxTrouble THEN {[l EXCEPT !.trouble = @ + 1]} ELSE {}

\* The broker has no session of the device any more.
Lost(l) == [l EXCEPT !.live = FALSE, !.heard = {}, !.silent = 0, !.typed = 0]

Off(l) == [Lost(l) EXCEPT !.on = FALSE]

\* (Mutant: the time of the next attempt is left.)
MutReconnectNow(l) == [Off(l) EXCEPT !.subscribed = FALSE]

\* Manager::reconnectNow.
ReconnectNow(l) == [Off(l) EXCEPT !.subscribed = FALSE, !.next = 0]

\* One or more publications; those of rdm/state tell s.  A socket takes them without an
\* answer, but a broker that does not know it resets it; on LTE the modem's answer is
\* all the transport knows of its connection.
Publish(l, s) ==
  IF l.live /\ l.over = "wifi" THEN {IF l.on THEN [l EXCEPT !.silent = 0, !.typed = 0, !.told = s] ELSE l}
  ELSE IF l.live
    THEN {[l EXCEPT !.on = TRUE, !.told = s]}
           \cup {[f EXCEPT !.on = FALSE] : f \in Failed(l) \cup Failed([l EXCEPT !.told = s])}
  ELSE {[l EXCEPT !.on = FALSE]} \cup IF l.over = "wifi" /\ ~reach["wifi"] THEN {l} ELSE {}

\* subscribeTopics, whose six outcomes nobody looks at; on LTE the last one is what
\* connected() answers.
Subscribe(l) ==
  LET done == [l EXCEPT !.subscribed = TRUE]
  IN  IF ~l.live THEN {[done EXCEPT !.on = (l.over = "wifi")]}
      ELSE {[done EXCEPT !.heard = Topic]}
             \cup IF l.over = "wifi" THEN {}
                  ELSE {[f EXCEPT !.on = TransportTopic \in f.heard] :
                          f \in UNION {Failed([done EXCEPT !.heard = h]) : h \in SUBSET Topic}}

\* A connection attempt that fails: a socket is closed first, but a session the modem
\* still has may outlive it.
Refused(l) == {Off(l)} \cup IF l.over = "wifi" THEN {} ELSE {[l EXCEPT !.on = FALSE]}

\* (Mutant: the time of the next attempt is computed wider than millis() is.)
MutAttempt(l) == [l EXCEPT !.next = now + ReconnectEvery, !.subscribed = FALSE]

Attempt(l) == [l EXCEPT !.next = (now + ReconnectEvery) % Wrap, !.subscribed = FALSE]

\* ensureConnected: what it leaves, and whether it says the device is connected.
Ensured(l) ==
  IF l.on THEN [ok : {TRUE}, link : IF l.subscribed THEN {l} ELSE Subscribe(l)]
  ELSE IF now < l.next THEN {[ok |-> FALSE, link |-> l]}
  ELSE LET a == Attempt(l)
           failed == IF reach[l.over] THEN Failed(a) ELSE {a}
           new == [Off(a) EXCEPT !.on = TRUE, !.live = TRUE]
       IN  [ok : {FALSE}, link : UNION {Refused(f) : f \in failed}]
             \cup [ok : {TRUE}, link : IF reach[l.over] THEN Subscribe(new) ELSE {}]

\* What is published after ensureConnected: publishTelemetry and publishAlive leave the
\* told state alone, publishState and publishSleepState tell s.
Report(l, s) == UNION {IF e.ok THEN Publish(e.link, s) ELSE {e.link} : e \in Ensured(l)}

\* setMode: the transport that is left is disconnected.  For LTE the data connection
\* comes first, and the switch is off if it fails.
SetMode(l, t) ==
  IF t = l.over THEN {l}
  ELSE {[Off(l) EXCEPT !.over = t]} \cup IF t = "lte" /\ ~reach[t] THEN {l} ELSE {}

\* setup, up to Manager::begin; the retained state is of an earlier run.
Init ==
  /\ now = 0
  /\ link \in [over : Transports, on : {FALSE}, live : {FALSE}, heard : {{}},
               subscribed : {FALSE}, next : {0}, told : {"awake", "sleeping"},
               silent : {0}, typed : {0}, trouble : {0}]
  /\ reach = [t \in Transports |-> TRUE]
  /\ power = "awake"
  /\ pc = "usb" /\ caller = "loop" /\ depth = 0
  /\ busy = 0 /\ turned = FALSE /\ taken = FALSE
  /\ idle = 0 /\ probed = 0 /\ telemetry = 0 /\ state = StateEvery
  /\ deaf = 0

-----------------------------------------------------------------------------
(* The networks and the broker. *)

Hears == link.live /\ link.heard = Topic /\ (link.over = "wifi" => link.on)

\* A failure starts the count of deaf units again, as does a connection that is whole.
Forgiven == deaf' = IF link'.trouble # link.trouble \/ Hears' THEN 0 ELSE deaf

NetworkDown(t) ==
  /\ reach[t]
  /\ \E f \in Failed(link) : link' = IF t = link.over THEN Lost(f) ELSE f
  /\ reach' = [reach EXCEPT ![t] = FALSE]
  /\ Forgiven
  /\ UNCHANGED <<now, power, pc, busy, task, clocks>>

NetworkUp(t) ==
  /\ ~reach[t]
  /\ reach' = [reach EXCEPT ![t] = TRUE]
  /\ UNCHANGED <<now, link, power, pc, busy, task, clocks, deaf>>

\* The broker restarts, or the session is lost for another reason.
SessionLost ==
  /\ link.live
  /\ \E f \in Failed(link) : link' = Lost(f)
  /\ Forgiven
  /\ UNCHANGED <<now, reach, power, pc, busy, task, clocks>>

\* The socket of a lost session is found closed (WiFiMqttTransport::connected).
SocketCloses ==
  /\ link.over = "wifi" /\ link.on /\ ~link.live
  /\ link' = [link EXCEPT !.on = FALSE]
  /\ UNCHANGED <<now, reach, power, pc, busy, task, clocks, deaf>>

-----------------------------------------------------------------------------
(* The consoles.  pollStreamConsole runs every line that has arrived, each to   *)
(* its end: USB's at the start of loop(), in every power state, WiFi's before   *)
(* pollMqtt.                                                                    *)

Ready(p) == pc = p /\ busy = 0

Console == {"usb", "wifi"}

\* A command that blocks, and leaves the session alone.
LocalCommand(c) ==
  /\ Ready(c)
  /\ busy' \in 1..MaxBlock
  /\ UNCHANGED <<now, link, reach, power, pc, task, clocks, deaf>>

\* mqtt publish.
LocalPublish(c) ==
  /\ Ready(c)
  /\ link' \in Report(link, link.told)
  /\ Forgiven
  /\ UNCHANGED <<now, reach, power, pc, busy, task, clocks>>

\* mqtt transport <t>: a pass of Manager::loop of its own.  The cellular data it brings up
\* takes the time of a LocalCommand before it.
LocalSwitch(c, t) ==
  /\ Ready(c)
  /\ link' \in SetMode(link, t)
  /\ pc' = "connect" /\ caller' = c
  /\ deaf' = IF link'.over = link.over THEN deaf ELSE 0
  /\ UNCHANGED <<now, reach, power, busy, depth, turned, taken, clocks>>

\* The WiFi console has no line left.
PollMqtt ==
  /\ Ready("wifi")
  /\ pc' = "connect"
  /\ UNCHANGED <<now, link, reach, power, busy, task, clocks, deaf>>

Local(c) == LocalCommand(c) \/ LocalPublish(c) \/ \E t \in Transports : LocalSwitch(c, t)

-----------------------------------------------------------------------------
(* Manager::loop, which pollMqtt, a probe and the console command call. *)

EnsureConnected ==
  /\ Ready("connect")
  /\ \E e \in Ensured(link) : link' = e.link
  /\ pc' = "drain"
  /\ Forgiven
  /\ UNCHANGED <<now, reach, power, busy, task, clocks>>

\* Of the messages, one on the topic of the transport, a command, or the command that
\* switches the transport.
Handlers(t) ==
  IF t = TransportTopic THEN {"transport_set"}
  ELSE {"answer"} \cup IF depth < MaxDepth THEN {"mqtt_transport"} ELSE {}

\* noteRemoteActivity; the probe's own pass ends with the state "awake".
Woken == IF power = "prepared" /\ caller = "loop" THEN "woken"
         ELSE IF power = "woken" THEN "woken" ELSE "awake"

\* A message on topic t is polled and authenticated (bound: one a unit); waking the
\* peripherals, and what it asks for, may block.  The modem is polled whatever the
\* transport says of the connection.
HandleMessage(t) ==
  /\ Ready("drain") /\ ~taken
  /\ link.live /\ t \in link.heard /\ (link.over = "wifi" => link.on)
  /\ pc' \in Handlers(t)
  /\ busy' \in 0..MaxBlock
  /\ power' = Woken
  /\ taken' = TRUE /\ idle' = 0 /\ deaf' = 0
  /\ UNCHANGED <<now, link, reach, caller, depth, turned, probed, telemetry, state>>

\* mqtt transport <t>: another pass of Manager::loop, before the command's own output.
ConsoleSwitch(t) ==
  /\ Ready("mqtt_transport")
  /\ link' \in SetMode(link, t)
  /\ pc' = "connect" /\ depth' = depth + 1
  /\ UNCHANGED <<now, reach, power, busy, caller, turned, taken, clocks, deaf>>

\* handleTransportSet: disconnected whatever setMode did, and connected to answer.
TransportSet(t) ==
  /\ Ready("transport_set")
  /\ \E l \in SetMode(link, t) : link' \in Report(ReconnectNow(l), link.told)
  /\ pc' = "drain"
  /\ Forgiven
  /\ UNCHANGED <<now, reach, power, busy, task, clocks>>

\* publishConsoleOutput does not look at the connection, publishAlive does.
Answer ==
  /\ Ready("answer")
  /\ link' \in Publish(link, link.told) \cup Report(link, link.told)
  /\ pc' = "drain"
  /\ Forgiven
  /\ UNCHANGED <<now, reach, power, busy, task, clocks>>

\* (Mutant: telemetry at the interval of the state.)
MutTelemetryDue == telemetry >= TelemetryEvery /\ state >= StateEvery

TelemetryDue == telemetry >= TelemetryEvery

\* (Mutant: the state is an else of the telemetry, and its timer runs on.)
MutStateDue == state >= StateEvery /\ ~TelemetryDue

StateDue == state >= StateEvery

\* Where the task goes on after a pass of Manager::loop.
Returns ==
  IF depth > 0 THEN "answer"
  ELSE IF caller # "loop" THEN caller
  ELSE IF power = "awake" THEN "usb" ELSE "probed"

\* The pass ends, when poll finds no message, with telemetry and state, each at its
\* interval; their timers start again whether or not anything was published.
Reports ==
  /\ Ready("drain")
  /\ \E l \in IF TelemetryDue THEN Report(link, link.told) ELSE {link} :
       link' \in IF StateDue THEN Report(l, "awake") ELSE {l}
  /\ telemetry' = IF TelemetryDue THEN 0 ELSE telemetry
  /\ state' = IF StateDue THEN 0 ELSE state
  /\ pc' = Returns
  /\ depth' = IF depth > 0 THEN depth - 1 ELSE 0
  /\ caller' = IF depth > 0 THEN caller ELSE "loop"
  /\ turned' = (turned \/ (Returns = "usb" /\ caller = "loop"))
  /\ Forgiven
  /\ UNCHANGED <<now, reach, power, busy, taken, idle, probed>>

-----------------------------------------------------------------------------
(* handleRemotePowerState, once the USB console has no line left; see module    *)
(* Standby.                                                                     *)

StayAwake ==
  /\ Ready("usb") /\ power = "awake" /\ idle < After
  /\ pc' = "wifi"
  /\ UNCHANGED <<now, link, reach, power, busy, task, clocks, deaf>>

\* The next pass of loop(), which comes at once, begins with the USB console again.
EnterStandby ==
  /\ Ready("usb") /\ power = "awake" /\ idle >= After
  /\ power' = "entering" /\ turned' = FALSE
  /\ UNCHANGED <<now, link, reach, pc, busy, caller, depth, taken, clocks, deaf>>

\* enterTimedStandby.
FallAsleep ==
  /\ Ready("usb") /\ power = "entering"
  /\ \E l \in Report(link, "sleeping") : link' = ReconnectNow(l)
  /\ power' = "asleep" /\ pc' = "asleep" /\ busy' = WakeInterval
  /\ Forgiven
  /\ UNCHANGED <<now, reach, task, clocks>>

Wake ==
  /\ Ready("asleep")
  /\ power' = "probe" /\ probed' = 0
  /\ pc' = "usb"
  /\ UNCHANGED <<now, link, reach, busy, caller, depth, turned, taken, idle, telemetry, state, deaf>>

\* prepareNetworksForStandbyProbe: the networks are brought up, and the probe connects
\* from the start.
Prepare ==
  /\ Ready("usb") /\ power = "probe"
  /\ power' = "prepared"
  /\ link' = ReconnectNow(link)
  /\ busy' \in 0..MaxBlock
  /\ pc' = "connect"
  /\ UNCHANGED <<now, reach, task, clocks, deaf>>

Probe ==
  /\ Ready("usb") /\ power = "prepared"
  /\ pc' = "connect"
  /\ UNCHANGED <<now, link, reach, power, busy, task, clocks, deaf>>

\* A probe that brought a message ends with the state "awake", one whose window is over
\* with the next sleep.
ProbeEnds ==
  /\ Ready("probed")
  /\ link' \in IF power = "woken" THEN Report(link, "awake") ELSE {link}
  /\ power' = IF power = "woken" THEN "awake"
              ELSE IF probed >= Window THEN "entering" ELSE "prepared"
  /\ pc' = "usb" /\ turned' = (power' # "entering")
  /\ Forgiven
  /\ UNCHANGED <<now, reach, busy, caller, depth, taken, clocks>>

HandlePowerState == StayAwake \/ EnterStandby \/ FallAsleep \/ Prepare \/ Probe

LoopTask ==
  \/ (\E c \in Console : Local(c)) \/ PollMqtt
  \/ EnsureConnected \/ (\E t \in Topic : HandleMessage(t))
  \/ (\E t \in Transports : ConsoleSwitch(t) \/ TransportSet(t))
  \/ Answer \/ Reports \/ HandlePowerState \/ Wake \/ ProbeEnds

-----------------------------------------------------------------------------
(* Time. *)

Up(n, bound) == IF n < bound THEN n + 1 ELSE bound

\* The task is in a command of a local console.
Typing == pc \in Console /\ busy > 0

\* A unit in which the session over WiFi is silent; the modem pings by itself.
Aged(l) ==
  IF ~(l.live /\ l.over = "wifi") THEN l
  ELSE [(IF l.silent < KeepAlive THEN l ELSE Lost(l)) EXCEPT
          !.silent = l.silent + 1, !.typed = IF Typing THEN l.typed + 1 ELSE l.typed]

Tick ==
  /\ busy > 0 \/ (turned /\ pc = "usb")
  /\ now' = (now + 1) % Wrap
  /\ link' = Aged(link)
  /\ busy' = IF busy > 0 THEN busy - 1 ELSE 0
  /\ turned' = FALSE /\ taken' = FALSE
  /\ idle' = Up(idle, After) /\ probed' = Up(probed, Window)
  /\ telemetry' = Up(telemetry, TelemetryEvery) /\ state' = Up(state, StateEvery)
  /\ deaf' = IF Hears \/ ~reach[link.over] THEN 0 ELSE IF Typing THEN deaf ELSE deaf + 1
  /\ UNCHANGED <<reach, power, pc, caller, depth>>

-----------------------------------------------------------------------------

Next ==
  \/ (\E t \in Transports : NetworkDown(t) \/ NetworkUp(t))
  \/ SessionLost \/ SocketCloses
  \/ LoopTask \/ Tick

Spec == Init /\ [][Next]_vars

\* The Arduino loop keeps turning and finds no message waiting again and again, time
\* passes, networks come back, and the stack closes a socket whose peer is gone.
FairSpec ==
  /\ Spec
  /\ WF_vars(LoopTask) /\ SF_vars(Reports) /\ SF_vars(Tick)
  /\ (\A t \in Transports : WF_vars(NetworkUp(t))) /\ WF_vars(SocketCloses)

-----------------------------------------------------------------------------
(* Properties. *)

\* Every variable has its type.
TypeOK ==
  /\ now \in 0..(Wrap - 1) /\ link \in Link /\ reach \in [Transports -> BOOLEAN]
  /\ power \in {"awake", "entering", "asleep", "probe", "prepared", "woken"}
  /\ pc \in Console \cup {"connect", "drain", "answer", "mqtt_transport", "transport_set",
                          "probed", "asleep"}
  /\ caller \in Console \cup {"loop"} /\ depth \in 0..MaxDepth
  /\ busy \in Nat /\ turned \in BOOLEAN /\ taken \in BOOLEAN
  /\ idle \in 0..After /\ probed \in 0..Window
  /\ telemetry \in 0..TelemetryEvery /\ state \in 0..StateEvery
  /\ deaf \in Nat

\* Whatever left the device without one of its topics, while its broker was there and it
\* took no message - a failed subscription that counts as made, a lost session the
\* modem is still thought to have, a switch of the transport, or the wrap of the clock
\* the next attempt is compared with - one idle time and one sleep later it hears them
\* all again, after the networks have been brought up: standby repairs what ensureConnected
\* does not (Manager::reconnectNow).  The idle time is the longest of the ways in which
\* a sleep begins: idle, after a probe in vain, or a pass after a command that blocked.
\* Commands typed at the USB or WiFi console hold all of this up for as long as they
\* run, which nothing bounds (pollStreamConsole); their time is not counted.
HearsAgainInTime ==
  \E idling \in {After, Window, MaxBlock + 1} : deaf <= idling + WakeInterval + MaxBlock

\* The device announces a keepalive of 30 s over WiFi and never sends a ping: what keeps
\* its session is that it always publishes telemetry as soon as the commands of a pass,
\* and those of the pass within it, have returned (WiFiMqttTransport::connect,
\* Manager::loop).  Only commands typed at the USB or WiFi console keep it silent for
\* longer, by the time they take (pollStreamConsole).
SessionIsFed == link.silent <= TelemetryEvery + MaxBlock * (MaxDepth + 1) + link.typed

\* Although a report restarts its timer when nothing was published, and a probe tells
\* "awake" of a device about to sleep, the retained rdm/state comes to say what the
\* device does, unless the transport is switched or commands are typed at the consoles
\* again and again (publishState, publishSleepState).
StateIsTold ==
  <>[][(\A t \in Transports : ~ConsoleSwitch(t)) /\ \A c \in Console : ~Local(c)]_vars =>
    /\ power = "asleep" /\ link.told = "awake"
         ~> power \in {"awake", "woken"} \/ link.told = "sleeping"
    /\ power = "awake" /\ link.told = "sleeping"
         ~> power # "awake" \/ link.told = "awake"

=============================================================================
