----------------------------- MODULE StandbyProofs -----------------------------
(***************************************************************************)
(* TLAPS proofs about Standby, for every choice of intervals, bring-up and *)
(* command times, transports and messages.                                 *)
(***************************************************************************)
EXTENDS Standby, TLAPS

\* The modem is put into standby on the way to sleep only.
HaltInv == pc = "halt" => power = "EnteringStandby"

\* The inductive invariant.
IInv == TypeOK /\ AwakeIsRestored /\ HaltInv

Kind == Signed \cup {"unsigned", "suback"}

LEMMA Constants ==
  /\ After \in Nat /\ WakeInterval \in Nat /\ Window \in Nat /\ Retry \in Nat /\ Period \in Nat
  /\ MaxBringUp \in Nat /\ MaxCommand \in Nat /\ Topics \in Nat
  /\ Consoles \subseteq {"usb", "wifi"}
  /\ GpsAutostart \in BOOLEAN /\ Message \subseteq Signed \cup {"unsigned"}
  BY TimeAssumption, KindAssumption

\* What the operations on the links return.
LEMMA TriedIn ==
  ASSUME NEW S, NEW a \in S, NEW b \in S
  PROVE  Tried(a, b) \subseteq S
  BY DEF Tried

LEMMA Links ==
  ASSUME NEW n \in Net
  PROVE  /\ WithWifi(n) \subseteq Net /\ WithData(n) \subseteq Net
         /\ ModemAwake(n) \in Net /\ ModemAwake(n).modem # "standby"
         /\ ProbeNets(n) \subseteq Net /\ Restored(n) \subseteq Net
         /\ Link(n) \in BOOLEAN
<1>1. [n EXCEPT !.wifi = TRUE] \in Net /\ [n EXCEPT !.modem = "data"] \in Net
  BY DEF Net
<1>2. ModemAwake(n) \in Net /\ ModemAwake(n).modem # "standby"
  BY DEF ModemAwake, Net
<1>3. \A x \in Net : WithWifi(x) \subseteq Net /\ WithData(x) \subseteq Net
  <2> SUFFICES ASSUME NEW x \in Net
               PROVE  WithWifi(x) \subseteq Net /\ WithData(x) \subseteq Net
    OBVIOUS
  <2>1. [x EXCEPT !.wifi = TRUE] \in Net /\ [x EXCEPT !.modem = "data"] \in Net
    BY DEF Net
  <2>2. QED
    BY <2>1, TriedIn DEF WithWifi, WithData
<1>4. Link(n) \in BOOLEAN
  BY DEF Link, Net
<1>5. QED
  BY <1>2, <1>3, <1>4 DEF ProbeNets, Restored

\* Switching WiFi on does not touch the modem, and data needs it on.
LEMMA LinksKeepModem ==
  ASSUME NEW n \in Net, n.modem # "standby"
  PROVE  /\ \A x \in WithWifi(n) : x.modem # "standby"
         /\ \A x \in WithData(n) : x.modem # "standby"
  BY DEF WithWifi, WithData, Tried, Net

LEMMA RestoredAwake ==
  ASSUME NEW n \in Net
  PROVE  \A x \in Restored(n) : x.modem # "standby"
  BY Links, LinksKeepModem DEF Restored

\* What the controllers put on a connection.
LEMMA ArrivedType ==
  ASSUME TypeOK, NEW m \in Kind, NEW q \in Arrived(m)
  PROVE  q \in Seq(Kind)
<1>1. inbox \in Seq(Kind) /\ Append(inbox, m) \in Seq(Kind)
  BY DEF TypeOK, Kind
<1>2. q \in {inbox, Append(inbox, m)}
  BY DEF Arrived
<1>3. QED
  BY <1>1, <1>2

LEMMA FreshType ==
  ASSUME NEW b, NEW n
  PROVE  Fresh(b, n) \in Seq(Kind)
<1> DEFINE k == IF b /\ n.transport = "wifi" THEN Topics ELSE 0
<1>1. k \in Nat /\ "suback" \in Kind
  BY Constants DEF Kind
<1>2. Fresh(b, n) = [i \in 1..k |-> "suback"]
  BY DEF Fresh
<1> HIDE DEF k
<1>3. [i \in 1..k |-> "suback"] \in Seq(Kind)
  BY <1>1
<1>4. QED
  BY <1>2, <1>3

LEMMA TailType ==
  ASSUME TypeOK, inbox # <<>>
  PROVE  Tail(inbox) \in Seq(Kind) /\ Head(inbox) \in Kind
  BY DEF TypeOK, Kind

LEMMA ConnectedType ==
  ASSUME NEW n \in Net, Connected(n)
  PROVE  session' \in BOOLEAN /\ inbox' \in Seq(Kind) /\ retry' \in 0..Retry
<1>1. session' \in BOOLEAN
  BY Links, TriedIn DEF Connected
<1>2. inbox' \in Seq(Kind)
  BY <1>1, FreshType DEF Connected
<1>3. retry' \in 0..Retry
  BY Constants DEF Connected
<1>4. QED
  BY <1>1, <1>2, <1>3

-----------------------------------------------------------------------------
(* The controllers, the network and time.                                   *)

\* A step that leaves the device alone, but for what waits on its connection.
LEMMA PageStep ==
  ASSUME IInv, UNCHANGED <<taskVars, timeVars, net, gps, session>>,
         inbox' \in Seq(Kind), page' \in BOOLEAN,
         nextAlive' \in 0..Period, opened' \in 0..(Period + 1)
  PROVE  IInv'
<1>1. TypeOK'
  BY DEF IInv, TypeOK, Kind, taskVars, timeVars
<1>2. AwakeIsRestored' /\ HaltInv'
  BY DEF IInv, AwakeIsRestored, HaltInv, taskVars
<1>3. QED
  BY <1>1, <1>2 DEF IInv

LEMMA ControllersStep == IInv /\ Controllers => IInv'
<1> SUFFICES ASSUME IInv, Controllers PROVE IInv'
  OBVIOUS
<1>1. /\ inbox \in Seq(Kind) /\ page \in BOOLEAN
      /\ nextAlive \in 0..Period /\ opened \in 0..(Period + 1)
  BY DEF IInv, TypeOK, Kind
<1>2. CASE OpenPage
  <2>1. page' \in BOOLEAN
    BY <1>2 DEF OpenPage
  <2>2. opened' \in 0..(Period + 1)
    BY <1>2, Constants DEF OpenPage
  <2>3. QED
    BY <1>1, <1>2, <2>1, <2>2, PageStep DEF OpenPage, linkVars
<1>3. CASE ClosePage
  <2>1. page' \in BOOLEAN
    BY <1>3 DEF ClosePage
  <2>2. opened' \in 0..(Period + 1)
    BY <1>3, Constants DEF ClosePage
  <2>3. QED
    BY <1>1, <1>3, <2>1, <2>2, PageStep DEF ClosePage, linkVars
<1>4. CASE SendAlive
  <2>1. inbox' \in Seq(Kind)
    BY <1>4, ArrivedType DEF SendAlive, IInv, Kind, Signed
  <2>2. nextAlive' \in 0..Period
    BY <1>4, Constants DEF SendAlive
  <2>3. QED
    BY <1>1, <1>4, <2>1, <2>2, PageStep DEF SendAlive
<1>5. ASSUME NEW m \in Message, SendMessage(m) PROVE IInv'
  <2>1. inbox' \in Seq(Kind)
    BY <1>5, ArrivedType, Constants DEF SendMessage, IInv, Kind
  <2>2. QED
    BY <1>1, <1>5, <2>1, PageStep DEF SendMessage, pageVars
<1>6. QED
  BY <1>2, <1>3, <1>4, <1>5 DEF Controllers

LEMMA LoseLinkStep == IInv /\ LoseLink => IInv'
<1> SUFFICES ASSUME IInv, LoseLink PROVE IInv'
  OBVIOUS
<1>1. net \in Net
  BY DEF IInv, TypeOK
<1>2. net' \in Net /\ net'.modem = net.modem
  BY <1>1 DEF LoseLink, Net
<1>3. pc # "asleep"
  BY DEF LoseLink, IInv, AwakeIsRestored
<1>4. session' \in BOOLEAN /\ inbox' \in Seq(Kind)
  <2>1. session' = FALSE
    BY DEF LoseLink
  <2>2. inbox' = <<>>
    BY DEF LoseLink
  <2>3. inbox' \in Seq(Kind)
    BY <2>2
  <2>4. QED
    BY <2>1, <2>3
<1>5. TypeOK'
  <2>1. opened' \in 0..(Period + 1)
    BY Constants DEF LoseLink
  <2>2. QED
    BY <1>2, <1>4, <2>1 DEF LoseLink, IInv, TypeOK, Kind, taskVars, timeVars, pageVars
<1>6. AwakeIsRestored' /\ HaltInv'
  BY <1>2, <1>3 DEF LoseLink, IInv, AwakeIsRestored, HaltInv, taskVars
<1>7. QED
  BY <1>5, <1>6 DEF IInv

LEMMA UpType ==
  ASSUME NEW b \in Nat, NEW n \in 0..b
  PROVE  Up(n, b) \in 0..b
  BY DEF Up

LEMMA DownType ==
  ASSUME NEW b \in Nat, NEW n \in 0..b
  PROVE  Down(n) \in 0..b
  BY DEF Down

LEMMA TickStep == IInv /\ Tick => IInv'
<1> SUFFICES ASSUME IInv, Tick PROVE IInv'
  OBVIOUS
<1>1. idle' \in 0..After /\ probed' \in 0..Window
  BY UpType, Constants DEF Tick, IInv, TypeOK
<1>2. retry' \in 0..Retry /\ nextAlive' \in 0..Period
  BY DownType, Constants DEF Tick, IInv, TypeOK
<1>3. opened' \in 0..(Period + 1)
  <2>1. opened \in 0..(Period + 1) /\ Period + 1 \in Nat
    BY Constants DEF IInv, TypeOK
  <2>2. Up(opened, Period + 1) \in 0..(Period + 1) /\ 0 \in 0..(Period + 1)
    BY <2>1, UpType
  <2>3. opened' \in {Up(opened, Period + 1), 0}
    BY DEF Tick
  <2>4. QED
    BY <2>2, <2>3
<1>4. busy' \in Nat /\ turned' \in BOOLEAN
  <2>1. busy \in Nat /\ Down(busy) \in Nat
    BY DEF IInv, TypeOK, Down
  <2>2. busy' = Down(busy) /\ turned' = FALSE
    BY DEF Tick
  <2>3. QED
    BY <2>1, <2>2
<1>5. TypeOK'
  BY <1>1, <1>2, <1>3, <1>4 DEF Tick, IInv, TypeOK, taskVars, linkVars
<1>6. AwakeIsRestored' /\ HaltInv'
  BY DEF Tick, IInv, AwakeIsRestored, HaltInv, taskVars, linkVars
<1>7. QED
  BY <1>5, <1>6 DEF IInv

-----------------------------------------------------------------------------
(* The loop task.                                                           *)

\* What publishSleepState leaves behind.
LEMMA PublishType ==
  ASSUME TypeOK, PublishSleepState
  PROVE  session' \in BOOLEAN /\ inbox' \in Seq(Kind) /\ retry' \in 0..Retry
<1>1. /\ session \in BOOLEAN /\ inbox \in Seq(Kind) /\ retry \in 0..Retry
      /\ Retry \in 0..Retry /\ net \in Net
  BY Constants DEF TypeOK, Kind
<1>2. CASE /\ session
           /\ inbox' = IF inbox = <<>> THEN <<>> ELSE Tail(inbox)
           /\ UNCHANGED <<session, retry>>
  <2>1. inbox' \in Seq(Kind)
    BY <1>1, <1>2, TailType
  <2>2. QED
    BY <1>1, <1>2, <2>1
<1>3. CASE /\ ~session /\ retry = 0
           /\ session' \in Tried(FALSE, Link(net))
           /\ \E q \in {Fresh(session', net)} : inbox' \in {q, IF q = <<>> THEN q ELSE Tail(q)}
           /\ retry' = Retry
  <2>1. Link(net) \in BOOLEAN /\ FALSE \in BOOLEAN
    BY <1>1, Links
  <2>2. session' \in BOOLEAN
    BY <1>3, <2>1, TriedIn
  <2>3. PICK q \in {Fresh(session', net)} : inbox' \in {q, IF q = <<>> THEN q ELSE Tail(q)}
    BY <1>3
  <2>4. q \in Seq(Kind)
    BY FreshType
  <2>5. inbox' \in Seq(Kind)
    BY <2>3, <2>4
  <2>6. QED
    BY <1>1, <1>3, <2>2, <2>5
<1>4. CASE ~session /\ retry > 0 /\ UNCHANGED <<session, inbox, retry>>
  BY <1>1, <1>4
<1>5. QED
  BY <1>2, <1>3, <1>4 DEF PublishSleepState

\* A step that leaves power and modem alone, and does not lead into standby.
LEMMA QuietStep ==
  ASSUME IInv, TypeOK', UNCHANGED <<power, net>>, pc' \notin {"halt", "asleep"}
  PROVE  IInv'
  BY DEF IInv, AwakeIsRestored, HaltInv

\* Commands leave the modem out of standby, and a switch leaves it alone.
LEMMA CommandStep == IInv /\ (\E c \in Consoles : Command(c)) => IInv'
<1> SUFFICES ASSUME IInv, NEW c \in Consoles, Command(c) PROVE IInv'
  OBVIOUS
<1>1. net \in Net /\ net' \in {[net EXCEPT !.modem = s] : s \in {net.modem, "on", "data"}}
  BY DEF Command, IInv, TypeOK
<1>2. net' \in Net /\ (net.modem # "standby" => net'.modem # "standby")
  BY <1>1 DEF Net
<1>3. busy' \in Nat /\ gps' \in BOOLEAN /\ pc \in {"usb", "wifi"}
  BY Constants DEF Command, Typed, Ready
<1>4. UNCHANGED <<power, prepared, pc, caller, turned, idle, probed, retry, session, inbox,
                  page, nextAlive, opened>>
  BY DEF Command, taskVars, pageVars
<1>5. TypeOK'
  BY <1>2, <1>3, <1>4 DEF IInv, TypeOK
<1>6. AwakeIsRestored' /\ HaltInv'
  BY <1>2, <1>3, <1>4 DEF IInv, AwakeIsRestored, HaltInv
<1>7. QED
  BY <1>5, <1>6 DEF IInv

\* A step that may give up what the page has been open.
LEMMA StillOpenedType ==
  ASSUME TypeOK, StillOpened
  PROVE  opened' \in 0..(Period + 1)
  BY Constants DEF TypeOK, StillOpened

LEMMA ConsolePublishStep == IInv /\ (\E c \in Consoles : Publish(c)) => IInv'
<1> SUFFICES ASSUME IInv, NEW c \in Consoles, Publish(c) PROVE IInv'
  OBVIOUS
<1>1. TypeOK /\ net \in Net /\ Link(net) \in BOOLEAN
  BY Links DEF IInv, TypeOK
<1>2. session' \in BOOLEAN /\ inbox' \in Seq(Kind) /\ retry' \in 0..Retry
  <2>1. CASE ~session /\ retry = 0
    <3>1. Connected(net)
      BY <2>1 DEF Publish
    <3>2. QED
      BY <1>1, <3>1, ConnectedType
  <2>2. CASE ~(~session /\ retry = 0)
    <3>1. /\ session' = (session /\ Link(net)) /\ retry' = retry
          /\ inbox' = IF session' THEN inbox ELSE <<>>
      BY <2>2 DEF Publish
    <3>2. session' \in BOOLEAN
      BY <1>1, <3>1 DEF TypeOK
    <3>3. inbox \in Seq(Kind) /\ <<>> \in Seq(Kind) /\ retry \in 0..Retry
      BY <1>1 DEF TypeOK, Kind
    <3>4. QED
      BY <3>1, <3>2, <3>3
  <2>3. QED
    BY <2>1, <2>2
<1>3. opened' \in 0..(Period + 1)
  BY <1>1, StillOpenedType DEF Publish
<1>4. /\ pc \in {"usb", "wifi"}
      /\ UNCHANGED <<power, prepared, pc, caller, busy, turned, idle, probed, net, gps,
                     page, nextAlive>>
  BY Constants DEF Publish, Typed, Ready, taskVars, pageVars
<1>5. TypeOK'
  BY <1>2, <1>3, <1>4 DEF IInv, TypeOK, Kind
<1>6. QED
  BY <1>4, <1>5, QuietStep

LEMMA SwitchedNet ==
  ASSUME NEW n \in Net, NEW m
  PROVE  Switched(n, m) \in Net /\ Switched(n, m).modem = n.modem
<1>1. CASE m = "to_wifi"
  BY <1>1 DEF Switched, Net
<1>2. CASE m # "to_wifi"
  BY <1>2 DEF Switched, Net
<1>3. QED
  BY <1>1, <1>2

LEMMA ConsoleSwitchStep ==
  ASSUME IInv, NEW c \in Consoles, NEW m, SwitchTransport(c, m)
  PROVE  IInv'
<1>1. net \in Net /\ net' = Switched(net, m) /\ inbox \in Seq(Kind) /\ TypeOK
  BY DEF SwitchTransport, IInv, TypeOK, Kind
<1>2. net' \in Net /\ net'.modem = net.modem
  BY <1>1, SwitchedNet
<1>3. session' \in BOOLEAN
  BY DEF SwitchTransport, IInv, TypeOK
<1>4. inbox' \in Seq(Kind)
  <2>1. inbox' \in {inbox, <<>>} /\ <<>> \in Seq(Kind)
    BY DEF SwitchTransport
  <2>2. QED
    BY <1>1, <2>1
<1>5. opened' \in 0..(Period + 1)
  BY <1>1, StillOpenedType DEF SwitchTransport
<1>6. caller' \in {"loop", "probe", "usb", "wifi"} /\ pc' = "poll"
  BY Constants DEF SwitchTransport
<1>7. UNCHANGED <<power, prepared, busy, turned, idle, probed, retry, gps, page, nextAlive>>
  BY DEF SwitchTransport, timeVars, pageVars
<1>8. TypeOK'
  BY <1>2, <1>3, <1>4, <1>5, <1>6, <1>7 DEF IInv, TypeOK, Kind
<1>9. QED
  BY <1>2, <1>6, <1>7, <1>8 DEF IInv, AwakeIsRestored, HaltInv

LEMMA ConsoleStep == IInv /\ (\E c \in Consoles : ConsoleCommand(c)) => IInv'
  BY CommandStep, ConsolePublishStep, ConsoleSwitchStep DEF ConsoleCommand

LEMMA AwakeSteps == IInv /\ (EnterStandby \/ StayAwake \/ ProbeAgain \/ PollMqtt) => IInv'
<1> SUFFICES ASSUME IInv, EnterStandby \/ StayAwake \/ ProbeAgain \/ PollMqtt PROVE IInv'
  OBVIOUS
<1>1. CASE EnterStandby
  <2>1. turned' \in BOOLEAN
    BY <1>1 DEF EnterStandby
  <2>2. /\ power' = "EnteringStandby" /\ pc = "usb"
        /\ UNCHANGED <<prepared, pc, caller, busy, idle, probed, retry, net, gps, session, inbox,
                       page, nextAlive, opened>>
    BY <1>1 DEF EnterStandby, Ready, linkVars, pageVars
  <2>3. TypeOK'
    BY <2>1, <2>2 DEF IInv, TypeOK
  <2>4. QED
    BY <2>2, <2>3 DEF IInv, AwakeIsRestored, HaltInv
<1>2. CASE StayAwake \/ ProbeAgain \/ PollMqtt
  <2>1. caller' \in {caller, "probe"}
    BY <1>2 DEF StayAwake, ProbeAgain, PollMqtt
  <2>2. /\ pc' \in {"poll", "wifi"}
        /\ UNCHANGED <<power, prepared, busy, turned, idle, probed, retry, net, gps, session,
                       inbox, page, nextAlive, opened>>
    BY <1>2 DEF StayAwake, ProbeAgain, PollMqtt, timeVars, linkVars, pageVars
  <2>3. TypeOK'
    BY <2>1, <2>2 DEF IInv, TypeOK
  <2>4. QED
    BY <2>2, <2>3, QuietStep
<1>3. QED
  BY <1>1, <1>2

LEMMA AnnounceSteps == IInv /\ (AnnounceSleep \/ AnnounceAwake) => IInv'
<1> SUFFICES ASSUME IInv, AnnounceSleep \/ AnnounceAwake PROVE IInv'
  OBVIOUS
<1>1. session' \in BOOLEAN /\ inbox' \in Seq(Kind) /\ retry' \in 0..Retry
  BY PublishType DEF AnnounceSleep, AnnounceAwake, IInv
<1>2. /\ UNCHANGED <<power, prepared, busy, turned, idle, probed, net, gps,
                     page, nextAlive, opened>>
      /\ caller' \in {caller, "loop"}
  BY DEF AnnounceSleep, AnnounceAwake, pageVars
<1>3. CASE AnnounceSleep
  <2>1. pc' = "halt" /\ power = "EnteringStandby"
    BY <1>3 DEF AnnounceSleep
  <2>2. TypeOK'
    BY <1>1, <1>2, <2>1 DEF IInv, TypeOK, Kind
  <2>3. QED
    BY <1>2, <2>1, <2>2 DEF IInv, AwakeIsRestored, HaltInv
<1>4. CASE AnnounceAwake
  <2>1. pc' = "usb"
    BY <1>4 DEF AnnounceAwake
  <2>2. TypeOK'
    BY <1>1, <1>2, <2>1 DEF IInv, TypeOK, Kind
  <2>3. QED
    BY <1>2, <2>1, <2>2, QuietStep
<1>5. QED
  BY <1>3, <1>4

LEMMA DisconnectedType ==
  ASSUME Disconnected
  PROVE  /\ session' = FALSE /\ session' \in BOOLEAN
         /\ inbox' \in Seq(Kind) /\ retry' \in 0..Retry
<1>1. session' = FALSE
  BY DEF Disconnected
<1>2. inbox' \in Seq(Kind)
  BY DEF Disconnected
<1>3. retry' \in 0..Retry
  BY Constants DEF Disconnected
<1>4. QED
  BY <1>1, <1>2, <1>3

LEMMA SleepStep == IInv /\ Sleep => IInv'
<1> SUFFICES ASSUME IInv, Sleep PROVE IInv'
  OBVIOUS
<1>1. Disconnected
  BY DEF Sleep
<1>2. /\ session' = FALSE /\ session' \in BOOLEAN
      /\ inbox' \in Seq(Kind) /\ retry' \in 0..Retry
  BY <1>1, DisconnectedType
<1>3. net \in Net /\ net' = [net EXCEPT !.wifi = FALSE, !.modem = "standby"]
  BY DEF Sleep, IInv, TypeOK
<1>4. net' \in Net /\ net'.wifi = FALSE /\ net'.modem = "standby"
  BY <1>3 DEF Net
<1>5. gps' = FALSE
  BY DEF Sleep
<1>6. pc = "halt" /\ pc' = "asleep" /\ busy' = WakeInterval
  BY DEF Sleep, Ready
<1>7. power = "EnteringStandby"
  BY <1>6 DEF IInv, HaltInv
<1>8. UNCHANGED <<power, prepared, caller, turned, idle, probed,
                  page, nextAlive, opened>>
  BY DEF Sleep, pageVars
<1>9. gps' \in BOOLEAN /\ busy' \in Nat
  BY <1>5, <1>6, Constants
<1>10. TypeOK'
  BY <1>2, <1>4, <1>6, <1>8, <1>9 DEF IInv, TypeOK, Kind
<1>11. AwakeIsRestored'
  <2>1. ~session' /\ ~gps' /\ ~net'.wifi
    BY <1>2, <1>4, <1>5
  <2>2. QED
    BY <2>1, <1>4, <1>7, <1>8 DEF AwakeIsRestored
<1>12. HaltInv'
  BY <1>6 DEF HaltInv
<1>13. QED
  BY <1>10, <1>11, <1>12 DEF IInv

LEMMA WakeStep == IInv /\ Wake => IInv'
<1> SUFFICES ASSUME IInv, Wake PROVE IInv'
  OBVIOUS
<1>1. probed' \in 0..Window
  BY Constants DEF Wake, ProbeStart
<1>2. prepared' \in BOOLEAN /\ turned' \in BOOLEAN
  <2>1. prepared' = FALSE /\ turned' = FALSE
    BY DEF Wake
  <2>2. QED
    BY <2>1
<1>3. /\ power' = "StandbyProbe" /\ pc' = "usb"
      /\ UNCHANGED <<caller, busy, idle, retry, net, gps, session, inbox,
                     page, nextAlive, opened>>
  BY DEF Wake, linkVars, pageVars
<1>4. TypeOK'
  BY <1>1, <1>2, <1>3 DEF IInv, TypeOK
<1>5. QED
  BY <1>3, <1>4 DEF IInv, AwakeIsRestored, HaltInv

LEMMA PrepareStep == IInv /\ PrepareNetworks => IInv'
<1> SUFFICES ASSUME IInv, PrepareNetworks PROVE IInv'
  OBVIOUS
<1>1. session' \in BOOLEAN /\ inbox' \in Seq(Kind) /\ retry' \in 0..Retry
  BY DisconnectedType DEF PrepareNetworks
<1>2. net' \in Net
  <2>1. net \in Net
    BY DEF IInv, TypeOK
  <2>2. QED
    BY <2>1, Links DEF PrepareNetworks
<1>3. busy' \in Nat
  BY Constants DEF PrepareNetworks
<1>4. prepared' \in BOOLEAN /\ caller' \in {"loop", "probe", "usb", "wifi"}
  <2>1. prepared' = TRUE /\ caller' = "probe"
    BY DEF PrepareNetworks
  <2>2. QED
    BY <2>1
<1>5. /\ pc' = "poll" /\ power = "StandbyProbe"
      /\ UNCHANGED <<power, turned, idle, probed, gps, page, nextAlive, opened>>
  BY DEF PrepareNetworks, pageVars
<1>6. TypeOK'
  BY <1>1, <1>2, <1>3, <1>4, <1>5 DEF IInv, TypeOK, Kind
<1>7. QED
  BY <1>5, <1>6 DEF IInv, AwakeIsRestored, HaltInv

-----------------------------------------------------------------------------
(* Manager::loop.                                                           *)

LEMMA ConnectStep == IInv /\ EnsureConnected => IInv'
<1> SUFFICES ASSUME IInv, EnsureConnected PROVE IInv'
  OBVIOUS
<1>1. session' \in BOOLEAN /\ inbox' \in Seq(Kind) /\ retry' \in 0..Retry
  <2>1. CASE ~session /\ retry = 0
    <3>1. Connected(net) /\ net \in Net
      BY <2>1 DEF EnsureConnected, IInv, TypeOK
    <3>2. QED
      BY <3>1, ConnectedType
  <2>2. CASE ~(~session /\ retry = 0)
    <3>1. UNCHANGED <<session, inbox, retry>>
      BY <2>2 DEF EnsureConnected
    <3>2. QED
      BY <3>1 DEF IInv, TypeOK, Kind
  <2>3. QED
    BY <2>1, <2>2
<1>2. /\ pc' = "drain"
      /\ UNCHANGED <<power, prepared, caller, busy, turned, idle, probed, net, gps,
                     page, nextAlive, opened>>
  BY DEF EnsureConnected, pageVars
<1>3. TypeOK'
  BY <1>1, <1>2 DEF IInv, TypeOK, Kind
<1>4. QED
  BY <1>2, <1>3, QuietStep

LEMMA RejectStep == IInv /\ RejectMessage => IInv'
<1> SUFFICES ASSUME IInv, RejectMessage PROVE IInv'
  OBVIOUS
<1>1. inbox' \in Seq(Kind)
  BY TailType DEF RejectMessage, IInv
<1>2. /\ pc' = "drain"
      /\ UNCHANGED <<power, prepared, caller, busy, turned, idle, probed, retry, net, gps,
                     session, page, nextAlive, opened>>
  BY DEF RejectMessage, Ready, taskVars, timeVars, pageVars
<1>3. TypeOK'
  BY <1>1, <1>2 DEF IInv, TypeOK, Kind
<1>4. QED
  BY <1>2, <1>3, QuietStep

LEMMA DrainedStep == IInv /\ Drained => IInv'
<1> SUFFICES ASSUME IInv, Drained PROVE IInv'
  OBVIOUS
<1>1. session' \in BOOLEAN
  BY DEF Drained
<1>2. inbox' \in Seq(Kind)
  <2>1. inbox' \in {Tail(inbox), <<>>} /\ (inbox' = Tail(inbox) => inbox # <<>> \/ inbox' = <<>>)
    BY DEF Drained
  <2>2. <<>> \in Seq(Kind)
    OBVIOUS
  <2>3. QED
    BY <2>1, <2>2, TailType DEF IInv
<1>3. turned' \in BOOLEAN
  BY DEF Drained, IInv, TypeOK
<1>4. /\ pc' \in {"greet", "usb", "wifi"} /\ power' \in {power, "EnteringStandby"}
      /\ caller' \in {caller, "loop"}
  BY DEF Drained, IInv, TypeOK
<1>5. UNCHANGED <<prepared, busy, idle, probed, retry, net, gps,
                  page, nextAlive, opened>>
  BY DEF Drained, pageVars
<1>6. TypeOK'
  BY <1>1, <1>2, <1>3, <1>4, <1>5 DEF IInv, TypeOK, Kind
<1>7. QED
  BY <1>4, <1>5, <1>6 DEF IInv, AwakeIsRestored, HaltInv

\* A handler that runs awakened the device first, so it finds the modem out of
\* standby, and none puts it there.
LEMMA PeripheralsAwake ==
  ASSUME IInv
  PROVE  \A n \in Peripherals : n \in Net /\ n.modem # "standby"
<1>1. net \in Net /\ (power = "Awake" => net.modem # "standby")
  BY DEF IInv, TypeOK, AwakeIsRestored
<1>2. QED
  BY <1>1, Links, RestoredAwake DEF Peripherals

LEMMA ReceiversType ==
  ASSUME IInv
  PROVE  Receivers \subseteq BOOLEAN
<1>1. gps \in BOOLEAN /\ GpsAutostart \in BOOLEAN
  BY Constants DEF IInv, TypeOK
<1>2. QED
  BY <1>1 DEF Receivers

\* What a message leaves behind, whatever its kind.
Handled ==
  /\ net' \in Net /\ net'.modem # "standby" /\ gps' \in BOOLEAN
  /\ session' \in BOOLEAN /\ inbox' \in Seq(Kind) /\ busy' \in Nat
  /\ pc' \in {"drain", "to_wifi", "to_lte"}

LEMMA BlocksType ==
  ASSUME NEW n \in Nat, Blocks(n)
  PROVE  busy' \in Nat
<1>1. \A x \in Nat : 0..(n + x) \subseteq Nat
  OBVIOUS
<1>2. (IF power = "Awake" THEN 0 ELSE MaxBringUp) \in Nat
  BY Constants
<1>3. QED
  BY <1>1, <1>2 DEF Blocks

LEMMA AnsweredType ==
  ASSUME IInv, inbox # <<>>, net' \in Net, Answered
  PROVE  session' \in BOOLEAN /\ inbox' \in Seq(Kind)
<1>1. session' \in BOOLEAN
  <2>1. session' = Link(net')
    BY DEF Answered
  <2>2. \A n \in Net : Link(n) \in BOOLEAN
    BY Links
  <2>3. QED
    BY <2>1, <2>2, Zenon
<1>2. Tail(inbox) \in Seq(Kind) /\ <<>> \in Seq(Kind)
  BY TailType DEF IInv
<1>3. inbox' \in {Tail(inbox), <<>>}
  BY DEF Answered
<1>4. QED
  BY <1>1, <1>2, <1>3

LEMMA CommandHandled ==
  ASSUME IInv, HandleCommand
  PROVE  Handled
<1>1. inbox # <<>> /\ pc = "drain" /\ UNCHANGED pc
  BY DEF HandleCommand, Taken, Ready
<1>2. PICK n \in Peripherals : net' \in {[n EXCEPT !.modem = s] : s \in {n.modem, "on", "data"}}
  BY DEF HandleCommand
<1>3. n \in Net /\ n.modem # "standby"
  BY PeripheralsAwake
<1>4. net' \in Net /\ net'.modem # "standby"
  BY <1>2, <1>3 DEF Net
<1>5. session' \in BOOLEAN /\ inbox' \in Seq(Kind)
  BY <1>1, <1>4, AnsweredType DEF HandleCommand
<1>6. gps' \in BOOLEAN
  BY ReceiversType DEF HandleCommand
<1>7. busy' \in Nat
  BY Constants, BlocksType DEF HandleCommand
<1>8. QED
  BY <1>1, <1>4, <1>5, <1>6, <1>7 DEF Handled

LEMMA AliveHandled ==
  ASSUME IInv, HandleAlive
  PROVE  Handled
<1>1. inbox # <<>> /\ pc = "drain" /\ UNCHANGED pc
  BY DEF HandleAlive, Taken, Ready
<1>2. PICK n \in Peripherals : net' \in {n} \cup WithData(n)
  BY DEF HandleAlive
<1>3. n \in Net /\ n.modem # "standby"
  BY PeripheralsAwake
<1>4. net' \in Net /\ net'.modem # "standby"
  BY <1>2, <1>3, Links, LinksKeepModem
<1>5. session' \in BOOLEAN /\ inbox' \in Seq(Kind)
  BY <1>1, <1>4, AnsweredType DEF HandleAlive
<1>6. gps' \in BOOLEAN
  BY ReceiversType DEF HandleAlive
<1>7. busy' \in Nat
  BY Constants, BlocksType DEF HandleAlive
<1>8. QED
  BY <1>1, <1>4, <1>5, <1>6, <1>7 DEF Handled

LEMMA SwitchHandled ==
  ASSUME IInv, NEW m \in {"to_wifi", "to_lte"}, HandleTransportSet(m)
  PROVE  Handled
<1>1. PICK n \in Peripherals : net' \in IF m = "to_lte" THEN WithData(n) ELSE {n}
  BY DEF HandleTransportSet
<1>2. n \in Net /\ n.modem # "standby"
  BY PeripheralsAwake
<1>3. net' \in Net /\ net'.modem # "standby"
  BY <1>1, <1>2, Links, LinksKeepModem
<1>4. session' \in BOOLEAN
  BY DEF HandleTransportSet, IInv, TypeOK
<1>5. inbox # <<>> /\ inbox' = Tail(inbox) /\ pc' = m
  BY DEF HandleTransportSet, Taken
<1>6. inbox' \in Seq(Kind)
  BY <1>5, TailType DEF IInv
<1>7. gps' \in BOOLEAN
  BY ReceiversType DEF HandleTransportSet
<1>8. busy' \in Nat
  <2>1. (IF m = "to_lte" THEN MaxBringUp ELSE 0) \in Nat
    BY Constants
  <2>2. QED
    BY <2>1, BlocksType DEF HandleTransportSet
<1>9. QED
  BY <1>3, <1>4, <1>5, <1>6, <1>7, <1>8 DEF Handled

LEMMA TakenStep ==
  ASSUME IInv, NEW m, Taken(m), Handled
  PROVE  IInv'
<1>1. idle' \in 0..After /\ power' = "Awake"
  BY Constants DEF Taken, NoteActivity
<1>2. prepared' \in BOOLEAN
  BY DEF Taken, NoteActivity, IInv, TypeOK
<1>3. UNCHANGED <<caller, turned, probed, retry, page, nextAlive, opened>>
  BY DEF Taken, pageVars
<1>4. TypeOK'
  BY <1>1, <1>2, <1>3 DEF IInv, TypeOK, Handled, Kind
<1>5. QED
  BY <1>1, <1>4 DEF IInv, AwakeIsRestored, HaltInv, Handled

LEMMA TransportStep ==
  ASSUME IInv, NEW m, TransportSet(m)
  PROVE  IInv'
<1>1. net' = Switched(net, m) /\ net \in Net
  BY DEF TransportSet, IInv, TypeOK
<1>2. net' \in Net /\ net'.modem = net.modem
  BY <1>1, SwitchedNet
<1>3. session' \in BOOLEAN /\ inbox' \in Seq(Kind) /\ retry' \in 0..Retry
  <2>1. /\ session' \in Tried(FALSE, Link(net')) /\ inbox' = Fresh(session', net')
        /\ retry' = Retry
    BY DEF TransportSet, Connected
  <2>2. \A n \in Net : Tried(FALSE, Link(n)) \subseteq BOOLEAN
    BY Links, TriedIn
  <2>3. \A b, n : Fresh(b, n) \in Seq(Kind)
    BY FreshType
  <2>4. session' \in BOOLEAN
    BY <1>2, <2>1, <2>2, Zenon
  <2>5. inbox' \in Seq(Kind)
    BY <2>1, <2>3, Zenon
  <2>6. retry' \in 0..Retry
    BY <2>1, Constants
  <2>7. QED
    BY <2>4, <2>5, <2>6
<1>4. /\ pc' = "drain"
      /\ UNCHANGED <<power, prepared, caller, busy, turned, idle, probed, gps, page, nextAlive,
                     opened>>
  BY DEF TransportSet, pageVars
<1>5. TypeOK'
  BY <1>2, <1>3, <1>4 DEF IInv, TypeOK, Kind
<1>6. QED
  BY <1>2, <1>4, <1>5 DEF IInv, AwakeIsRestored, HaltInv

LEMMA MessageStep == IInv /\ HandleMessage => IInv'
<1> SUFFICES ASSUME IInv, HandleMessage PROVE IInv'
  OBVIOUS
<1>1. CASE HandleCommand
  BY <1>1, CommandHandled, TakenStep DEF HandleCommand
<1>2. CASE HandleAlive
  BY <1>2, AliveHandled, TakenStep DEF HandleAlive
<1>3. ASSUME NEW m \in {"to_wifi", "to_lte"}, HandleTransportSet(m) PROVE IInv'
  BY <1>3, SwitchHandled, TakenStep DEF HandleTransportSet
<1>4. ASSUME NEW m \in {"to_wifi", "to_lte"}, TransportSet(m) PROVE IInv'
  BY <1>4, TransportStep
<1>5. QED
  BY <1>1, <1>2, <1>3, <1>4 DEF HandleMessage

-----------------------------------------------------------------------------

LEMMA InitIInv == Init => IInv
<1> SUFFICES ASSUME Init PROVE IInv
  OBVIOUS
<1>1. net \in Net /\ net.modem # "standby"
  <2>1. PICK t \in Transports :
          net \in Tried([transport |-> t, wifi |-> FALSE, modem |-> "on"],
                        [transport |-> t, wifi |-> TRUE,
                         modem |-> IF t = "lte" THEN "data" ELSE "on"])
    BY DEF Init
  <2>2. t \in {"wifi", "lte"}
    BY KindAssumption
  <2> DEFINE down == [transport |-> t, wifi |-> FALSE, modem |-> "on"]
             up   == [transport |-> t, wifi |-> TRUE,
                      modem |-> IF t = "lte" THEN "data" ELSE "on"]
  <2>3. net = down \/ net = up
    BY <2>1 DEF Tried
  <2>4. CASE net = down
    BY <2>2, <2>4 DEF Net
  <2>5. CASE net = up
    BY <2>2, <2>5 DEF Net
  <2>6. QED
    BY <2>3, <2>4, <2>5
<1>2. session \in BOOLEAN
  <2>1. Link(net) \in BOOLEAN
    BY <1>1, Links
  <2>2. QED
    BY <2>1, TriedIn DEF Init
<1>3. inbox \in Seq(Kind)
  BY <1>2, FreshType DEF Init
<1>4. gps \in BOOLEAN
  BY Constants DEF Init
<1>5. prepared \in BOOLEAN /\ turned \in BOOLEAN /\ page \in BOOLEAN
  <2>1. prepared = FALSE /\ turned = FALSE /\ page = FALSE
    BY DEF Init
  <2>2. QED
    BY <2>1
<1>6. /\ busy \in Nat /\ idle \in 0..After /\ probed \in 0..Window /\ retry \in 0..Retry
      /\ nextAlive \in 0..Period /\ opened \in 0..(Period + 1)
  BY Constants DEF Init
<1>7. power = "Awake" /\ pc = "usb" /\ caller = "loop"
  BY DEF Init
<1>8. QED
  BY <1>1, <1>2, <1>3, <1>4, <1>5, <1>6, <1>7
     DEF IInv, TypeOK, AwakeIsRestored, HaltInv, Kind

LEMMA NextIInv == IInv /\ [Next]_vars => IInv'
<1> SUFFICES ASSUME IInv, [Next]_vars PROVE IInv'
  OBVIOUS
<1>1. CASE Controllers \/ LoseLink \/ Tick
  BY <1>1, ControllersStep, LoseLinkStep, TickStep
<1>2. CASE LoopTask
  BY <1>2, ConsoleStep, AwakeSteps, AnnounceSteps, SleepStep, WakeStep, PrepareStep,
     ConnectStep, MessageStep, RejectStep, DrainedStep DEF LoopTask, HandlePowerState
<1>3. CASE UNCHANGED vars
  BY <1>3 DEF vars, taskVars, timeVars, linkVars, pageVars,
              IInv, TypeOK, AwakeIsRestored, HaltInv
<1>4. QED
  BY <1>1, <1>2, <1>3 DEF Next

\* The types, and the bounds of the clocks, for every timing and every message.
THEOREM TypeCorrect == Spec => []TypeOK
<1>1. IInv => TypeOK
  BY DEF IInv
<1>2. QED
  BY <1>1, InitIInv, NextIInv, PTL DEF Spec

\* However the device woke up, an awake device has its modem out of standby, and
\* a sleeping one has no connection and nothing powered.
THEOREM WakingRestores == Spec => []AwakeIsRestored
<1>1. IInv => AwakeIsRestored
  BY DEF IInv
<1>2. QED
  BY <1>1, InitIInv, NextIInv, PTL DEF Spec

-----------------------------------------------------------------------------
(* Nothing but a blocked task makes a connected device sleep before an open *)
(* page.  What the argument counts is the units the page has been open, to  *)
(* a device that was connected over WiFi and not blocked, since the last    *)
(* message that was handled: when the timer runs out, that is all of them.  *)
(* A unit passes in a device that is not blocked only when it has read all  *)
(* it received, so what is left unread was sent within the unit, and the    *)
(* units counted are those since the page's last request.                   *)

Missed == IF idle < opened THEN idle ELSE opened
Since == Period - nextAlive
Waits == "alive" \in Waiting

\* Where a probe's pass through Manager::loop stands.
Calls ==
  /\ pc = "greet" => caller = "probe"
  /\ caller = "probe" => pc \in {"poll", "drain", "to_wifi", "to_lte", "greet"}

\* WiFi carries the sessions it has, and no time is counted for a page that is closed.
Bookkept ==
  /\ Linked => net.wifi
  /\ ~page => opened = 0

\* Nothing is missed in the pass that handled a message, or there is a request to be read,
\* or the next one is still to come.
Asked ==
  /\ Linked /\ caller # "probe" /\ pc \notin {"to_wifi", "to_lte"}
  /\ IF Waits THEN Missed <= Period ELSE Missed <= Since

Counted == power = "Awake" => Missed = 0 \/ Asked

WakeInv == IInv /\ Calls /\ Bookkept /\ Counted

LEMMA Numbers ==
  ASSUME TypeOK
  PROVE  /\ idle \in Nat /\ opened \in Nat /\ nextAlive \in Nat /\ busy \in Nat
         /\ nextAlive <= Period /\ idle <= After
         /\ Missed \in Nat /\ Since \in Nat /\ Since <= Period
         /\ Period \in Nat /\ After \in Nat
<1>1. After \in Nat /\ Period \in Nat
  BY Constants
<1>2. /\ idle \in Nat /\ opened \in Nat /\ nextAlive \in Nat /\ busy \in Nat
      /\ nextAlive <= Period /\ idle <= After
  BY <1>1 DEF TypeOK
<1>3. Missed \in Nat /\ Since \in Nat /\ Since <= Period
  BY <1>1, <1>2 DEF Missed, Since
<1>4. QED
  BY <1>1, <1>2, <1>3

\* A step after which nothing has been missed.
LEMMA NothingMissed ==
  ASSUME TypeOK', \/ idle' = 0
                  \/ opened' = 0
                  \/ TypeOK /\ Missed = 0 /\ idle' = idle /\ opened' \in {0, opened}
  PROVE  Missed' = 0
<1>1. /\ idle' \in 0..After /\ opened' \in 0..(Period + 1)
      /\ \A n \in 0..After : n \in Nat
      /\ \A n \in 0..(Period + 1) : n \in Nat
  BY Constants DEF TypeOK
<1>2. idle' \in Nat /\ opened' \in Nat
  BY <1>1, Zenon
<1>3. \A a, b \in Nat : a = 0 \/ b = 0 => (IF a < b THEN a ELSE b) = 0
  OBVIOUS
<1>4. CASE idle' = 0 \/ opened' = 0
  BY <1>2, <1>3, <1>4, Zenon DEF Missed
<1>5. CASE TypeOK /\ Missed = 0 /\ idle' = idle /\ opened' = opened
  BY <1>5, Zenon DEF Missed
<1>6. QED
  BY <1>4, <1>5, Zenon

\* The steps after which nothing has been missed, or the device is not awake.
LEMMA FreshStep ==
  ASSUME IInv', Calls', Bookkept', Missed' = 0 \/ power' # "Awake"
  PROVE  WakeInv'
  BY Zenon DEF WakeInv, Counted

\* What a step may do to the messages that wait on the connection.
LEMMA TailWaits ==
  ASSUME inbox \in Seq(Kind), inbox # <<>>, Head(inbox) # "alive", inbox' = Tail(inbox)
  PROVE  Waits' <=> Waits
<1> DEFINE rest == Tail(inbox)
<1>1. Len(inbox) \in Nat \ {0} /\ Len(rest) = Len(inbox) - 1
      /\ \A i \in 1..Len(rest) : rest[i] = inbox[i + 1] /\ i + 1 \in 1..Len(inbox)
  OBVIOUS
<1>2. Head(inbox) = inbox[1] /\ \A i \in 1..Len(inbox) : i = 1 \/ i - 1 \in 1..Len(rest)
  BY <1>1
<1>3. (\E i \in 1..Len(rest) : rest[i] = "alive") => \E i \in 1..Len(inbox) : inbox[i] = "alive"
  BY <1>1
<1>4. (\E i \in 1..Len(inbox) : inbox[i] = "alive") => (\E i \in 1..Len(rest) : rest[i] = "alive")
  <2> SUFFICES ASSUME NEW i \in 1..Len(inbox), inbox[i] = "alive"
               PROVE  \E j \in 1..Len(rest) : rest[j] = "alive"
    OBVIOUS
  <2>1. i # 1
    BY <1>2
  <2>2. i - 1 \in 1..Len(rest) /\ rest[i - 1] = inbox[(i - 1) + 1] /\ (i - 1) + 1 = i
    BY <1>1, <1>2, <2>1
  <2>3. QED
    BY <2>2
<1>5. Waits <=> \E i \in 1..Len(inbox) : inbox[i] = "alive"
  BY Zenon DEF Waits, Waiting
<1>6. Waits' <=> \E i \in 1..Len(inbox') : inbox'[i] = "alive"
  BY Zenon DEF Waits, Waiting
<1>7. inbox' = rest
  OBVIOUS
<1> HIDE DEF rest
<1>8. QED
  BY <1>3, <1>4, <1>5, <1>6, <1>7, Zenon

LEMMA MoreWaits ==
  ASSUME inbox \in Seq(Kind), NEW m, inbox' \in {inbox, Append(inbox, m)}
  PROVE  /\ Waits => Waits'
         /\ m = "alive" /\ inbox' = Append(inbox, m) => Waits'
<1>1. Waits <=> \E i \in 1..Len(inbox) : inbox[i] = "alive"
  BY Zenon DEF Waits, Waiting
<1>2. Waits' <=> \E i \in 1..Len(inbox') : inbox'[i] = "alive"
  BY Zenon DEF Waits, Waiting
<1> DEFINE more == Append(inbox, m)
           n == Len(inbox)
<1>3. n \in Nat /\ Len(more) = n + 1 /\ n + 1 \in 1..Len(more) /\ more[n + 1] = m
      /\ \A i \in 1..n : more[i] = inbox[i] /\ i \in 1..Len(more)
  OBVIOUS
<1>4. inbox' = inbox \/ inbox' = more
  OBVIOUS
<1>5. m = "alive" /\ inbox' = Append(inbox, m) => inbox' = more
  OBVIOUS
<1> HIDE DEF more
<1>6. QED
  BY <1>1, <1>2, <1>3, <1>4, <1>5, Zenon DEF n

LEMMA NoneWaits ==
  ASSUME inbox = <<>>
  PROVE  ~Waits
<1>1. Len(<<>>) = 0 /\ 1..0 = {}
  OBVIOUS
<1>2. QED
  BY <1>1, Zenon DEF Waits, Waiting

\* A step of an awake device that changes none of what is counted.
LEMMA AskedStep ==
  ASSUME WakeInv, IInv', Calls', Bookkept', power = "Awake",
         UNCHANGED <<idle, opened, nextAlive>>,
         Asked => /\ Linked' /\ caller' # "probe" /\ pc' \notin {"to_wifi", "to_lte"}
                  /\ Waits' <=> Waits
  PROVE  WakeInv'
<1>1. TypeOK /\ TypeOK'
  BY DEF WakeInv, IInv
<1>2. CASE Missed = 0
  BY <1>1, <1>2, NothingMissed, FreshStep
<1>3. CASE Asked
  <2>1. Asked'
    BY <1>3, Zenon DEF Asked, Missed, Since
  <2>2. QED
    BY <2>1, Zenon DEF WakeInv, Counted
<1>4. QED
  BY <1>2, <1>3 DEF WakeInv, Counted

-----------------------------------------------------------------------------

LEMMA PagesStep == WakeInv /\ IInv' /\ (OpenPage \/ ClosePage) => WakeInv'
<1> SUFFICES ASSUME WakeInv, IInv', OpenPage \/ ClosePage PROVE WakeInv'
  OBVIOUS
<1>1. opened' = 0 /\ UNCHANGED <<taskVars, timeVars, linkVars>>
  BY DEF OpenPage, ClosePage
<1>2. Bookkept' /\ Calls'
  BY <1>1 DEF WakeInv, Bookkept, Calls, Linked, linkVars, taskVars
<1>3. Missed' = 0
  BY <1>1, NothingMissed DEF IInv
<1>4. QED
  BY <1>2, <1>3, FreshStep

LEMMA LostStep == WakeInv /\ IInv' /\ LoseLink => WakeInv'
<1> SUFFICES ASSUME WakeInv, IInv', LoseLink PROVE WakeInv'
  OBVIOUS
<1>1. opened' = 0 /\ ~session' /\ UNCHANGED taskVars
  BY DEF LoseLink
<1>2. Bookkept' /\ Calls'
  BY <1>1 DEF WakeInv, Bookkept, Calls, Linked, taskVars
<1>3. Missed' = 0
  BY <1>1, NothingMissed DEF IInv
<1>4. QED
  BY <1>2, <1>3, FreshStep

\* Messages arrive, and the device stands where it stood.
LEMMA ArrivalStep ==
  ASSUME WakeInv, IInv', NEW m, inbox' \in {inbox, Append(inbox, m)},
         UNCHANGED <<taskVars, timeVars, net, session, page, opened>>,
         Asked => Waits' \/ Since' = Since
  PROVE  WakeInv'
<1>1. /\ TypeOK /\ TypeOK' /\ Calls /\ Bookkept /\ Counted
      /\ UNCHANGED <<power, pc, caller, busy, idle, Missed, Linked>>
  BY DEF WakeInv, IInv, taskVars, timeVars, Missed, Linked
<1>2. Waits => Waits'
  BY <1>1, MoreWaits DEF TypeOK, Kind
<1>3. Bookkept' /\ Calls'
  BY <1>1 DEF Bookkept, Calls, Linked
<1>4. CASE power' # "Awake" \/ Missed = 0
  BY <1>1, <1>3, <1>4, FreshStep
<1>5. CASE Asked
  <2>1. Missed <= Period /\ (~Waits => Missed <= Since)
    BY <1>1, <1>5, Numbers DEF Asked
  <2>2. Asked'
    BY <1>1, <1>2, <1>5, <2>1, Zenon DEF Asked
  <2>3. QED
    BY <1>3, <2>2, Zenon DEF WakeInv, Counted
<1>6. QED
  BY <1>1, <1>4, <1>5 DEF Counted

LEMMA RequestStep == WakeInv /\ IInv' /\ SendAlive => WakeInv'
<1> SUFFICES ASSUME WakeInv, IInv', SendAlive PROVE WakeInv'
  OBVIOUS
<1>1. inbox \in Seq(Kind) /\ Bookkept
  BY DEF WakeInv, IInv, TypeOK, Kind
<1>2. inbox' \in Arrived("alive") /\ UNCHANGED <<taskVars, timeVars, net, gps, session, page, opened>>
  BY DEF SendAlive
<1>3. inbox' \in {inbox, Append(inbox, "alive")}
  BY <1>2 DEF Arrived
<1>4. ASSUME Asked PROVE Waits'
  <2>1. CASE ~Queued("alive")
    <3>1. Waits
      BY <2>1 DEF Queued, Waits
    <3>2. QED
      BY <1>1, <1>3, <3>1, MoreWaits
  <2>2. CASE Queued("alive")
    <3>1. Link(net) /\ session /\ net.transport # "lte"
      BY <1>1, <1>4 DEF Asked, Linked, Link, Bookkept
    <3>2. inbox' = Append(inbox, "alive")
      BY <1>2, <2>2, <3>1 DEF Arrived
    <3>3. QED
      BY <1>1, <1>3, <3>2, MoreWaits
  <2>3. QED
    BY <2>1, <2>2
<1>5. QED
  BY <1>2, <1>3, <1>4, ArrivalStep

LEMMA OtherMessageStep ==
  ASSUME WakeInv, IInv', NEW m \in Message, SendMessage(m)
  PROVE  WakeInv'
<1>1. inbox' \in {inbox, Append(inbox, m)}
  BY DEF SendMessage, Arrived
<1>2. UNCHANGED <<taskVars, timeVars, net, session, page, opened, nextAlive>>
  BY DEF SendMessage, pageVars
<1>3. Since' = Since
  BY <1>2 DEF Since
<1>4. QED
  BY <1>1, <1>2, <1>3, ArrivalStep

\* A unit passes: blocked, the count starts again; otherwise it grows by one at the most,
\* while everything received has been read and the next request comes nearer.
LEMMA UnitStep == WakeInv /\ IInv' /\ Tick => WakeInv'
<1> SUFFICES ASSUME WakeInv, IInv', Tick PROVE WakeInv'
  OBVIOUS
<1>1. TypeOK /\ TypeOK' /\ Calls /\ Bookkept /\ Counted
  BY DEF WakeInv, IInv
<1>2. UNCHANGED <<power, prepared, pc, caller, net, session, inbox, page, Linked, Waits>>
  BY DEF Tick, taskVars, linkVars, Linked, Waits, Waiting
<1>3. /\ idle' = Up(idle, After) /\ nextAlive' = Down(nextAlive)
      /\ opened' = IF page /\ Linked /\ busy = 0 THEN Up(opened, Period + 1) ELSE 0
  BY DEF Tick
<1>4. Calls'
  BY <1>1, <1>2 DEF Calls
<1>5. Bookkept'
  BY <1>1, <1>2, <1>3 DEF Bookkept
<1>6. CASE ~(page /\ Linked /\ busy = 0) \/ power # "Awake"
  <2>1. opened' = 0 \/ power' # "Awake"
    BY <1>2, <1>3, <1>6
  <2>2. QED
    BY <1>1, <1>4, <1>5, <2>1, NothingMissed, FreshStep
<1>7. CASE page /\ Linked /\ busy = 0 /\ power = "Awake"
  <2>1. pc = "usb" /\ inbox = <<>> /\ nextAlive > 0
    BY <1>7 DEF Tick
  <2>2. ~Waits /\ caller # "probe"
    BY <1>1, <2>1, NoneWaits DEF Calls
  <2>3. Missed <= Since
    BY <1>1, <1>7, <2>2, Numbers DEF Counted, Asked
  <2> DEFINE i == Up(idle, After)
             o == Up(opened, Period + 1)
             a == Down(nextAlive)
  <2>4. (IF i < o THEN i ELSE o) <= Period - a
    BY <1>1, <2>1, <2>3, Numbers DEF Missed, Since, Up, Down
  <2>5. idle' = i /\ opened' = o /\ nextAlive' = a
    BY <1>3, <1>7
  <2> HIDE DEF i, o, a
  <2>6. Missed' <= Since'
    BY <2>4, <2>5, Zenon DEF Missed, Since
  <2>7. Asked'
    BY <1>2, <1>7, <2>1, <2>2, <2>6, Zenon DEF Asked
  <2>8. QED
    BY <1>4, <1>5, <2>7, Zenon DEF WakeInv, Counted
<1>8. QED
  BY <1>6, <1>7

-----------------------------------------------------------------------------
(* The consoles. *)

LEMMA TypedStep ==
  ASSUME WakeInv, IInv', NEW c \in Consoles, Command(c)
  PROVE  WakeInv'
<1>1. /\ UNCHANGED <<power, prepared, pc, caller, idle, session, inbox, page, nextAlive, opened>>
  BY DEF Command, taskVars, pageVars
<1>2. net'.transport = net.transport /\ net'.wifi = net.wifi
  BY DEF Command, WakeInv, IInv, TypeOK, Net
<1>3. UNCHANGED <<Linked, Waits>>
  BY <1>1, <1>2 DEF Linked, Waits, Waiting
<1>4. Calls' /\ Bookkept'
  BY <1>1, <1>2, <1>3 DEF WakeInv, Calls, Bookkept
<1>5. CASE power = "Awake"
  <2>1. Asked => Linked' /\ caller' # "probe" /\ pc' \notin {"to_wifi", "to_lte"}
    BY <1>1, <1>3 DEF Asked
  <2>2. QED
    BY <1>1, <1>3, <1>4, <1>5, <2>1, AskedStep
<1>6. CASE power # "Awake"
  BY <1>1, <1>4, <1>6, FreshStep
<1>7. QED
  BY <1>5, <1>6

\* A connection that is made is made over a link that is there.
LEMMA Connects ==
  ASSUME NEW n \in Net, session' \in Tried(FALSE, Link(n))
  PROVE  session' /\ n.transport = "wifi" => n.wifi
<1>1. Link(n) \in BOOLEAN
  BY Links
<1>2. session' => Link(n)
  BY <1>1 DEF Tried
<1>3. QED
  BY <1>2 DEF Link

LEMMA TypedPublishStep ==
  ASSUME WakeInv, IInv', NEW c \in Consoles, Publish(c)
  PROVE  WakeInv'
<1>1. /\ UNCHANGED <<power, prepared, pc, caller, idle, net, page, nextAlive>>
      /\ opened' = IF session' THEN opened ELSE 0
  BY DEF Publish, taskVars, pageVars, StillOpened
<1>2. TypeOK /\ TypeOK' /\ Calls /\ Bookkept /\ net \in Net
  BY DEF WakeInv, IInv, TypeOK
<1>3. Calls'
  BY <1>1, <1>2 DEF Calls
<1>4. Linked' => net.wifi
  <2>1. CASE ~session /\ retry = 0
    <3>1. session' \in Tried(FALSE, Link(net))
      BY <2>1 DEF Publish, Connected
    <3>2. session' /\ net.transport = "wifi" => net.wifi
      BY <1>2, <3>1, Connects
    <3>3. QED
      BY <1>1, <3>2 DEF Linked
  <2>2. CASE ~(~session /\ retry = 0)
    <3>1. session' = (session /\ Link(net))
      BY <2>2 DEF Publish
    <3>2. QED
      BY <1>1, <3>1 DEF Linked, Link
  <2>3. QED
    BY <2>1, <2>2
<1>5. Bookkept'
  BY <1>1, <1>2, <1>4 DEF Bookkept
<1>6. CASE power # "Awake"
  BY <1>1, <1>3, <1>5, <1>6, FreshStep
<1>7. CASE Missed = 0
  BY <1>1, <1>2, <1>3, <1>5, <1>7, NothingMissed, FreshStep
<1>8. CASE power = "Awake" /\ Asked
  <2>1. session /\ Link(net)
    BY <1>2, <1>8 DEF Asked, Linked, Link, Bookkept
  <2>2. session' /\ inbox' = inbox
    BY <2>1 DEF Publish
  <2>3. UNCHANGED <<opened, Waits>> /\ Linked'
    BY <1>1, <1>8, <2>2 DEF Asked, Linked, Waits, Waiting
  <2>4. caller' # "probe" /\ pc' \notin {"to_wifi", "to_lte"}
    BY <1>1, <1>8 DEF Asked
  <2>5. QED
    BY <1>1, <1>3, <1>5, <1>8, <2>3, <2>4, AskedStep
<1>9. QED
  BY <1>6, <1>7, <1>8 DEF WakeInv, Counted

LEMMA TypedSwitchStep ==
  ASSUME WakeInv, IInv', NEW c \in Consoles, NEW m, SwitchTransport(c, m)
  PROVE  WakeInv'
<1>1. /\ UNCHANGED <<power, prepared, idle, page, nextAlive>>
      /\ opened' = IF session' THEN opened ELSE 0
      /\ pc' = "poll" /\ caller' = c /\ session' = (session /\ net' = net)
      /\ inbox' = IF session' THEN inbox ELSE <<>>
  BY DEF SwitchTransport, timeVars, pageVars, StillOpened
<1>2. TypeOK /\ TypeOK' /\ Bookkept
  BY DEF WakeInv, IInv
<1>3. c # "probe"
  BY Constants
<1>4. Calls' /\ Bookkept'
  BY <1>1, <1>2, <1>3 DEF Calls, Bookkept, Linked
<1>5. CASE ~session' \/ power # "Awake"
  <2>1. opened' = 0 \/ power' # "Awake"
    BY <1>1, <1>5
  <2>2. QED
    BY <1>2, <1>4, <2>1, NothingMissed, FreshStep
<1>6. CASE session' /\ power = "Awake"
  <2>1. UNCHANGED <<session, net, inbox, opened>>
    BY <1>1, <1>2, <1>6 DEF TypeOK
  <2>2. UNCHANGED <<Linked, Waits>>
    BY <2>1 DEF Linked, Waits, Waiting
  <2>3. Asked => Linked'
    BY <2>2 DEF Asked
  <2>4. QED
    BY <1>1, <1>3, <1>4, <1>6, <2>1, <2>2, <2>3, AskedStep
<1>7. QED
  BY <1>5, <1>6

LEMMA TypingStep == WakeInv /\ IInv' /\ (\E c \in Consoles : ConsoleCommand(c)) => WakeInv'
  BY TypedStep, TypedPublishStep, TypedSwitchStep DEF ConsoleCommand

-----------------------------------------------------------------------------
(* The loop task. *)

LEMMA PublishKeeps ==
  ASSUME TypeOK, Bookkept, PublishSleepState, UNCHANGED <<net, page, opened>>
  PROVE  Bookkept'
<1>1. session' = session \/ session' \in Tried(FALSE, Link(net))
  BY Zenon DEF PublishSleepState
<1>2. Linked' => net.wifi
  BY <1>1, Connects DEF TypeOK, Bookkept, Linked
<1>3. QED
  BY <1>2 DEF Bookkept

LEMMA StandbyStep ==
  ASSUME WakeInv, IInv',
         EnterStandby \/ AnnounceSleep \/ Sleep \/ Wake \/ PrepareNetworks \/ ProbeAgain
  PROVE  WakeInv'
<1>1. Bookkept /\ Calls /\ TypeOK /\ HaltInv
  BY DEF WakeInv, IInv
<1>2. UNCHANGED <<page, opened>>
  BY DEF EnterStandby, AnnounceSleep, Sleep, Wake, PrepareNetworks, ProbeAgain, pageVars
<1>3. power' # "Awake"
  BY <1>1 DEF EnterStandby, AnnounceSleep, Sleep, Wake, PrepareNetworks, ProbeAgain,
              HaltInv, Ready
<1>4. Calls'
  BY <1>1 DEF EnterStandby, AnnounceSleep, Sleep, Wake, PrepareNetworks, ProbeAgain,
              Calls, Ready
<1>5. Bookkept'
  <2>1. CASE Sleep \/ PrepareNetworks
    <3>1. ~session'
      BY <2>1 DEF Sleep, PrepareNetworks, Disconnected
    <3>2. QED
      BY <1>1, <1>2, <3>1 DEF Bookkept, Linked
  <2>2. CASE AnnounceSleep
    BY <1>1, <1>2, <2>2, PublishKeeps DEF AnnounceSleep
  <2>3. CASE EnterStandby \/ Wake \/ ProbeAgain
    BY <1>1, <1>2, <2>3 DEF EnterStandby, Wake, ProbeAgain, linkVars, Bookkept, Linked
  <2>4. QED
    BY <2>1, <2>2, <2>3
<1>6. QED
  BY <1>3, <1>4, <1>5, FreshStep

LEMMA GoOnStep == WakeInv /\ IInv' /\ (StayAwake \/ PollMqtt) => WakeInv'
<1> SUFFICES ASSUME WakeInv, IInv', StayAwake \/ PollMqtt PROVE WakeInv'
  OBVIOUS
<1>1. /\ pc' \in {"wifi", "poll"} /\ pc \in {"usb", "wifi"}
      /\ UNCHANGED <<power, caller, idle, net, session, inbox, page, nextAlive, opened>>
  BY DEF StayAwake, PollMqtt, Ready, timeVars, linkVars, pageVars
<1>2. Calls' /\ Bookkept'
  BY <1>1 DEF WakeInv, Calls, Bookkept, Linked
<1>3. UNCHANGED <<Linked, Waits>>
  BY <1>1 DEF Linked, Waits, Waiting
<1>4. CASE power # "Awake"
  BY <1>1, <1>2, <1>4, FreshStep
<1>5. CASE power = "Awake"
  <2>1. Asked => Linked' /\ caller' # "probe"
    BY <1>1, <1>3 DEF Asked
  <2>2. QED
    BY <1>1, <1>2, <1>3, <1>5, <2>1, AskedStep
<1>6. QED
  BY <1>4, <1>5

LEMMA ConnectsStep == WakeInv /\ IInv' /\ EnsureConnected => WakeInv'
<1> SUFFICES ASSUME WakeInv, IInv', EnsureConnected PROVE WakeInv'
  OBVIOUS
<1>1. /\ pc = "poll" /\ pc' = "drain"
      /\ UNCHANGED <<power, caller, idle, net, page, nextAlive, opened>>
  BY DEF EnsureConnected, Ready, pageVars
<1>2. TypeOK /\ Calls /\ Bookkept
  BY DEF WakeInv, IInv
<1>3. UNCHANGED <<session, inbox>> \/ (~session /\ session' \in Tried(FALSE, Link(net)))
  BY DEF EnsureConnected, Connected
<1>4. Linked' => net.wifi
  BY <1>1, <1>2, <1>3, Connects DEF TypeOK, Bookkept, Linked
<1>5. Calls' /\ Bookkept'
  BY <1>1, <1>2, <1>4 DEF Calls, Bookkept
<1>6. CASE power # "Awake"
  BY <1>1, <1>5, <1>6, FreshStep
<1>7. CASE power = "Awake"
  <2>1. Asked => UNCHANGED <<session, inbox>>
    BY <1>3 DEF Asked, Linked
  <2>2. Asked => Linked' /\ caller' # "probe" /\ (Waits' <=> Waits)
    BY <1>1, <2>1 DEF Asked, Linked, Waits, Waiting
  <2>3. QED
    BY <1>1, <1>5, <1>7, <2>2, AskedStep
<1>8. QED
  BY <1>6, <1>7

LEMMA RejectedStep == WakeInv /\ IInv' /\ RejectMessage => WakeInv'
<1> SUFFICES ASSUME WakeInv, IInv', RejectMessage PROVE WakeInv'
  OBVIOUS
<1>1. /\ inbox # <<>> /\ Head(inbox) # "alive" /\ inbox' = Tail(inbox)
      /\ UNCHANGED <<power, pc, caller, idle, net, session, page, nextAlive, opened>>
  BY DEF RejectMessage, taskVars, timeVars, pageVars
<1>2. Waits' <=> Waits
  BY <1>1, TailWaits DEF WakeInv, IInv, TypeOK, Kind
<1>3. Linked' = Linked
  BY <1>1 DEF Linked
<1>4. Calls' /\ Bookkept'
  BY <1>1, <1>3 DEF WakeInv, Calls, Bookkept
<1>5. CASE power # "Awake"
  BY <1>1, <1>4, <1>5, FreshStep
<1>6. CASE power = "Awake"
  <2>1. Asked => Linked' /\ caller' # "probe" /\ pc' \notin {"to_wifi", "to_lte"}
    BY <1>1, <1>3 DEF Asked
  <2>2. QED
    BY <1>1, <1>2, <1>4, <1>6, <2>1, AskedStep
<1>7. QED
  BY <1>5, <1>6

LEMMA PassEndsStep == WakeInv /\ IInv' /\ Drained => WakeInv'
<1> SUFFICES ASSUME WakeInv, IInv', Drained PROVE WakeInv'
  OBVIOUS
<1>1. /\ UNCHANGED <<idle, net, page, nextAlive, opened>>
      /\ session' = (session /\ Link(net))
      /\ inbox' = IF session' /\ inbox # <<>> THEN Tail(inbox) ELSE <<>>
  BY DEF Drained, pageVars
<1>2. TypeOK /\ TypeOK' /\ Calls /\ Bookkept /\ Counted
  BY DEF WakeInv, IInv
<1>3. /\ pc' = "greet" => caller = "probe" /\ power = "Awake" /\ caller' = caller
      /\ pc' # "greet" => caller' = "loop" /\ pc' \in {"usb", "wifi"}
      /\ power' = "Awake" => power = "Awake"
  BY <1>2 DEF Drained, TypeOK
<1>4. Calls'
  BY <1>3 DEF Calls
<1>5. Bookkept'
  BY <1>1, <1>2 DEF Bookkept, Linked
<1>6. CASE power' # "Awake"
  BY <1>4, <1>5, <1>6, FreshStep
<1>7. CASE power' = "Awake" /\ Missed = 0
  BY <1>1, <1>2, <1>4, <1>5, <1>7, NothingMissed, FreshStep
<1>8. CASE power' = "Awake" /\ Asked
  <2>1. session /\ Link(net) /\ caller # "probe"
    BY <1>2, <1>8 DEF Asked, Linked, Link, Bookkept
  <2>2. session' /\ Linked' /\ pc' # "greet"
    BY <1>1, <1>3, <1>8, <2>1 DEF Asked, Linked
  <2>3. Waits' <=> Waits
    <3>1. CASE inbox = <<>>
      BY <1>1, <3>1 DEF Waits, Waiting
    <3>2. CASE inbox # <<>>
      <4>1. Head(inbox) # "alive" /\ inbox' = Tail(inbox)
        BY <1>1, <2>1, <2>2, <3>2 DEF Drained
      <4>2. QED
        BY <1>2, <3>2, <4>1, TailWaits DEF TypeOK, Kind
    <3>3. QED
      BY <3>1, <3>2
  <2>4. QED
    BY <1>1, <1>3, <1>4, <1>5, <1>8, <2>2, <2>3, AskedStep
<1>9. QED
  BY <1>2, <1>3, <1>6, <1>7, <1>8 DEF Counted

LEMMA GreetStep == WakeInv /\ IInv' /\ AnnounceAwake => WakeInv'
<1> SUFFICES ASSUME WakeInv, IInv', AnnounceAwake PROVE WakeInv'
  OBVIOUS
<1>1. /\ pc = "greet" /\ pc' = "usb" /\ caller' = "loop" /\ PublishSleepState
      /\ UNCHANGED <<power, idle, net, page, opened>>
  BY DEF AnnounceAwake, Ready, pageVars
<1>2. TypeOK /\ TypeOK' /\ Calls /\ Bookkept /\ Counted
  BY DEF WakeInv, IInv
<1>3. Calls' /\ Bookkept'
  BY <1>1, <1>2, PublishKeeps DEF Calls
<1>4. power # "Awake" \/ Missed = 0
  BY <1>1, <1>2 DEF Calls, Counted, Asked
<1>5. Missed' = 0 \/ power' # "Awake"
  BY <1>1, <1>2, <1>4, NothingMissed
<1>6. QED
  BY <1>3, <1>5, FreshStep

\* Messages.
LEMMA LinksKept ==
  ASSUME NEW n \in Net
  PROVE  \A x \in WithData(n) \cup WithWifi(n) \cup Restored(n) :
           x.transport = n.transport /\ (n.wifi => x.wifi)
<1>1. \A z \in Net : \A x \in WithData(z) \cup WithWifi(z) :
        x.transport = z.transport /\ (z.wifi => x.wifi)
  BY DEF WithData, WithWifi, Tried, Net
<1>2. ModemAwake(n) \in Net /\ ModemAwake(n).transport = n.transport
      /\ ModemAwake(n).wifi = n.wifi
  BY DEF ModemAwake, Net
<1>3. QED
  BY <1>1, <1>2 DEF Restored

LEMMA TakenCounts ==
  ASSUME WakeInv, IInv', NEW m, Taken(m), Linked' => net'.wifi,
         pc' \in {"drain", "to_wifi", "to_lte"}
  PROVE  WakeInv'
<1>1. idle' = 0 /\ UNCHANGED <<caller, page, opened>> /\ TypeOK'
  BY DEF Taken, NoteActivity, pageVars, IInv
<1>2. Calls' /\ Bookkept'
  BY <1>1 DEF WakeInv, Calls, Bookkept
<1>3. QED
  BY <1>1, <1>2, NothingMissed, FreshStep

LEMMA AnsweredLink ==
  ASSUME session' = Link(net')
  PROVE  Linked' => net'.wifi
  BY DEF Linked, Link

LEMMA HandledStep == WakeInv /\ IInv' /\ HandleMessage => WakeInv'
<1> SUFFICES ASSUME WakeInv, IInv', HandleMessage PROVE WakeInv'
  OBVIOUS
<1>1. CASE HandleCommand
  <2>1. Taken("command") /\ Answered /\ pc' = "drain"
    BY <1>1 DEF HandleCommand, Taken, Ready
  <2>2. QED
    BY <2>1, AnsweredLink, TakenCounts DEF Answered
<1>2. CASE HandleAlive
  <2>1. Taken("alive") /\ Answered /\ pc' = "drain"
    BY <1>2 DEF HandleAlive, Taken, Ready
  <2>2. QED
    BY <2>1, AnsweredLink, TakenCounts DEF Answered
<1>3. ASSUME NEW m \in {"to_wifi", "to_lte"}, HandleTransportSet(m) PROVE WakeInv'
  <2>1. PICK n \in Peripherals : net' \in IF m = "to_lte" THEN WithData(n) ELSE {n}
    BY <1>3 DEF HandleTransportSet
  <2>2. net \in Net /\ n \in Net
    BY PeripheralsAwake DEF WakeInv, IInv, TypeOK
  <2>3. n.transport = net.transport /\ (net.wifi => n.wifi)
    BY <2>2, LinksKept DEF Peripherals
  <2>4. net'.transport = n.transport /\ (n.wifi => net'.wifi)
    BY <2>1, <2>2, LinksKept
  <2>5. Taken(m) /\ session' = session /\ pc' = m
    BY <1>3 DEF HandleTransportSet
  <2>6. Linked' => net'.wifi
    BY <2>3, <2>4, <2>5 DEF WakeInv, Bookkept, Linked
  <2>7. QED
    BY <2>5, <2>6, TakenCounts
<1>4. ASSUME NEW m \in {"to_wifi", "to_lte"}, TransportSet(m) PROVE WakeInv'
  <2>1. /\ pc = m /\ pc' = "drain" /\ session' \in Tried(FALSE, Link(net'))
        /\ UNCHANGED <<power, caller, idle, page, opened>>
    BY <1>4 DEF TransportSet, Ready, Connected, pageVars
  <2>2. TypeOK /\ TypeOK' /\ Calls /\ Bookkept /\ Counted
    BY DEF WakeInv, IInv
  <2>3. Linked' => net'.wifi
    <3>1. net' \in Net
      BY <2>2 DEF TypeOK
    <3>2. \A n \in Net : session' \in Tried(FALSE, Link(n)) /\ session' /\ n.transport = "wifi" => n.wifi
      BY Connects
    <3>3. QED
      BY <2>1, <3>1, <3>2, Zenon DEF Linked
  <2>4. Calls' /\ Bookkept'
    BY <2>1, <2>2, <2>3 DEF Calls, Bookkept
  <2>5. power # "Awake" \/ Missed = 0
    BY <2>1, <2>2 DEF Counted, Asked
  <2>6. Missed' = 0 \/ power' # "Awake"
    BY <2>1, <2>2, <2>5, NothingMissed
  <2>7. QED
    BY <2>4, <2>6, FreshStep
<1>5. QED
  BY <1>1, <1>2, <1>3, <1>4 DEF HandleMessage

-----------------------------------------------------------------------------

LEMMA InitWakeInv == Init => WakeInv
<1> SUFFICES ASSUME Init PROVE WakeInv
  OBVIOUS
<1>1. IInv
  BY InitIInv
<1>2. /\ pc = "usb" /\ caller = "loop" /\ idle = 0 /\ opened = 0
      /\ session \in Tried(FALSE, Link(net))
  BY DEF Init
<1>3. Linked => net.wifi
  BY <1>1, <1>2, Links DEF Tried, Linked, Link, IInv, TypeOK
<1>4. Missed = 0
  BY <1>2 DEF Missed
<1>5. QED
  BY <1>1, <1>2, <1>3, <1>4 DEF WakeInv, Calls, Bookkept, Counted

LEMMA NextWakeInv == WakeInv /\ [Next]_vars => WakeInv'
<1> SUFFICES ASSUME WakeInv, [Next]_vars PROVE WakeInv'
  OBVIOUS
<1>1. IInv'
  BY NextIInv DEF WakeInv
<1>2. CASE Controllers
  BY <1>1, <1>2, PagesStep, RequestStep, OtherMessageStep DEF Controllers
<1>3. CASE LoseLink \/ Tick
  BY <1>1, <1>3, LostStep, UnitStep
<1>4. CASE LoopTask
  BY <1>1, <1>4, TypingStep, StandbyStep, GoOnStep, ConnectsStep, HandledStep, RejectedStep,
     PassEndsStep, GreetStep DEF LoopTask, HandlePowerState
<1>5. CASE UNCHANGED vars
  BY <1>1, <1>5 DEF vars, taskVars, timeVars, linkVars, pageVars, WakeInv, Calls, Bookkept,
     Counted, Asked, Missed, Since, Linked, Waits, Waiting
<1>6. QED
  BY <1>2, <1>3, <1>4, <1>5 DEF Next

\* Before a page that is open to a device connected over WiFi, the device falls asleep only
\* if its task was blocked within the last request interval, or at least has not run freely
\* for longer than one since the page was opened or the connection made: whatever commands,
\* consoles, acknowledgements and other messages come in between, as long as a request
\* interval is shorter than the idle time (handleRemotePowerState, noteRemoteActivity).
THEOREM PageKeepsAwake ==
  ASSUME Period < After
  PROVE  Spec => OpenPageKeepsAwake
<1>1. WakeInv /\ [Next]_vars
        => [power = "Awake" /\ power' = "EnteringStandby" => opened <= Period]_vars
  <2> SUFFICES ASSUME WakeInv, Next, power = "Awake", power' = "EnteringStandby"
               PROVE  opened <= Period
    BY Zenon DEF vars, taskVars
  <2>1. EnterStandby
    BY DEF Next, Controllers, LoopTask, HandlePowerState, OpenPage, ClosePage, SendAlive,
           SendMessage, LoseLink, Tick, ConsoleCommand, Command, Publish, SwitchTransport,
           PollMqtt, StayAwake, AnnounceSleep, Sleep, Wake, PrepareNetworks, ProbeAgain,
           EnsureConnected, HandleMessage, HandleCommand, HandleAlive, HandleTransportSet,
           TransportSet, Taken, NoteActivity, RejectMessage, Drained, AnnounceAwake, taskVars
  <2>2. idle >= After
    BY <2>1 DEF EnterStandby, IdleTooLong
  <2>3. /\ Missed \in Nat /\ Since \in Nat /\ Since <= Period /\ opened \in Nat /\ idle \in Nat
        /\ Period \in Nat /\ After \in Nat
    BY Numbers DEF WakeInv, IInv
  <2>4. Missed <= Period
    BY <2>3 DEF WakeInv, Counted, Asked
  <2>5. QED
    BY <2>2, <2>3, <2>4 DEF Missed
<1>2. QED
  BY <1>1, InitWakeInv, NextWakeInv, PTL DEF Spec, OpenPageKeepsAwake

===============================================================================
