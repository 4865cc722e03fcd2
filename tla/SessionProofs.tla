----------------------------- MODULE SessionProofs -----------------------------
(***************************************************************************)
(* Theorems about the session, for every value of the constants: its type, *)
(* that the broker hears from a WiFi session in time, and that standby     *)
(* gives the device its topics back in time.                               *)
(***************************************************************************)
EXTENDS Session, TLAPS

-----------------------------------------------------------------------------
(* The inductive invariants. *)

Handling == pc \in {"answer", "mqtt_transport", "transport_set"}

\* Where the loop task can stand: a pass within another one belongs to a command, the
\* consoles, a sleep and the end of a probe are between passes, and what blocks is a
\* command, a sleep or the networks a probe brings up.
Passes ==
  /\ pc \in Console \cup {"probed", "asleep"} => depth = 0 /\ caller = "loop"
  /\ pc = "mqtt_transport" => depth < MaxDepth
  /\ power = "asleep" <=> pc = "asleep"
  /\ pc = "wifi" \/ caller = "wifi" => power = "awake"
  /\ pc = "probed" => power \in {"prepared", "woken"}
  /\ power \in {"entering", "probe"} => pc = "usb" \/ caller = "usb"
  /\ power \in {"entering", "probe", "prepared"} => depth = 0 /\ ~Handling
  /\ power = "woken" => caller = "loop" /\ pc \notin Console /\ (pc = "connect" => depth > 0)
  /\ busy > 0 => \/ Handling \/ pc \in Console \/ power = "asleep"
                 \/ power = "prepared" /\ pc = "connect" /\ caller = "loop"

\* The remote commands the task is in, one within the other.
Commands == IF Handling THEN depth + 1 ELSE depth

\* The units the task is still blocked for, but for those of a local command.
Blocked == IF pc \in Console THEN 0 ELSE busy

\* A session over WiFi has its socket.
Attached(l) == l.live /\ l.over = "wifi" => l.on

Shape == TypeOK /\ Attached(link) /\ Passes

\* The session over WiFi is as silent as the telemetry is old, but for the commands that
\* keep the pass from its end; a new unit begins only when the telemetry is not due, and
\* nothing but these commands blocks the device while it has a session.
FedLink == link.live /\ link.over = "wifi" =>
  /\ link.silent <= telemetry \/ telemetry = TelemetryEvery
  /\ link.silent + Blocked <= TelemetryEvery + MaxBlock * Commands + link.typed

Fed ==
  /\ FedLink
  /\ Blocked > 0 /\ ~Handling => ~link.live
  /\ turned \/ pc = "probed" => telemetry < TelemetryEvery

FedInv == Shape /\ Fed /\ SessionIsFed

\* The bound of a sleep that follows n deaf units.
Bounded(n, rest) == \E idling \in {After, Window, MaxBlock + 1} : n <= idling + rest

\* Awake, the device is deaf no longer than it is idle; a message it has taken ended the
\* deafness, so that it is deaf only as long as the command blocks, and one unit more at
\* the end of the pass.
AwakeDeaf == power \in {"awake", "woken"} =>
  /\ deaf <= idle \/ idle = After
  /\ Bounded(deaf + Blocked, 0)
  /\ power = "woken" \/ Blocked > 0 => deaf + Blocked <= MaxBlock
  /\ turned \/ ~(pc = "usb" \/ caller = "usb") => deaf < After \/ deaf + Blocked <= MaxBlock

EnteringDeaf == power = "entering" => ~turned /\ Bounded(deaf, 0)

AsleepDeaf == power = "asleep" =>
  /\ busy <= WakeInterval /\ ~turned
  /\ Bounded(deaf + busy, WakeInterval)
  /\ busy < WakeInterval => (~reach[link.over] => deaf = 0)

\* Between the sleep and the networks of the probe.
WaitingDeaf == power = "probe" =>
  /\ ~turned /\ Bounded(deaf, WakeInterval)
  /\ ~reach[link.over] => deaf = 0

\* A probe that has not tried to connect yet will do so at once.
FreshProbe ==
  /\ pc = "connect" /\ caller = "loop" /\ ~turned
  /\ ~link.on /\ link.next = 0
  /\ Bounded(deaf + busy, WakeInterval + MaxBlock)
  /\ ~reach[link.over] => deaf = 0

ProbeDeaf == power = "prepared" =>
  FreshProbe \/ (Blocked = 0 /\ deaf <= probed /\ (turned => deaf < Window))

InTime == AwakeDeaf /\ EnteringDeaf /\ AsleepDeaf /\ WaitingDeaf /\ ProbeDeaf

DeafInv == Shape /\ InTime

-----------------------------------------------------------------------------
(* The operators on the link: their type, and what they leave of a session over WiFi. *)

\* m is no more silent than l, and as long by local commands.
SameSilence(l, m) == m.silent = 0 \/ (m.silent = l.silent /\ m.typed = l.typed)

\* m, which follows l, has published if it has a session over WiFi.
Spoken(l, m) ==
  /\ m \in Link /\ Attached(m)
  /\ SameSilence(l, m)
  /\ m.live /\ m.over = "wifi" => m.silent = 0

\* m, which follows l, has the session of l over WiFi, a new one, or none.
Follows(l, m) ==
  /\ m \in Link /\ Attached(m)
  /\ SameSilence(l, m)
  /\ m.live /\ m.over = "wifi" => m.silent = 0 \/ (l.live /\ l.over = "wifi")

LEMMA Times ==
  /\ ReconnectEvery \in Nat \ {0} /\ TelemetryEvery \in Nat \ {0} /\ StateEvery \in Nat \ {0}
  /\ KeepAlive \in Nat \ {0} /\ After \in Nat \ {0} /\ WakeInterval \in Nat \ {0}
  /\ Window \in Nat \ {0} /\ MaxBlock \in Nat /\ MaxTrouble \in Nat /\ MaxDepth \in Nat
  /\ Wrap \in Nat \ {0} /\ ReconnectEvery < Wrap
<1>1. Wrap \in Nat /\ ReconnectEvery < Wrap /\ ReconnectEvery \in Nat
  BY TimeAssumption
<1>2. QED
  BY <1>1, TimeAssumption

LEMMA FailedLink ==
  ASSUME NEW l \in Link, NEW f \in Failed(l)
  PROVE  f = [l EXCEPT !.trouble = l.trouble + 1] /\ f \in Link /\ f.trouble # l.trouble
  BY Times DEF Failed, Link

LEMMA LostLink ==
  ASSUME NEW l \in Link
  PROVE  /\ Lost(l) \in Link /\ ~Lost(l).live /\ Lost(l).silent = 0 /\ Lost(l).typed = 0
         /\ Lost(l).over = l.over /\ Lost(l).on = l.on /\ Lost(l).next = l.next
         /\ Lost(l).trouble = l.trouble
  BY DEF Lost, Link

LEMMA OffLink ==
  ASSUME NEW l \in Link
  PROVE  Off(l) \in Link /\ ~Off(l).live /\ ~Off(l).on /\ Off(l).silent = 0
         /\ Off(l).over = l.over /\ Off(l).trouble = l.trouble
<1>1. Lost(l) \in Link /\ ~Lost(l).live /\ Lost(l).silent = 0 /\ Lost(l).over = l.over
      /\ Lost(l).trouble = l.trouble
  BY LostLink
<1> HIDE DEF Lost
<1>2. QED
  BY <1>1 DEF Off, Link

LEMMA ReconnectNowLink ==
  ASSUME NEW l \in Link
  PROVE  /\ ReconnectNow(l) \in Link /\ ~ReconnectNow(l).live /\ ~ReconnectNow(l).on
         /\ ReconnectNow(l).silent = 0 /\ ReconnectNow(l).next = 0
         /\ ReconnectNow(l).over = l.over /\ ReconnectNow(l).trouble = l.trouble
<1>1. 0 \in 0..(Wrap - 1)
  BY Times
<1>2. QED
  BY <1>1, OffLink DEF ReconnectNow, Link

LEMMA PublishLink ==
  ASSUME NEW l \in Link, Attached(l), NEW s \in {"awake", "sleeping"}, NEW m \in Publish(l, s)
  PROVE  Spoken(l, m) /\ m.over = l.over
<1>0. l.live \in BOOLEAN /\ l.on \in BOOLEAN
  BY DEF Link
<1>1. CASE l.live /\ l.over = "wifi"
  <2>1. l.on
    BY <1>1 DEF Attached
  <2>2. m = [l EXCEPT !.silent = 0, !.typed = 0, !.told = s]
    BY <1>1, <2>1 DEF Publish
  <2>3. QED
    BY <2>1, <2>2 DEF Spoken, SameSilence, Attached, Link
<1>2. CASE l.live /\ l.over # "wifi"
  <2>1. CASE m = [l EXCEPT !.on = TRUE, !.told = s]
    BY <1>2, <2>1 DEF Spoken, SameSilence, Attached, Link
  <2>2. CASE \E f \in Failed(l) \cup Failed([l EXCEPT !.told = s]) : m = [f EXCEPT !.on = FALSE]
    <3>1. PICK f \in Failed(l) \cup Failed([l EXCEPT !.told = s]) : m = [f EXCEPT !.on = FALSE]
      BY <2>2
    <3> DEFINE k == [l EXCEPT !.told = s]
    <3>2. k \in Link /\ k.silent = l.silent /\ k.typed = l.typed /\ k.over = l.over
      BY DEF Link
    <3>3. f \in Link /\ f.silent = l.silent /\ f.typed = l.typed /\ f.over = l.over
      <4> HIDE DEF k
      <4>1. CASE f \in Failed(l)
        BY <4>1, FailedLink DEF Link
      <4>2. CASE f \in Failed(k)
        BY <3>2, <4>2, FailedLink DEF Link
      <4>3. QED
        BY <4>1, <4>2 DEF k
    <3>4. QED
      BY <1>2, <3>1, <3>3 DEF Spoken, SameSilence, Attached, Link
  <2>3. m = [l EXCEPT !.on = TRUE, !.told = s]
        \/ m \in {[f EXCEPT !.on = FALSE] : f \in Failed(l) \cup Failed([l EXCEPT !.told = s])}
    BY <1>2 DEF Publish
  <2>4. QED
    BY <2>1, <2>2, <2>3, Zenon
<1>3. CASE ~l.live
  <2>1. m = [l EXCEPT !.on = FALSE] \/ m = l
    BY <1>3 DEF Publish
  <2>2. QED
    BY <1>3, <2>1 DEF Spoken, SameSilence, Attached, Link
<1>4. QED
  BY <1>0, <1>1, <1>2, <1>3

LEMMA SubscribeLink ==
  ASSUME NEW l \in Link, Attached(l), NEW m \in Subscribe(l)
  PROVE  Follows(l, m) /\ m.over = l.over /\ (m.live => l.live)
<1> DEFINE done == [l EXCEPT !.subscribed = TRUE]
<1>0. done \in Link /\ l.live \in BOOLEAN /\ done.over = l.over
      /\ done.silent = l.silent /\ done.typed = l.typed
  BY DEF Link
<1>1. CASE ~l.live
  <2>1. m = [done EXCEPT !.on = (l.over = "wifi")]
    BY <1>1 DEF Subscribe
  <2>2. QED
    BY <1>1, <2>1 DEF Follows, SameSilence, Attached, Link
<1>2. CASE l.live /\ m = [done EXCEPT !.heard = Topic]
  BY <1>2 DEF Follows, SameSilence, Attached, Link
<1>3. CASE l.live /\ m # [done EXCEPT !.heard = Topic]
  <2> DEFINE Cut(h) == [done EXCEPT !.heard = h]
  <2>1. l.over # "wifi" /\ m \in {[f EXCEPT !.on = TransportTopic \in f.heard] :
                                  f \in UNION {Failed(Cut(h)) : h \in SUBSET Topic}}
    BY <1>3 DEF Subscribe
  <2>2. PICK f \in UNION {Failed(Cut(h)) : h \in SUBSET Topic} :
               m = [f EXCEPT !.on = TransportTopic \in f.heard]
    BY <2>1, Zenon
  <2> PICK h \in SUBSET Topic : f \in Failed(Cut(h))
    BY <2>2, Zenon
  <2>3. Cut(h) \in Link /\ Cut(h).over = l.over
        /\ Cut(h).silent = l.silent /\ Cut(h).typed = l.typed
    BY <1>0 DEF Link
  <2>4. f \in Link /\ f.over = l.over /\ f.silent = l.silent /\ f.typed = l.typed
    <3> HIDE DEF Cut
    <3> QED
      BY <2>3, FailedLink DEF Link
  <2>5. (TransportTopic \in f.heard) \in BOOLEAN
    <3> HIDE DEF Cut, done
    <3> QED
      OBVIOUS
  <2>6. m \in Link /\ m.over = f.over /\ m.silent = f.silent /\ m.typed = f.typed
    BY <2>2, <2>4, <2>5 DEF Link
  <2>7. QED
    BY <1>3, <2>1, <2>4, <2>6 DEF Follows, SameSilence, Attached
<1>4. QED
  BY <1>0, <1>1, <1>2, <1>3

LEMMA AttemptLink ==
  ASSUME NEW l \in Link, now \in 0..(Wrap - 1)
  PROVE  /\ Attempt(l) \in Link /\ Attempt(l).live = l.live /\ Attempt(l).over = l.over
         /\ Attempt(l).on = l.on /\ Attempt(l).silent = l.silent
         /\ Attempt(l).typed = l.typed /\ Attempt(l).trouble = l.trouble
<1>1. (now + ReconnectEvery) % Wrap \in 0..(Wrap - 1)
  BY Times, SMT
<1>2. QED
  BY <1>1 DEF Attempt, Link

LEMMA RefusedLink ==
  ASSUME NEW l \in Link, NEW m \in Refused(l)
  PROVE  Spoken(l, m) /\ m.trouble = l.trouble /\ m.over = l.over
<1>1. CASE m = Off(l)
  BY <1>1, OffLink DEF Spoken, SameSilence, Attached
<1>2. CASE l.over # "wifi" /\ m = [l EXCEPT !.on = FALSE]
  BY <1>2 DEF Spoken, SameSilence, Attached, Link
<1>3. QED
  BY <1>1, <1>2 DEF Refused

LEMMA NewLink ==
  ASSUME NEW a \in Link
  PROVE  /\ [Off(a) EXCEPT !.on = TRUE, !.live = TRUE] \in Link
         /\ [Off(a) EXCEPT !.on = TRUE, !.live = TRUE].on
         /\ [Off(a) EXCEPT !.on = TRUE, !.live = TRUE].live
         /\ [Off(a) EXCEPT !.on = TRUE, !.live = TRUE].silent = 0
         /\ [Off(a) EXCEPT !.on = TRUE, !.live = TRUE].trouble = a.trouble
         /\ [Off(a) EXCEPT !.on = TRUE, !.live = TRUE].over = a.over
<1>1. Off(a) \in Link /\ Off(a).silent = 0 /\ Off(a).trouble = a.trouble /\ Off(a).over = a.over
  BY OffLink
<1> HIDE DEF Off
<1>2. QED
  BY <1>1 DEF Link

\* What ensureConnected leaves follows what it found, and without a connection it leaves no
\* silent session.
LEMMA EnsuredLink ==
  ASSUME NEW l \in Link, Attached(l), now \in 0..(Wrap - 1), NEW e \in Ensured(l)
  PROVE  Follows(l, e.link) /\ (~e.ok => Spoken(l, e.link)) /\ e.link.over = l.over
<1>1. CASE l.on
  <2>1. e.ok /\ (e.link = l \/ e.link \in Subscribe(l))
    BY <1>1 DEF Ensured
  <2>2. CASE e.link = l
    BY <2>1, <2>2 DEF Follows, SameSilence, Link
  <2>3. QED
    BY <2>1, <2>2, SubscribeLink
<1>2. CASE ~l.on /\ now < l.next
  <2>1. e.link = l
    BY <1>2 DEF Ensured
  <2>2. QED
    BY <1>2, <2>1 DEF Follows, Spoken, SameSilence, Attached, Link
<1>3. CASE ~l.on /\ ~(now < l.next)
  <2> DEFINE a == Attempt(l)
             new == [Off(a) EXCEPT !.on = TRUE, !.live = TRUE]
  <2>0. a \in Link /\ a.silent = l.silent /\ a.typed = l.typed /\ a.over = l.over
    BY AttemptLink
  <2>1. CASE ~e.ok /\ \E f \in Failed(a) \cup {a} : e.link \in Refused(f)
    <3>1. PICK f \in Failed(a) \cup {a} : e.link \in Refused(f)
      BY <2>1
    <3>2. f \in Link /\ f.silent = a.silent /\ f.typed = a.typed /\ f.over = a.over
      BY <2>0, FailedLink DEF Link
    <3>3. Spoken(f, e.link) /\ e.link.over = f.over
      BY <3>1, <3>2, RefusedLink
    <3>4. QED
      BY <2>0, <3>2, <3>3 DEF Spoken, Follows, SameSilence
  <2>2. CASE e.ok /\ e.link \in Subscribe(new)
    <3>1. new \in Link /\ new.silent = 0 /\ Attached(new) /\ new.over = l.over
      BY <2>0, NewLink DEF Attached
    <3>2. Follows(new, e.link) /\ e.link.over = new.over
      BY <2>2, <3>1, SubscribeLink
    <3>3. QED
      BY <2>2, <3>1, <3>2 DEF Follows, SameSilence
  <2>3. QED
    BY <1>3, <2>1, <2>2 DEF Ensured
<1>4. QED
  BY <1>1, <1>2, <1>3

LEMMA ReportLink ==
  ASSUME NEW l \in Link, Attached(l), now \in 0..(Wrap - 1),
         NEW s \in {"awake", "sleeping"}, NEW m \in Report(l, s)
  PROVE  Spoken(l, m) /\ m.over = l.over
<1>1. PICK e \in Ensured(l) : m \in IF e.ok THEN Publish(e.link, s) ELSE {e.link}
  BY DEF Report
<1>2. Follows(l, e.link) /\ (~e.ok => Spoken(l, e.link)) /\ e.link.over = l.over
  BY EnsuredLink
<1>3. CASE e.ok
  <2>1. Spoken(e.link, m) /\ m.over = e.link.over
    BY <1>1, <1>2, <1>3, PublishLink DEF Follows
  <2>2. QED
    BY <1>2, <2>1 DEF Spoken, Follows, SameSilence
<1>4. CASE ~e.ok
  BY <1>1, <1>2, <1>4
<1>5. QED
  BY <1>3, <1>4

LEMMA SetModeLink ==
  ASSUME NEW l \in Link, Attached(l), NEW t \in Transports, NEW m \in SetMode(l, t)
  PROVE  Follows(l, m)
<1>1. CASE m = l
  BY <1>1 DEF Follows, SameSilence, Link
<1>2. CASE m = [Off(l) EXCEPT !.over = t]
  BY <1>2, OffLink DEF Follows, SameSilence, Attached, Link
<1>3. QED
  BY <1>1, <1>2 DEF SetMode

-----------------------------------------------------------------------------
(* The steps: types, and where the task stands. *)

LEMMA SameLink ==
  ASSUME NEW l \in Link, Attached(l)
  PROVE  Follows(l, l)
  BY DEF Follows, SameSilence, Link

LEMMA SpokenFollows ==
  ASSUME NEW l, NEW m, Spoken(l, m)
  PROVE  Follows(l, m)
  BY DEF Spoken, Follows

LEMMA ToldType ==
  ASSUME NEW l \in Link
  PROVE  l.told \in {"awake", "sleeping"}
  BY DEF Link

\* What the network and the broker do.
LEMMA OutsideLink ==
  ASSUME Shape, SessionLost \/ SocketCloses \/ \E t \in Transports : NetworkDown(t) \/ NetworkUp(t)
  PROVE  Follows(link, link') /\ link'.over = link.over /\ link'.next = link.next
         /\ (link'.live => link.live /\ link'.silent = link.silent /\ link'.typed = link.typed)
         /\ (link'.on => link.on)
         /\ reach' \in [Transports -> BOOLEAN]
<1>0. link \in Link /\ Attached(link) /\ reach \in [Transports -> BOOLEAN]
  BY DEF Shape, TypeOK
<1>1. ASSUME NEW f \in Failed(link)
      PROVE  /\ f \in Link /\ f.silent = link.silent /\ f.typed = link.typed /\ f.over = link.over
             /\ f.next = link.next /\ f.live = link.live /\ f.on = link.on
  BY <1>0, FailedLink DEF Link
<1>2. ASSUME NEW f \in Failed(link)
      PROVE  /\ Lost(f) \in Link /\ Lost(f).silent = 0 /\ Lost(f).over = link.over
             /\ Lost(f).next = link.next /\ ~Lost(f).live /\ Lost(f).on = link.on
  BY <1>1, LostLink
<1>3. CASE SessionLost
  <2>1. PICK f \in Failed(link) : link' = Lost(f)
    BY <1>3 DEF SessionLost
  <2>2. reach' = reach
    BY <1>3 DEF SessionLost
  <2>3. QED
    BY <1>0, <1>2, <2>1, <2>2 DEF Follows, SameSilence, Attached
<1>4. CASE SocketCloses
  BY <1>0, <1>4 DEF SocketCloses, Follows, SameSilence, Attached, Link
<1>5. ASSUME NEW t \in Transports, NetworkDown(t)
      PROVE  /\ Follows(link, link') /\ link'.over = link.over /\ link'.next = link.next
             /\ (link'.live => link.live /\ link'.silent = link.silent
                              /\ link'.typed = link.typed)
             /\ (link'.on => link.on)
             /\ reach' \in [Transports -> BOOLEAN]
  <2>1. PICK f \in Failed(link) : link' = IF t = link.over THEN Lost(f) ELSE f
    BY <1>5 DEF NetworkDown
  <2>2. reach' \in [Transports -> BOOLEAN]
    BY <1>0, <1>5 DEF NetworkDown
  <2>3. QED
    BY <1>0, <1>1, <1>2, <2>1, <2>2 DEF Follows, SameSilence, Attached
<1>6. ASSUME NEW t \in Transports, NetworkUp(t)
      PROVE  link' = link /\ reach' \in [Transports -> BOOLEAN]
  BY <1>0, <1>6 DEF NetworkUp
<1>7. QED
  BY <1>0, <1>3, <1>4, <1>5, <1>6, SameLink

\* What the facts of Shape give the operators on the link.
LEMMA ShapeFacts ==
  ASSUME Shape
  PROVE  link \in Link /\ Attached(link) /\ now \in 0..(Wrap - 1) /\ Follows(link, link)
         /\ link.told \in {"awake", "sleeping"}
  BY SameLink, ToldType DEF Shape, TypeOK

\* A command that has run has published.
LEMMA CommandLink ==
  ASSUME Shape, Answer \/ \E t \in Transports : TransportSet(t)
  PROVE  Spoken(link, link')
<1>1. CASE Answer
  BY <1>1, ShapeFacts, PublishLink, ReportLink DEF Answer
<1>2. ASSUME NEW t \in Transports, TransportSet(t)
      PROVE  Spoken(link, link')
  <2>1. PICK l \in SetMode(link, t) : link' \in Report(ReconnectNow(l), link.told)
    BY <1>2 DEF TransportSet
  <2>2. l \in Link
    BY ShapeFacts, SetModeLink DEF Follows
  <2>3. Attached(ReconnectNow(l)) /\ ReconnectNow(l) \in Link /\ ReconnectNow(l).silent = 0
    BY <2>2, ReconnectNowLink DEF Attached
  <2>4. Spoken(ReconnectNow(l), link')
    BY ShapeFacts, <2>1, <2>3, ReportLink
  <2>5. QED
    BY <2>3, <2>4 DEF Spoken, SameSilence
<1>3. QED
  BY <1>1, <1>2

\* So has a pass with telemetry.
LEMMA ReportsLink ==
  ASSUME Shape, Reports
  PROVE  Follows(link, link') /\ (TelemetryDue => Spoken(link, link'))
<1>1. PICK l \in IF TelemetryDue THEN Report(link, link.told) ELSE {link} :
             link' \in IF StateDue THEN Report(l, "awake") ELSE {l}
  BY DEF Reports
<1>2. Follows(link, l) /\ (TelemetryDue => Spoken(link, l))
  BY ShapeFacts, <1>1, ReportLink, SpokenFollows
<1>3. link' = l \/ Spoken(l, link')
  BY ShapeFacts, <1>1, <1>2, ReportLink DEF Follows
<1>4. CASE Spoken(l, link')
  <2>1. Spoken(link, link')
    BY <1>2, <1>4 DEF Spoken, Follows, SameSilence
  <2>2. QED
    BY <2>1, SpokenFollows
<1>5. QED
  BY <1>2, <1>3, <1>4

\* A sleep and the networks of a probe begin without a session, and the probe will connect
\* at once.
LEMMA SleepLink ==
  ASSUME Shape, FallAsleep \/ Prepare
  PROVE  Follows(link, link') /\ ~link'.live /\ ~link'.on /\ link'.next = 0
<1>1. CASE FallAsleep
  <2>1. PICK l \in Report(link, "sleeping") : link' = ReconnectNow(l)
    BY <1>1 DEF FallAsleep
  <2>2. Spoken(link, l)
    BY ShapeFacts, <2>1, ReportLink
  <2>3. QED
    BY <2>1, <2>2, ReconnectNowLink DEF Spoken, Follows, SameSilence, Attached
<1>2. CASE Prepare
  BY ShapeFacts, <1>2, ReconnectNowLink DEF Prepare, Follows, SameSilence, Attached
<1>3. QED
  BY <1>1, <1>2

\* The steps of the task between the passes that leave the link alone.
Between == PollMqtt \/ StayAwake \/ EnterStandby \/ Wake \/ Probe

LEMMA LocalLink ==
  ASSUME Shape, NEW c \in Console, Local(c)
  PROVE  Follows(link, link')
<1>1. CASE LocalCommand(c)
  BY <1>1, ShapeFacts DEF LocalCommand
<1>2. CASE LocalPublish(c)
  BY <1>2, ShapeFacts, ReportLink, SpokenFollows DEF LocalPublish
<1>3. ASSUME NEW t \in Transports, LocalSwitch(c, t)
      PROVE  Follows(link, link')
  BY <1>3, ShapeFacts, SetModeLink DEF LocalSwitch
<1>4. QED
  BY <1>1, <1>2, <1>3 DEF Local

LEMMA TaskLink ==
  ASSUME Shape, LoopTask
  PROVE  Follows(link, link')
<1>1. CASE EnsureConnected
  BY <1>1, ShapeFacts, EnsuredLink DEF EnsureConnected
<1>2. CASE \E t \in Topic : HandleMessage(t)
  BY <1>2, ShapeFacts DEF HandleMessage
<1>3. ASSUME NEW t \in Transports, ConsoleSwitch(t)
      PROVE  Follows(link, link')
  BY <1>3, ShapeFacts, SetModeLink DEF ConsoleSwitch
<1>4. CASE Between
  BY <1>4, ShapeFacts DEF Between, PollMqtt, StayAwake, EnterStandby, Wake, Probe
<1>5. CASE ProbeEnds
  BY <1>5, ShapeFacts, ReportLink, SpokenFollows DEF ProbeEnds
<1>6. QED
  BY <1>1, <1>2, <1>3, <1>4, <1>5, CommandLink, ReportsLink, SleepLink, LocalLink, SpokenFollows
     DEF LoopTask, HandlePowerState, Between

LEMMA AgedLink ==
  ASSUME NEW l \in Link, Attached(l)
  PROVE  Aged(l) \in Link /\ Attached(Aged(l)) /\ Aged(l).on = l.on /\ Aged(l).over = l.over
         /\ Aged(l).next = l.next /\ (Aged(l).live => l.live)
         /\ IF l.live /\ l.over = "wifi"
            THEN Aged(l).silent = l.silent + 1
                 /\ Aged(l).typed = (IF Typing THEN l.typed + 1 ELSE l.typed)
            ELSE Aged(l) = l
<1>1. CASE ~(l.live /\ l.over = "wifi")
  BY <1>1 DEF Aged
<1>2. CASE l.live /\ l.over = "wifi"
  <2> DEFINE k == IF l.silent < KeepAlive THEN l ELSE Lost(l)
             b == IF Typing THEN l.typed + 1 ELSE l.typed
  <2>1. Aged(l) = [k EXCEPT !.silent = l.silent + 1, !.typed = b]
    BY <1>2 DEF Aged
  <2>2. l.silent + 1 \in Nat /\ l.on
    BY <1>2 DEF Link, Attached
  <2>3. b \in Nat
    BY DEF Link
  <2>4. k \in Link /\ k.on = l.on /\ k.over = l.over /\ k.next = l.next /\ (k.live => l.live)
    BY LostLink, <1>2 DEF Link
  <2> HIDE DEF k, b
  <2>5. QED
    BY <1>2, <2>1, <2>2, <2>3, <2>4 DEF Link, Attached, b
<1>3. QED
  BY <1>1, <1>2

-----------------------------------------------------------------------------
(* Types, and where the task stands. *)

\* Where the task stands, as a whole and for the steps.
Standing ==
  /\ power \in {"awake", "entering", "asleep", "probe", "prepared", "woken"}
  /\ pc \in {"usb", "wifi", "connect", "drain", "answer", "mqtt_transport", "transport_set",
             "probed", "asleep"}
  /\ caller \in {"usb", "wifi", "loop"}
  /\ depth \in 0..MaxDepth /\ busy \in Nat /\ turned \in BOOLEAN /\ taken \in BOOLEAN

Ages ==
  /\ idle \in 0..After /\ probed \in 0..Window
  /\ telemetry \in 0..TelemetryEvery /\ state \in 0..StateEvery

LEMMA ShapeParts ==
  Shape <=> /\ now \in 0..(Wrap - 1) /\ link \in Link /\ reach \in [Transports -> BOOLEAN]
            /\ deaf \in Nat /\ Attached(link) /\ Standing /\ Ages /\ Passes
<1>1. Console \cup {"connect", "drain", "answer", "mqtt_transport", "transport_set", "probed", "asleep"}
      = {"usb", "wifi", "connect", "drain", "answer", "mqtt_transport", "transport_set", "probed",
         "asleep"}
  BY DEF Console
<1>2. Console \cup {"loop"} = {"usb", "wifi", "loop"}
  BY DEF Console
<1>3. QED
  BY <1>1, <1>2 DEF Shape, TypeOK, Standing, Ages

LEMMA ForgivenDeaf ==
  ASSUME Forgiven
  PROVE  deaf' \in {0, deaf}
  BY DEF Forgiven

LEMMA InitShape == Init => Shape
<1> SUFFICES ASSUME Init PROVE Shape
  OBVIOUS
<1>1. 0 \in 0..(Wrap - 1) /\ 0 \in 0..MaxTrouble /\ 0 \in 0..MaxDepth /\ 0 \in 0..After
      /\ 0 \in 0..Window /\ 0 \in 0..TelemetryEvery /\ StateEvery \in 0..StateEvery
  BY Times
<1>2. link \in [over : Transports, on : {FALSE}, live : {FALSE}, heard : {{}},
               subscribed : {FALSE}, next : {0}, told : {"awake", "sleeping"},
               silent : {0}, typed : {0}, trouble : {0}]
  BY DEF Init
<1>3. link \in Link /\ Attached(link)
  <2>1. link.over \in Transports /\ link.on = FALSE /\ link.live = FALSE /\ link.heard = {}
        /\ link.subscribed = FALSE /\ link.next = 0 /\ link.told \in {"awake", "sleeping"}
        /\ link.silent = 0 /\ link.typed = 0 /\ link.trouble = 0
    BY <1>2
  <2>2. link = [over |-> link.over, on |-> link.on, live |-> link.live, heard |-> link.heard,
                subscribed |-> link.subscribed, next |-> link.next, told |-> link.told,
                silent |-> link.silent, typed |-> link.typed, trouble |-> link.trouble]
    BY <1>2
  <2>3. link.on \in BOOLEAN /\ link.live \in BOOLEAN /\ link.subscribed \in BOOLEAN
    BY <2>1, Zenon
  <2>4. link.heard \in SUBSET Topic
    BY <2>1, Zenon
  <2>5. link.next \in 0..(Wrap - 1) /\ link.silent \in Nat /\ link.typed \in Nat
        /\ link.trouble \in 0..MaxTrouble
    BY <1>1, <2>1
  <2>6. link \in Link
    BY <2>1, <2>2, <2>3, <2>4, <2>5 DEF Link
  <2>7. QED
    BY <2>1, <2>6 DEF Attached
<1>4. now = 0 /\ reach \in [Transports -> BOOLEAN] /\ deaf = 0
  BY DEF Init
<1>5. Standing /\ Ages /\ Passes
  <2>1. power = "awake" /\ pc = "usb" /\ caller = "loop" /\ depth = 0 /\ busy = 0 /\ turned = FALSE
        /\ taken = FALSE /\ idle = 0 /\ probed = 0 /\ telemetry = 0 /\ state = StateEvery
    BY DEF Init
  <2>2. Standing
    BY <1>1, <2>1 DEF Standing
  <2>3. Ages
    BY <1>1, <2>1 DEF Ages
  <2>4. Passes
    BY <2>1 DEF Passes, Handling
  <2>5. QED
    BY <2>2, <2>3, <2>4
<1>6. QED
  BY <1>1, <1>3, <1>4, <1>5, ShapeParts

\* A step outside the task leaves it and its timers alone.
LEMMA OutsideStanding ==
  ASSUME SessionLost \/ SocketCloses \/ \E t \in Transports : NetworkDown(t) \/ NetworkUp(t)
  PROVE  UNCHANGED <<now, power, pc, busy, task, clocks>> /\ deaf' \in {0, deaf}
<1>1. CASE SessionLost
  BY <1>1, ForgivenDeaf DEF SessionLost
<1>2. CASE SocketCloses
  BY <1>2 DEF SocketCloses
<1>3. ASSUME NEW t \in Transports, NetworkDown(t)
      PROVE  UNCHANGED <<now, power, pc, busy, task, clocks>> /\ deaf' \in {0, deaf}
  BY <1>3, ForgivenDeaf DEF NetworkDown
<1>4. ASSUME NEW t \in Transports, NetworkUp(t)
      PROVE  UNCHANGED <<now, power, pc, busy, task, clocks>> /\ deaf' \in {0, deaf}
  BY <1>4 DEF NetworkUp
<1>5. QED
  BY <1>1, <1>2, <1>3, <1>4

LEMMA OutsideShape ==
  ASSUME Shape, SessionLost \/ SocketCloses \/ \E t \in Transports : NetworkDown(t) \/ NetworkUp(t)
  PROVE  Shape'
<1>1. link' \in Link /\ Attached(link') /\ reach' \in [Transports -> BOOLEAN]
  BY OutsideLink DEF Follows
<1>2. UNCHANGED <<now, power, pc, busy, caller, depth, turned, taken, idle, probed, telemetry, state>>
      /\ deaf' \in {0, deaf}
  BY OutsideStanding DEF clocks, task
<1>3. Standing' /\ Ages' /\ Passes'
  BY <1>2, ShapeParts DEF Standing, Ages, Passes, Handling
<1>4. QED
  BY <1>1, <1>2, <1>3, ShapeParts DEF Shape, TypeOK, Standing, Ages, Console

\* What every step of the task leaves alone.
LEMMA TaskRest ==
  ASSUME LoopTask
  PROVE  UNCHANGED <<now, reach>> /\ deaf' \in {0, deaf}
<1>1. CASE \E t \in Topic : HandleMessage(t)
  BY <1>1 DEF HandleMessage
<1>2. CASE \E t \in Transports : ConsoleSwitch(t)
  BY <1>2 DEF ConsoleSwitch
<1>3. CASE \E t \in Transports : TransportSet(t)
  BY <1>3, ForgivenDeaf DEF TransportSet
<1>4. CASE EnsureConnected \/ Answer \/ Reports \/ FallAsleep \/ ProbeEnds
  BY <1>4, ForgivenDeaf DEF EnsureConnected, Answer, Reports, FallAsleep, ProbeEnds
<1>5. CASE Between \/ Prepare
  BY <1>5 DEF Between, PollMqtt, StayAwake, EnterStandby, Wake, Prepare, Probe
<1>6. ASSUME NEW c \in Console, Local(c)
      PROVE  UNCHANGED <<now, reach>> /\ deaf' \in {0, deaf}
  BY <1>6, ForgivenDeaf DEF Local, LocalCommand, LocalPublish, LocalSwitch
<1>7. QED
  BY <1>1, <1>2, <1>3, <1>4, <1>5, <1>6 DEF LoopTask, HandlePowerState, Between

LEMMA TaskStanding ==
  ASSUME Standing, Ages, Passes, LoopTask
  PROVE  Standing' /\ Ages' /\ Passes'
<1> USE DEF Standing, Ages, Passes, Handling, Ready, Console
<1>1. CASE EnsureConnected
  BY <1>1 DEF EnsureConnected, clocks, task
<1>2. ASSUME NEW t \in Topic, HandleMessage(t)
      PROVE  Standing' /\ Ages' /\ Passes'
  <2>1. pc' \in {"answer", "mqtt_transport", "transport_set"}
        /\ (pc' = "mqtt_transport" => depth < MaxDepth)
    BY <1>2 DEF HandleMessage, Handlers
  <2>2. busy' \in Nat /\ idle' \in 0..After
    BY <1>2, Times DEF HandleMessage
  <2>3. UNCHANGED <<caller, depth, turned, probed, telemetry, state>> /\ taken' = TRUE
        /\ power' = (IF power = "prepared" /\ caller = "loop" THEN "woken"
                    ELSE IF power = "woken" THEN "woken" ELSE "awake")
    BY <1>2 DEF HandleMessage, Woken
  <2>4. pc = "drain"
    BY <1>2 DEF HandleMessage
  <2>5. QED
    BY <2>1, <2>2, <2>3, <2>4
<1>3. ASSUME NEW t \in Transports, ConsoleSwitch(t)
      PROVE  Standing' /\ Ages' /\ Passes'
  <2>1. depth' = depth + 1 /\ pc' = "connect" /\ pc = "mqtt_transport" /\ busy = 0
        /\ UNCHANGED <<power, busy, caller, turned, taken, idle, probed, telemetry, state>>
    BY <1>3 DEF ConsoleSwitch, clocks
  <2>2. depth < MaxDepth /\ power \in {"awake", "woken"}
    BY <2>1
  <2>3. depth' \in 0..MaxDepth /\ depth' > 0
    BY <2>1, <2>2, Times
  <2>4. QED
    BY <2>1, <2>2, <2>3
<1>4. ASSUME NEW t \in Transports, TransportSet(t)
      PROVE  Standing' /\ Ages' /\ Passes'
  <2>1. pc = "transport_set" /\ busy = 0 /\ pc' = "drain"
        /\ UNCHANGED <<power, caller, depth, busy, turned, taken, idle, probed, telemetry, state>>
    BY <1>4 DEF TransportSet, clocks, task
  <2>2. QED
    BY <2>1
<1>5. CASE Answer
  BY <1>5 DEF Answer, clocks, task
<1>6. CASE Reports
  <2>1. /\ pc = "drain" /\ busy = 0
        /\ pc' = (IF depth > 0 THEN "answer" ELSE IF caller # "loop" THEN caller
                 ELSE IF power = "awake" THEN "usb" ELSE "probed")
        /\ depth' = (IF depth > 0 THEN depth - 1 ELSE 0)
        /\ caller' = (IF depth > 0 THEN caller ELSE "loop")
        /\ turned' \in BOOLEAN /\ UNCHANGED <<power, busy, taken, idle, probed>>
    BY <1>6 DEF Reports, Returns
  <2>2. telemetry' \in 0..TelemetryEvery /\ state' \in 0..StateEvery
    BY <1>6, Times DEF Reports
  <2>3. depth' \in 0..MaxDepth
    BY <2>1, Times
  <2>4. power \notin {"asleep"}
    BY <2>1
  <2>5. QED
    BY <2>1, <2>2, <2>3, <2>4
<1>7. CASE FallAsleep
  BY <1>7, Times DEF FallAsleep, clocks, task
<1>8. CASE Between
  <2>1. CASE Wake
    <3>1. probed' \in 0..Window
      BY <2>1, Times DEF Wake
    <3>2. QED
      BY <2>1, <3>1 DEF Wake
  <2>2. CASE PollMqtt \/ Probe
    BY <2>2 DEF PollMqtt, Probe, clocks, task
  <2>3. CASE StayAwake
    BY <2>3 DEF StayAwake, clocks, task
  <2>4. CASE EnterStandby
    BY <2>4 DEF EnterStandby, clocks
  <2>5. QED
    BY <1>8, <2>1, <2>2, <2>3, <2>4 DEF Between
<1>9. CASE Prepare
  <2>1. busy' \in Nat
    BY <1>9, Times DEF Prepare
  <2>2. QED
    BY <1>9, <2>1 DEF Prepare, clocks, task
<1>10. CASE ProbeEnds
  BY <1>10 DEF ProbeEnds, clocks
<1>11. ASSUME NEW c \in Console, Local(c)
       PROVE  Standing' /\ Ages' /\ Passes'
  <2>1. CASE LocalCommand(c)
    <3>1. busy' \in Nat
      BY <2>1, Times DEF LocalCommand
    <3>2. QED
      BY <2>1, <3>1 DEF LocalCommand, clocks, task
  <2>2. CASE LocalPublish(c)
    BY <2>2 DEF LocalPublish, clocks, task
  <2>3. ASSUME NEW t \in Transports, LocalSwitch(c, t)
        PROVE  Standing' /\ Ages' /\ Passes'
    <3>1. c \in {"usb", "wifi"} /\ pc = c /\ busy = 0 /\ pc' = "connect" /\ caller' = c
          /\ UNCHANGED <<power, busy, depth, turned, taken, idle, probed, telemetry, state>>
      BY <2>3 DEF LocalSwitch, clocks
    <3>2. QED
      BY <3>1
  <2>4. QED
    BY <1>11, <2>1, <2>2, <2>3 DEF Local
<1>12. QED
  BY <1>1, <1>2, <1>3, <1>4, <1>5, <1>6, <1>7, <1>8, <1>9, <1>10, <1>11
     DEF LoopTask, HandlePowerState, Between

LEMMA TaskShape ==
  ASSUME Shape, LoopTask
  PROVE  Shape'
<1>1. link' \in Link /\ Attached(link')
  BY TaskLink DEF Follows
<1>2. QED
  BY <1>1, TaskRest, TaskStanding, ShapeParts DEF Shape, TypeOK, Standing, Ages, Console

LEMMA TickShape ==
  ASSUME Shape, Tick
  PROVE  Shape'
<1>0. /\ now \in 0..(Wrap - 1) /\ link \in Link /\ reach \in [Transports -> BOOLEAN]
      /\ deaf \in Nat /\ Attached(link) /\ Standing /\ Ages /\ Passes
  BY ShapeParts
<1>1. link' \in Link /\ Attached(link')
  BY <1>0, AgedLink DEF Tick
<1>2. now' \in 0..(Wrap - 1)
  <2>1. now' = (now + 1) % Wrap
    BY DEF Tick
  <2>2. QED
    BY <1>0, <2>1, Times
<1>3. Ages'
  <2>1. /\ idle' = Up(idle, After) /\ probed' = Up(probed, Window)
        /\ telemetry' = Up(telemetry, TelemetryEvery) /\ state' = Up(state, StateEvery)
    BY DEF Tick
  <2>2. QED
    BY <1>0, <2>1, Times DEF Ages, Up
<1>4. deaf' \in Nat
  BY <1>0 DEF Tick
<1>5. Standing' /\ Passes'
  <2>1. UNCHANGED <<power, pc, caller, depth>> /\ turned' = FALSE /\ taken' = FALSE
        /\ busy' = IF busy > 0 THEN busy - 1 ELSE 0
    BY DEF Tick
  <2>2. busy' \in Nat /\ (busy' > 0 => busy > 0)
    BY <1>0, <2>1 DEF Standing
  <2>3. Standing'
    BY <1>0, <2>1, <2>2 DEF Standing
  <2>4. Passes'
    BY <1>0, <2>1, <2>2 DEF Passes, Handling
  <2>5. QED
    BY <2>3, <2>4
<1>6. reach' = reach
  BY DEF Tick
<1>7. QED
  BY <1>0, <1>1, <1>2, <1>3, <1>4, <1>5, <1>6 DEF Shape, TypeOK, Standing, Ages, Console

LEMMA NextShape == Shape /\ [Next]_vars => Shape'
<1> SUFFICES ASSUME Shape, [Next]_vars PROVE Shape'
  OBVIOUS
<1>1. CASE UNCHANGED vars
  BY <1>1 DEF vars, clocks, task, Shape, TypeOK, Passes, Handling, Attached
<1>2. QED
  BY <1>1, OutsideShape, TaskShape, TickShape DEF Next

\* Every variable keeps its type: the time of the next attempt stays within millis(), and
\* a pass never stands in more passes than MaxDepth.
THEOREM TypeCorrect == Spec => []TypeOK
<1>1. Shape => TypeOK
  BY DEF Shape
<1>2. QED
  BY InitShape, NextShape, <1>1, PTL DEF Spec

-----------------------------------------------------------------------------
(* The session over WiFi is fed. *)

LEMMA Blocks ==
  ASSUME NEW c \in Nat, NEW d \in Nat, c <= d
  PROVE  MaxBlock * c \in Nat /\ MaxBlock * c <= MaxBlock * d
         /\ MaxBlock * (c + 1) = MaxBlock * c + MaxBlock
  BY Times, SMT

LEMMA CommandsType ==
  ASSUME Shape
  PROVE  Commands \in 0..(MaxDepth + 1) /\ MaxBlock * Commands \in Nat
         /\ MaxBlock * Commands <= MaxBlock * (MaxDepth + 1)
<1>1. Commands \in 0..(MaxDepth + 1) /\ MaxDepth + 1 \in Nat
  BY Times, ShapeParts DEF Commands, Standing
<1>2. QED
  BY <1>1, Blocks

LEMMA FedTypes ==
  ASSUME Shape
  PROVE  /\ link \in Link /\ Attached(link) /\ link.silent \in Nat /\ link.typed \in Nat
         /\ busy \in Nat /\ Blocked \in Nat /\ telemetry \in 0..TelemetryEvery /\ telemetry \in Nat
         /\ depth \in Nat /\ depth >= 0
         /\ TelemetryEvery \in Nat \ {0} /\ MaxBlock * (MaxDepth + 1) \in Nat
<1>1. link \in Link /\ Attached(link) /\ busy \in Nat /\ telemetry \in 0..TelemetryEvery
      /\ depth \in 0..MaxDepth
  BY ShapeParts DEF Standing, Ages
<1>2. link.silent \in Nat /\ link.typed \in Nat
  BY <1>1 DEF Link
<1>3. MaxBlock * (MaxDepth + 1) \in Nat
  BY Times, Blocks
<1>4. QED
  BY <1>1, <1>2, <1>3, Times DEF Blocked

\* A link that follows the one before, while the commands are the same and nothing blocks, is
\* fed as well.
LEMMA FollowsFed ==
  ASSUME Shape, Fed, SessionIsFed, Follows(link, link'), Blocked = 0, Blocked' = 0,
         telemetry' = telemetry, Commands' = Commands
  PROVE  FedLink' /\ SessionIsFed'
<1>1. /\ link.silent \in Nat /\ link.typed \in Nat /\ MaxBlock * Commands \in Nat
      /\ link.silent <= TelemetryEvery + MaxBlock * (MaxDepth + 1) + link.typed
      /\ telemetry \in Nat /\ TelemetryEvery \in Nat /\ MaxBlock * (MaxDepth + 1) \in Nat
  BY CommandsType, FedTypes DEF SessionIsFed
<1>2. link'.silent = 0 \/ (link'.silent = link.silent /\ link'.typed = link.typed)
  BY DEF Follows, SameSilence
<1>3. link'.typed \in Nat
  BY DEF Follows, Link
<1>4. SessionIsFed'
  BY <1>1, <1>2, <1>3 DEF SessionIsFed
<1>5. FedLink'
  <2> SUFFICES ASSUME link'.live, link'.over = "wifi"
               PROVE  /\ link'.silent <= telemetry \/ telemetry = TelemetryEvery
                      /\ link'.silent + 0 <= TelemetryEvery + MaxBlock * Commands + link'.typed
    BY DEF FedLink
  <2>1. CASE link'.silent = 0
    BY <2>1, <1>1, <1>3
  <2>2. CASE link'.silent # 0
    <3>1. link.live /\ link.over = "wifi" /\ link'.silent = link.silent /\ link'.typed = link.typed
      BY <1>2, <2>2 DEF Follows
    <3>2. QED
      BY <3>1 DEF Fed, FedLink
  <2>3. QED
    BY <2>1, <2>2
<1>6. QED
  BY <1>4, <1>5

\* One that has published is fed, whatever ended.
LEMMA SpokenFed ==
  ASSUME Shape, SessionIsFed, Spoken(link, link'), Blocked' = 0,
         telemetry' \in Nat, depth' \in Nat
  PROVE  FedLink' /\ SessionIsFed'
<1>1. telemetry' \in Nat /\ Commands' \in Nat
  <2>1. \A n \in Nat : n + 1 \in Nat
    OBVIOUS
  <2>2. QED
    BY <2>1, Zenon DEF Commands
<1>2. MaxBlock * Commands' \in Nat
  BY <1>1, Blocks
<1>3. /\ link'.silent = 0 \/ (link'.silent = link.silent /\ link'.typed = link.typed)
      /\ (link'.live /\ link'.over = "wifi" => link'.silent = 0)
  BY DEF Spoken, SameSilence
<1>4. link'.typed \in Nat
  BY DEF Spoken, Link
<1>5. SessionIsFed'
  BY <1>3, <1>4, FedTypes DEF SessionIsFed
<1>6. FedLink'
  BY <1>1, <1>2, <1>3, <1>4, FedTypes DEF FedLink
<1>7. QED
  BY <1>5, <1>6

\* Without a session there is nothing to feed.
LEMMA NothingFed ==
  ASSUME Shape, SessionIsFed, Follows(link, link'), ~link'.live
  PROVE  FedLink' /\ SessionIsFed'
<1>1. link'.silent = 0 \/ (link'.silent = link.silent /\ link'.typed = link.typed)
  BY DEF Follows, SameSilence
<1>2. link'.typed \in Nat
  BY DEF Follows, Link
<1>3. SessionIsFed'
  BY <1>1, <1>2, FedTypes DEF SessionIsFed
<1>4. QED
  BY <1>3 DEF FedLink

LEMMA OutsideFed ==
  ASSUME FedInv, SessionLost \/ SocketCloses \/ \E t \in Transports : NetworkDown(t) \/ NetworkUp(t)
  PROVE  Fed' /\ SessionIsFed'
<1>0. Shape /\ Fed /\ SessionIsFed
  BY DEF FedInv
<1>1. Follows(link, link') /\ link'.over = link.over
      /\ (link'.live => link.live /\ link'.silent = link.silent /\ link'.typed = link.typed)
  BY <1>0, OutsideLink
<1>2. UNCHANGED <<pc, depth, busy, turned, telemetry>>
  BY OutsideStanding DEF clocks, task
<1>3. Commands' = Commands /\ Handling' = Handling /\ Blocked' = Blocked
  BY <1>2 DEF Commands, Handling, Blocked
<1>4. CASE link'.live
  BY <1>0, <1>1, <1>2, <1>3, <1>4 DEF Fed, FedLink, SessionIsFed
<1>5. CASE ~link'.live
  BY <1>0, <1>1, <1>2, <1>3, <1>5, NothingFed DEF Fed
<1>6. QED
  BY <1>4, <1>5

LEMMA LocalFed ==
  ASSUME FedInv, NEW c \in Console, Local(c)
  PROVE  Fed' /\ SessionIsFed'
<1>0. Shape /\ Fed /\ SessionIsFed /\ Follows(link, link')
  BY LocalLink DEF FedInv
<1>1. pc = c /\ busy = 0 /\ Blocked = 0 /\ ~Handling /\ c \notin {"answer", "mqtt_transport", "transport_set", "probed"}
  BY DEF Local, LocalCommand, LocalPublish, LocalSwitch, Ready, Blocked, Handling, Console
<1>2. UNCHANGED <<telemetry, turned, depth>>
      /\ (pc' = c \/ (pc' = "connect" /\ busy' = busy))
  <2>1. CASE LocalCommand(c)
    BY <1>1, <2>1 DEF LocalCommand, clocks, task
  <2>2. CASE LocalPublish(c)
    BY <1>1, <2>2 DEF LocalPublish, clocks, task
  <2>3. CASE \E t \in Transports : LocalSwitch(c, t)
    BY <2>3 DEF LocalSwitch, clocks
  <2>4. QED
    BY <2>1, <2>2, <2>3 DEF Local
<1>3. Blocked' = 0 /\ Commands' = Commands /\ pc' # "probed"
  BY <1>1, <1>2 DEF Blocked, Commands, Handling
<1>4. QED
  BY <1>0, <1>1, <1>2, <1>3, FollowsFed DEF Fed

LEMMA TaskFed ==
  ASSUME FedInv, LoopTask
  PROVE  Fed' /\ SessionIsFed'
<1>0. Shape /\ Fed /\ SessionIsFed /\ Follows(link, link') /\ telemetry' \in Nat /\ depth' \in Nat
  <2>1. Shape /\ Fed /\ SessionIsFed /\ Follows(link, link')
    BY TaskLink DEF FedInv
  <2>2. Standing' /\ Ages'
    BY <2>1, TaskStanding, ShapeParts
  <2>3. QED
    BY <2>1, <2>2, Times DEF Standing, Ages
<1>1. CASE EnsureConnected
  <2>1. busy' = busy /\ busy = 0 /\ telemetry' = telemetry /\ turned' = turned /\ depth' = depth
        /\ pc = "connect" /\ pc' = "drain"
    BY <1>1 DEF EnsureConnected, Ready, clocks, task
  <2>2. Blocked = 0 /\ Blocked' = 0 /\ Commands' = Commands
    BY <2>1 DEF Blocked, Commands, Handling
  <2>3. QED
    BY <1>0, <2>1, <2>2, FollowsFed DEF Fed
<1>2. ASSUME NEW t \in Topic, HandleMessage(t)
      PROVE  Fed' /\ SessionIsFed'
  <2>1. /\ pc = "drain" /\ busy = 0 /\ UNCHANGED <<link, depth, turned, telemetry>>
        /\ busy' \in 0..MaxBlock
        /\ pc' \in {"answer", "mqtt_transport", "transport_set"}
    BY <1>2 DEF HandleMessage, Ready, Handlers
  <2>2. Commands = depth /\ Commands' = depth + 1 /\ Handling' /\ depth \in Nat
        /\ Blocked = 0 /\ Blocked' = busy'
    BY <1>0, <2>1, FedTypes DEF Commands, Handling, Blocked, Console
  <2>3. MaxBlock * Commands' = MaxBlock * Commands + MaxBlock /\ MaxBlock * Commands \in Nat
    BY <2>2, Blocks
  <2>4. FedLink'
    BY <1>0, <2>1, <2>2, <2>3, FedTypes, Times DEF Fed, FedLink
  <2>5. QED
    BY <1>0, <2>1, <2>2, <2>4 DEF Fed, SessionIsFed
<1>3. ASSUME NEW t \in Transports, ConsoleSwitch(t)
      PROVE  Fed' /\ SessionIsFed'
  <2>1. busy' = busy /\ busy = 0 /\ telemetry' = telemetry /\ turned' = turned
        /\ pc = "mqtt_transport" /\ pc' = "connect" /\ depth' = depth + 1
    BY <1>3 DEF ConsoleSwitch, Ready, clocks
  <2>2. Commands' = Commands /\ Blocked = 0 /\ Blocked' = 0
    BY <2>1 DEF Commands, Handling, Blocked
  <2>3. QED
    BY <1>0, <2>1, <2>2, FollowsFed DEF Fed
<1>4. CASE Answer \/ \E t \in Transports : TransportSet(t)
  <2>1. busy' = 0 /\ telemetry' = telemetry /\ turned' = turned /\ pc' = "drain"
    BY <1>4 DEF Answer, TransportSet, Ready, clocks, task
  <2>2. Blocked' = 0
    BY <2>1 DEF Blocked
  <2>3. QED
    BY <1>0, <1>4, <2>1, <2>2, CommandLink, SpokenFed DEF Fed
<1>5. CASE Reports
  <2>1. busy' = 0 /\ busy = 0 /\ pc = "drain"
        /\ telemetry' = (IF TelemetryDue THEN 0 ELSE telemetry)
    BY <1>5 DEF Reports, Ready
  <2>2. telemetry' < TelemetryEvery
    BY <1>0, <2>1, FedTypes DEF TelemetryDue
  <2>3. Blocked = 0 /\ Blocked' = 0
    BY <2>1 DEF Blocked
  <2>4. FedLink' /\ SessionIsFed'
    <3>1. CASE TelemetryDue
      BY <1>0, <1>5, <2>3, <3>1, ReportsLink, SpokenFed
    <3>2. CASE ~TelemetryDue
      <4>1. depth \in Nat /\ depth' = (IF depth > 0 THEN depth - 1 ELSE 0)
            /\ pc' = (IF depth > 0 THEN "answer" ELSE IF caller # "loop" THEN caller
                     ELSE IF power = "awake" THEN "usb" ELSE "probed")
            /\ caller \in {"usb", "wifi", "loop"}
        BY <1>0, <1>5, ShapeParts, FedTypes DEF Reports, Returns, Standing
      <4>2. Commands' = Commands
        BY <2>1, <4>1 DEF Commands, Handling
      <4>3. QED
        BY <1>0, <2>1, <2>3, <3>2, <4>2, FollowsFed
    <3>3. QED
      BY <3>1, <3>2
  <2>5. QED
    BY <2>2, <2>3, <2>4 DEF Fed
<1>6. CASE FallAsleep \/ Prepare
  <2>1. ~link'.live
    BY <1>0, <1>6, SleepLink
  <2>2. turned' = turned /\ telemetry' = telemetry /\ pc' # "probed"
    BY <1>6 DEF FallAsleep, Prepare, clocks, task
  <2>3. QED
    BY <1>0, <2>1, <2>2, NothingFed DEF Fed
<1>7. CASE Between
  <2>1. busy = 0 /\ busy' = 0 /\ telemetry' = telemetry /\ depth' = depth
        /\ pc \in {"usb", "wifi", "asleep"} /\ pc' \in {"usb", "wifi", "connect"}
        /\ (turned' => turned)
    BY <1>7 DEF Between, PollMqtt, StayAwake, EnterStandby, Wake, Probe, Ready, clocks, task
  <2>2. Commands' = Commands /\ Blocked = 0 /\ Blocked' = 0 /\ pc' # "probed"
    BY <2>1 DEF Commands, Handling, Blocked
  <2>3. QED
    BY <1>0, <2>1, <2>2, FollowsFed DEF Fed
<1>8. CASE ProbeEnds
  <2>1. busy = 0 /\ busy' = 0 /\ telemetry' = telemetry /\ depth' = depth
        /\ pc = "probed" /\ pc' = "usb"
    BY <1>8 DEF ProbeEnds, Ready, clocks
  <2>2. Commands' = Commands /\ Blocked = 0 /\ Blocked' = 0
    BY <2>1 DEF Commands, Handling, Blocked
  <2>3. QED
    BY <1>0, <2>1, <2>2, FollowsFed DEF Fed
<1>9. QED
  BY <1>1, <1>2, <1>3, <1>4, <1>5, <1>6, <1>7, <1>8, LocalFed
     DEF LoopTask, HandlePowerState, Between

LEMMA TickFed ==
  ASSUME FedInv, Tick
  PROVE  Fed' /\ SessionIsFed'
<1>0. Shape /\ Fed /\ SessionIsFed /\ Passes
  BY ShapeParts DEF FedInv
<1>1. /\ link' = Aged(link) /\ UNCHANGED <<pc, depth>> /\ turned' = FALSE
      /\ busy' = (IF busy > 0 THEN busy - 1 ELSE 0)
      /\ telemetry' = Up(telemetry, TelemetryEvery)
      /\ busy > 0 \/ (turned /\ pc = "usb")
  BY DEF Tick
<1>2. Commands' = Commands /\ Handling' = Handling /\ MaxBlock * Commands \in Nat
      /\ MaxBlock * Commands <= MaxBlock * (MaxDepth + 1)
  BY <1>0, <1>1, CommandsType DEF Commands, Handling
<1>3. /\ link'.over = link.over /\ (link'.live => link.live)
      /\ IF link.live /\ link.over = "wifi"
         THEN link'.silent = link.silent + 1
              /\ link'.typed = (IF Typing THEN link.typed + 1 ELSE link.typed)
         ELSE link' = link
  BY <1>0, <1>1, AgedLink, FedTypes
<1>4. telemetry' = (IF telemetry < TelemetryEvery THEN telemetry + 1 ELSE TelemetryEvery)
  BY <1>1 DEF Up
<1>5. pc' # "probed"
  BY <1>0, <1>1 DEF Passes, Handling, Console
<1>6. Blocked' \in Nat /\ Blocked' <= Blocked /\ (Blocked > 0 => Blocked' = Blocked - 1)
  BY <1>0, <1>1, FedTypes DEF Blocked
<1>7. CASE link.live /\ link.over = "wifi"
  <2>1. link.silent + 1 + Blocked' <= TelemetryEvery + MaxBlock * Commands + link'.typed
    <3>1. CASE Blocked > 0
      <4>1. link'.typed = link.typed
        BY <1>3, <1>7, <3>1 DEF Blocked, Typing
      <4>2. QED
        BY <1>0, <1>2, <1>6, <1>7, <3>1, <4>1, FedTypes DEF Fed, FedLink
    <3>2. CASE Blocked = 0 /\ busy > 0
      <4>1. link'.typed = link.typed + 1
        BY <1>0, <1>3, <1>7, <3>2, FedTypes DEF Blocked, Typing
      <4>2. QED
        BY <1>0, <1>2, <1>6, <1>7, <3>2, <4>1, FedTypes DEF Fed, FedLink
    <3>3. CASE Blocked = 0 /\ busy = 0
      <4>1. turned /\ telemetry < TelemetryEvery /\ link'.typed = link.typed
        BY <1>0, <1>1, <1>3, <1>7, <3>3, FedTypes DEF Fed, Typing
      <4>2. link.silent <= telemetry
        BY <1>0, <1>7, <4>1, FedTypes DEF Fed, FedLink
      <4>3. QED
        BY <1>0, <1>2, <1>6, <3>3, <4>1, <4>2, FedTypes
    <3>4. QED
      BY <1>0, <3>1, <3>2, <3>3, FedTypes
  <2>2. link'.silent <= telemetry' \/ telemetry' = TelemetryEvery
    BY <1>0, <1>3, <1>4, <1>7, FedTypes DEF Fed, FedLink
  <2>3. FedLink'
    BY <1>2, <1>3, <1>7, <2>1, <2>2 DEF FedLink
  <2>4. link'.typed \in Nat
    BY <1>0, <1>3, <1>7, FedTypes
  <2>5. SessionIsFed'
    BY <1>0, <1>2, <1>3, <1>6, <1>7, <2>1, <2>4, FedTypes DEF SessionIsFed
  <2>6. QED
    BY <1>0, <1>1, <1>2, <1>3, <1>5, <1>6, <2>3, <2>5, FedTypes DEF Fed
<1>8. CASE ~(link.live /\ link.over = "wifi")
  <2>1. FedLink' /\ SessionIsFed'
    BY <1>0, <1>3, <1>8 DEF FedLink, SessionIsFed
  <2>2. QED
    BY <1>0, <1>1, <1>2, <1>3, <1>5, <1>6, <2>1, FedTypes DEF Fed
<1>9. QED
  BY <1>7, <1>8

LEMMA InitFed == Init => Fed /\ SessionIsFed
<1> SUFFICES ASSUME Init PROVE Fed /\ SessionIsFed
  OBVIOUS
<1>1. ~link.live /\ link.silent = 0 /\ link.typed = 0 /\ ~turned /\ pc = "usb"
  BY DEF Init
<1>2. 0 <= TelemetryEvery + MaxBlock * (MaxDepth + 1) + 0
  BY Times, Blocks
<1>3. Blocked = 0
  BY <1>1 DEF Blocked, Console
<1>4. QED
  BY <1>1, <1>2, <1>3 DEF Fed, FedLink, SessionIsFed

LEMMA NextFed == FedInv /\ [Next]_vars => FedInv'
<1> SUFFICES ASSUME FedInv, [Next]_vars PROVE FedInv'
  OBVIOUS
<1>1. Shape'
  BY NextShape DEF FedInv
<1>2. CASE UNCHANGED vars
  <2>1. UNCHANGED <<link, busy, telemetry, pc, depth, turned>>
    BY <1>2 DEF vars, clocks, task
  <2>2. Fed' /\ SessionIsFed'
    BY <2>1 DEF FedInv, Fed, FedLink, Commands, Blocked, Handling, SessionIsFed
  <2>3. QED
    BY <1>1, <2>2 DEF FedInv
<1>3. CASE Next
  BY <1>1, <1>3, OutsideFed, TaskFed, TickFed DEF Next, FedInv
<1>4. QED
  BY <1>2, <1>3

\* The broker hears from a session over WiFi at least every telemetry interval and as long as
\* the remote commands of a pass and of those within it block and local commands are typed,
\* whatever these times are: a keepalive longer than that is never missed.
THEOREM SessionFed == Spec => []SessionIsFed
<1>1. Init => FedInv
  BY InitShape, InitFed DEF FedInv
<1>2. FedInv => SessionIsFed
  BY DEF FedInv
<1>3. QED
  BY <1>1, <1>2, NextFed, PTL DEF Spec

-----------------------------------------------------------------------------
(* Standby gives the device its topics back. *)

LEMMA BoundedLess ==
  ASSUME NEW n \in Nat, NEW m \in Nat, NEW r \in Nat, NEW q \in Nat,
         m <= n + (q - r), r <= q, Bounded(n, r)
  PROVE  Bounded(m, q)
<1>1. PICK idling \in {After, Window, MaxBlock + 1} : n <= idling + r
  BY DEF Bounded
<1>2. idling \in Nat
  BY Times
<1>3. m <= idling + q
  BY <1>1, <1>2
<1>4. QED
  BY <1>3 DEF Bounded

LEMMA BoundedOne ==
  ASSUME NEW n \in Nat, NEW r \in Nat, n <= After \/ n <= Window \/ n <= MaxBlock + 1
  PROVE  Bounded(n, r)
<1>1. CASE n <= After
  <2>1. n <= After + r
    BY <1>1, Times
  <2>2. QED
    BY <2>1 DEF Bounded
<1>2. CASE n <= Window
  <2>1. n <= Window + r
    BY <1>2, Times
  <2>2. QED
    BY <2>1 DEF Bounded
<1>3. CASE n <= MaxBlock + 1
  <2>1. n <= (MaxBlock + 1) + r
    BY <1>3, Times
  <2>2. QED
    BY <2>1 DEF Bounded
<1>4. QED
  BY <1>1, <1>2, <1>3

\* The first attempt of a probe: it finds no broker, it fails and is forgiven, or it makes
\* the session whole.
LEMMA FirstAttempt ==
  ASSUME Shape, EnsureConnected, ~link.on, link.next = 0, ~reach[link.over] => deaf = 0
  PROVE  deaf' = 0
<1> DEFINE a == Attempt(link)
           new == [Off(a) EXCEPT !.on = TRUE, !.live = TRUE]
           done == [new EXCEPT !.subscribed = TRUE]
<1>1. link \in Link /\ now \in 0..(Wrap - 1) /\ a \in Link /\ a.trouble = link.trouble
      /\ link.trouble \in 0..MaxTrouble
  BY ShapeParts, AttemptLink DEF Link
<1>2. deaf' = IF link'.trouble # link.trouble \/ Hears' THEN 0 ELSE deaf
  BY DEF EnsureConnected, Forgiven
<1>3. CASE ~reach[link.over]
  BY <1>2, <1>3
<1>4. CASE reach[link.over]
  <2>1. PICK e \in Ensured(link) : link' = e.link
    BY DEF EnsureConnected
  <2>2. ~(now < link.next)
    BY <1>1
  <2>3. (\E f \in Failed(a) : link' \in Refused(f)) \/ link' \in Subscribe(new)
    BY <1>4, <2>1, <2>2 DEF Ensured
  <2>4. CASE \E f \in Failed(a) : link' \in Refused(f)
    <3>1. PICK f \in Failed(a) : link' \in Refused(f)
      BY <2>4
    <3>2. f \in Link /\ f.trouble # link.trouble
      BY <1>1, FailedLink
    <3>3. link'.trouble = f.trouble
      BY <3>1, <3>2, RefusedLink
    <3>4. QED
      BY <1>2, <3>2, <3>3
  <2>5. CASE link' \in Subscribe(new)
    <3>1. new \in Link /\ new.on /\ new.live /\ new.trouble = link.trouble
      BY <1>1, NewLink
    <3>2. done \in Link /\ done.on /\ done.live /\ done.trouble = link.trouble
      <4> HIDE DEF new
      <4> QED
        BY <3>1 DEF Link
    <3>3. CASE link' = [done EXCEPT !.heard = Topic]
      <4> HIDE DEF done
      <4>1. link'.live /\ link'.heard = Topic /\ link'.on
        BY <3>2, <3>3 DEF Link
      <4>2. QED
        BY <1>2, <4>1 DEF Hears
    <3>4. CASE link' # [done EXCEPT !.heard = Topic]
      <4> DEFINE Cut(h) == [done EXCEPT !.heard = h]
      <4>1. link' \in {[f EXCEPT !.on = TransportTopic \in f.heard] :
                         f \in UNION {Failed(Cut(h)) : h \in SUBSET Topic}}
        <5> HIDE DEF new
        <5> QED
          BY <2>5, <3>1, <3>4 DEF Subscribe
      <4>2. PICK f \in UNION {Failed(Cut(h)) : h \in SUBSET Topic} :
                   link' = [f EXCEPT !.on = TransportTopic \in f.heard]
        BY <4>1, Zenon
      <4> PICK h \in SUBSET Topic : f \in Failed(Cut(h))
        BY <4>2, Zenon
      <4>3. Cut(h) \in Link /\ Cut(h).trouble = link.trouble
        <5> HIDE DEF done
        <5> QED
          BY <3>2 DEF Link
      <4>4. f \in Link /\ f.trouble # link.trouble
        <5> HIDE DEF Cut
        <5> QED
          BY <4>3, FailedLink
      <4>5. link'.trouble = f.trouble
        BY <4>2, <4>4 DEF Link
      <4>6. QED
        BY <1>2, <4>4, <4>5
    <3>5. QED
      BY <3>3, <3>4
  <2>6. QED
    BY <2>3, <2>4, <2>5
<1>5. QED
  BY <1>3, <1>4

LEMMA DeafTypes ==
  ASSUME Shape
  PROVE  deaf \in Nat /\ busy \in Nat /\ idle \in Nat /\ idle <= After
         /\ probed \in Nat /\ probed <= Window /\ turned \in BOOLEAN
  BY ShapeParts, Times DEF Standing, Ages

\* What the invariants give every step.
LEMMA DeafFacts ==
  ASSUME DeafInv
  PROVE  /\ Shape /\ AwakeDeaf /\ EnteringDeaf /\ AsleepDeaf /\ WaitingDeaf /\ ProbeDeaf
         /\ Passes /\ deaf \in Nat /\ busy \in Nat /\ Blocked \in Nat /\ deaf + Blocked \in Nat
         /\ idle \in Nat /\ idle <= After /\ probed \in Nat /\ probed <= Window
         /\ power \in {"awake", "entering", "asleep", "probe", "prepared", "woken"}
         /\ caller \in {"usb", "wifi", "loop"}
         /\ turned \in BOOLEAN
         /\ After \in Nat \ {0} /\ WakeInterval \in Nat \ {0} /\ Window \in Nat /\ MaxBlock \in Nat
         /\ WakeInterval + MaxBlock \in Nat
<1>1. Shape /\ AwakeDeaf /\ EnteringDeaf /\ AsleepDeaf /\ WaitingDeaf /\ ProbeDeaf
  BY DEF DeafInv, InTime
<1>2. Passes /\ power \in {"awake", "entering", "asleep", "probe", "prepared", "woken"}
      /\ caller \in {"usb", "wifi", "loop"}
  BY <1>1, ShapeParts DEF Standing
<1>3. Blocked \in Nat
  BY <1>1, FedTypes
<1>4. QED
  BY <1>1, <1>2, <1>3, DeafTypes, Times

\* A pass of loop() that was made to its end, or one that is not the USB console's.
InPass == turned \/ ~(pc = "usb" \/ caller = "usb")

\* A step that begins no wait and no unit keeps the invariant, as far as it leaves the state of
\* the standby as it is; a probe that is to connect is left to FirstAttempt.
LEMMA GoesOn ==
  ASSUME DeafInv, power' = power, UNCHANGED <<idle, probed>>, deaf' \in {0, deaf},
         Blocked' = Blocked, power = "asleep" => busy' = busy,
         InPass' => InPass, turned' => turned \/ power \in {"awake", "woken"},
         ~reach'[link'.over] => deaf' = 0 \/ ~reach[link.over] \/ power \notin {"asleep", "probe"},
         power = "prepared" => ~FreshProbe
  PROVE  InTime'
<1>0. deaf' \in Nat /\ deaf' <= deaf /\ deaf' + Blocked <= deaf + Blocked /\ deaf' + Blocked \in Nat
  BY DeafFacts
<1>1. CASE power \in {"awake", "woken"}
  <2>1. deaf' <= idle \/ idle = After
    BY <1>0, <1>1, DeafFacts DEF AwakeDeaf
  <2>2. Bounded(deaf' + Blocked, 0)
    <3>1. CASE deaf' = deaf
      BY <1>1, <3>1, DeafFacts DEF AwakeDeaf
    <3>2. CASE deaf' = 0
      <4>1. Bounded(Blocked, 0)
        BY <1>1, DeafFacts, BoundedLess DEF AwakeDeaf
      <4>2. QED
        BY <3>2, <4>1, DeafFacts
    <3>3. QED
      BY <3>1, <3>2
  <2>3. power = "woken" \/ Blocked > 0 => deaf' + Blocked <= MaxBlock
    BY <1>0, <1>1, DeafFacts DEF AwakeDeaf
  <2>4. InPass' => deaf' < After \/ deaf' + Blocked <= MaxBlock
    <3>1. InPass' => deaf < After \/ deaf + Blocked <= MaxBlock
      BY <1>1, DeafFacts DEF AwakeDeaf, InPass
    <3>2. QED
      BY <1>0, <3>1, DeafFacts
  <2>5. AwakeDeaf'
    BY <2>1, <2>2, <2>3, <2>4 DEF AwakeDeaf, InPass
  <2>6. QED
    BY <1>1, <2>5 DEF InTime, EnteringDeaf, AsleepDeaf, WaitingDeaf, ProbeDeaf
<1>2. CASE power = "entering"
  <2>1. ~turned' /\ Bounded(deaf, 0)
    BY <1>2, DeafFacts DEF EnteringDeaf
  <2>2. Bounded(deaf', 0)
    BY <1>0, <2>1, DeafFacts, BoundedLess
  <2>3. QED
    BY <1>2, <2>1, <2>2 DEF InTime, AwakeDeaf, EnteringDeaf, AsleepDeaf, WaitingDeaf, ProbeDeaf
<1>3. CASE power = "asleep"
  <2>1. busy <= WakeInterval /\ ~turned' /\ Bounded(deaf + busy, WakeInterval)
        /\ (busy < WakeInterval => (~reach[link.over] => deaf = 0))
    BY <1>3, DeafFacts DEF AsleepDeaf
  <2>2. Bounded(deaf' + busy, WakeInterval)
    <3>1. CASE deaf' = deaf
      BY <2>1, <3>1
    <3>2. CASE deaf' = 0
      <4>1. Bounded(busy, WakeInterval)
        BY <2>1, DeafFacts, BoundedLess
      <4>2. QED
        BY <3>2, <4>1, DeafFacts
    <3>3. QED
      BY <3>1, <3>2
  <2>3. busy < WakeInterval => (~reach'[link'.over] => deaf' = 0)
    BY <1>3, <2>1
  <2>4. QED
    BY <1>3, <2>1, <2>2, <2>3 DEF InTime, AwakeDeaf, EnteringDeaf, AsleepDeaf, WaitingDeaf, ProbeDeaf
<1>4. CASE power = "probe"
  <2>1. ~turned' /\ Bounded(deaf, WakeInterval) /\ (~reach'[link'.over] => deaf' = 0)
    BY <1>4, DeafFacts DEF WaitingDeaf
  <2>2. Bounded(deaf', WakeInterval)
    BY <1>0, <2>1, DeafFacts, BoundedLess
  <2>3. QED
    BY <1>4, <2>1, <2>2 DEF InTime, AwakeDeaf, EnteringDeaf, AsleepDeaf, WaitingDeaf, ProbeDeaf
<1>5. CASE power = "prepared"
  <2>1. Blocked' = 0 /\ deaf <= probed /\ (turned => deaf < Window) /\ (turned' => turned)
    BY <1>5, DeafFacts DEF ProbeDeaf
  <2>2. deaf' <= probed' /\ (turned' => deaf' < Window)
    BY <1>0, <2>1, DeafFacts
  <2>3. ProbeDeaf'
    BY <2>1, <2>2 DEF ProbeDeaf
  <2>4. QED
    BY <1>5, <2>3 DEF InTime, AwakeDeaf, EnteringDeaf, AsleepDeaf, WaitingDeaf
<1>6. QED
  BY <1>1, <1>2, <1>3, <1>4, <1>5, DeafFacts

LEMMA OutsideDeaf ==
  ASSUME DeafInv, SessionLost \/ SocketCloses \/ \E t \in Transports : NetworkDown(t) \/ NetworkUp(t)
  PROVE  InTime'
<1>0. Shape
  BY DeafFacts
<1>1. UNCHANGED <<power, pc, caller, depth, busy, turned, idle, probed>> /\ deaf' \in {0, deaf}
  BY OutsideStanding DEF clocks, task
<1>2. link'.over = link.over /\ (link'.on => link.on) /\ link'.next = link.next
  BY <1>0, OutsideLink
<1>3. reach[link.over] => reach'[link.over] \/ deaf' = 0
  <2>1. CASE SessionLost \/ SocketCloses
    BY <2>1 DEF SessionLost, SocketCloses
  <2>2. CASE \E t \in Transports : NetworkUp(t)
    BY <1>0, <2>2, ShapeParts DEF NetworkUp, Link
  <2>3. ASSUME NEW t \in Transports, NetworkDown(t)
        PROVE  deaf' = 0
    <3>1. PICK f \in Failed(link) : link' = IF t = link.over THEN Lost(f) ELSE f
      BY <2>3 DEF NetworkDown
    <3>2. f \in Link /\ f.trouble # link.trouble
      BY <1>0, ShapeParts, FailedLink
    <3>3. link'.trouble = f.trouble
      BY <3>1, <3>2, LostLink
    <3>4. QED
      BY <2>3, <3>2, <3>3 DEF NetworkDown, Forgiven
  <2>4. QED
    BY <2>1, <2>2, <2>3
<1>4. CASE power = "prepared" /\ FreshProbe
  <2>1. /\ pc = "connect" /\ caller = "loop" /\ ~turned /\ ~link.on /\ link.next = 0
        /\ Bounded(deaf + busy, WakeInterval + MaxBlock) /\ (~reach[link.over] => deaf = 0)
    BY <1>4 DEF FreshProbe
  <2>2. Bounded(deaf' + busy, WakeInterval + MaxBlock)
    <3>1. CASE deaf' = deaf
      BY <2>1, <3>1
    <3>2. CASE deaf' = 0
      <4>1. Bounded(busy, WakeInterval + MaxBlock)
        BY <2>1, DeafFacts, BoundedLess
      <4>2. QED
        BY <3>2, <4>1, DeafFacts
    <3>3. QED
      BY <1>1, <3>1, <3>2
  <2>3. ~reach'[link'.over] => deaf' = 0
    BY <1>1, <1>2, <1>3, <2>1
  <2>4. FreshProbe'
    BY <1>1, <1>2, <2>1, <2>2, <2>3 DEF FreshProbe
  <2>5. QED
    BY <1>1, <1>4, <2>4 DEF InTime, AwakeDeaf, EnteringDeaf, AsleepDeaf, WaitingDeaf, ProbeDeaf
<1>5. CASE ~(power = "prepared" /\ FreshProbe)
  <2>1. Blocked' = Blocked /\ (InPass' => InPass)
    BY <1>1 DEF Blocked, InPass
  <2>2. ~reach'[link'.over] => deaf' = 0 \/ ~reach[link.over]
    BY <1>2, <1>3
  <2>3. QED
    BY <1>1, <1>5, <2>1, <2>2, GoesOn
<1>6. QED
  BY <1>4, <1>5

LEMMA LocalDeaf ==
  ASSUME DeafInv, NEW c \in Console, Local(c)
  PROVE  InTime'
<1>0. Shape
  BY DeafFacts
<1>1. pc = c /\ busy = 0 /\ Blocked = 0 /\ c \in {"usb", "wifi"}
  BY DEF Local, LocalCommand, LocalPublish, LocalSwitch, Ready, Blocked, Console
<1>2. power \notin {"asleep", "woken"} /\ ~FreshProbe /\ caller = "loop"
  BY <1>1, DeafFacts DEF Passes, FreshProbe, Console
<1>3. CASE LocalCommand(c)
  <2>1. UNCHANGED <<power, idle, probed, deaf, turned, reach, link, pc, caller>>
    BY <1>3 DEF LocalCommand, clocks, task
  <2>2. Blocked' = Blocked /\ (InPass' => InPass)
    BY <1>1, <2>1 DEF Blocked, InPass, Console
  <2>3. QED
    BY <1>2, <2>1, <2>2, GoesOn
<1>4. CASE LocalPublish(c)
  <2>1. UNCHANGED <<power, idle, probed, turned, reach, pc, caller, busy>> /\ deaf' \in {0, deaf}
    BY <1>4, ForgivenDeaf DEF LocalPublish, clocks, task
  <2>2. Blocked' = Blocked /\ (InPass' => InPass)
    BY <1>1, <2>1 DEF Blocked, InPass
  <2>3. link'.over = link.over
    BY <1>0, <1>4, ShapeFacts, ReportLink DEF LocalPublish
  <2>4. QED
    BY <1>2, <2>1, <2>2, <2>3, GoesOn
<1>5. ASSUME NEW t \in Transports, LocalSwitch(c, t)
      PROVE  InTime'
  <2>1. UNCHANGED <<power, idle, probed, turned, reach, busy>> /\ deaf' \in {0, deaf}
        /\ pc' = "connect" /\ caller' = c
        /\ deaf' = IF link'.over = link.over THEN deaf ELSE 0
    BY <1>5 DEF LocalSwitch, clocks
  <2>2. Blocked' = Blocked /\ (InPass' => InPass)
    BY <1>1, <1>2, <2>1 DEF Blocked, InPass, Console
  <2>3. ~reach'[link'.over] => deaf' = 0 \/ ~reach[link.over]
    BY <2>1
  <2>4. QED
    BY <1>2, <2>1, <2>2, <2>3, GoesOn
<1>6. QED
  BY <1>3, <1>4, <1>5 DEF Local

LEMMA PassDeaf ==
  ASSUME DeafInv, EnsureConnected \/ Reports
  PROVE  InTime'
<1>0. Shape
  BY DeafFacts
<1>1. busy = 0 /\ busy' = 0 /\ UNCHANGED <<power, idle, probed, reach>> /\ deaf' \in {0, deaf}
  BY ForgivenDeaf DEF EnsureConnected, Reports, Ready, clocks, task
<1>2. Blocked = 0 /\ Blocked' = 0
  BY <1>1 DEF Blocked
<1>3. link'.over = link.over
  <2>1. CASE EnsureConnected
    BY <1>0, <2>1, ShapeFacts, EnsuredLink DEF EnsureConnected
  <2>2. CASE Reports
    <3>1. PICK l \in IF TelemetryDue THEN Report(link, link.told) ELSE {link} :
                 link' \in IF StateDue THEN Report(l, "awake") ELSE {l}
      BY <2>2 DEF Reports
    <3>2. l \in Link /\ Attached(l) /\ l.over = link.over
      BY <1>0, <3>1, ShapeFacts, ReportLink DEF Spoken
    <3>3. QED
      BY <1>0, <3>1, <3>2, ShapeFacts, ReportLink
  <2>3. QED
    BY <2>1, <2>2
<1>4. CASE power = "prepared" /\ FreshProbe
  <2>1. EnsureConnected
    BY <1>4 DEF FreshProbe, Reports, Ready
  <2>2. deaf' = 0 /\ ~turned'
    BY <1>0, <1>4, <2>1, FirstAttempt DEF FreshProbe, EnsureConnected, task
  <2>3. ProbeDeaf'
    BY <1>1, <1>2, <2>2, DeafFacts DEF ProbeDeaf
  <2>4. QED
    BY <1>1, <1>4, <2>3 DEF InTime, AwakeDeaf, EnteringDeaf, AsleepDeaf, WaitingDeaf
<1>5. CASE ~(power = "prepared" /\ FreshProbe)
  <2>1. CASE EnsureConnected
    <3>1. UNCHANGED <<turned, caller>> /\ pc = "connect" /\ pc' = "drain"
      BY <2>1 DEF EnsureConnected, Ready, task
    <3>2. InPass' => InPass
      BY <3>1 DEF InPass
    <3>3. QED
      BY <1>1, <1>2, <1>3, <1>5, <3>1, <3>2, GoesOn
  <2>2. CASE Reports
    <3>1. /\ pc = "drain" /\ pc' = Returns /\ caller' = (IF depth > 0 THEN caller ELSE "loop")
          /\ turned' = (turned \/ (Returns = "usb" /\ caller = "loop"))
      BY <2>2 DEF Reports, Ready
    <3>2. InPass' => InPass
      BY <3>1, DeafFacts DEF InPass, Returns
    <3>3. turned' => turned \/ power \in {"awake", "woken"}
      BY <3>1 DEF Returns
    <3>4. QED
      BY <1>1, <1>2, <1>3, <1>5, <3>2, <3>3, GoesOn
  <2>3. QED
    BY <2>1, <2>2
<1>6. QED
  BY <1>4, <1>5

LEMMA MessageDeaf ==
  ASSUME DeafInv, NEW t \in Topic, HandleMessage(t)
  PROVE  InTime'
<1>1. PICK b \in 0..MaxBlock : busy' = b
  BY DEF HandleMessage
<1>2. pc = "drain" /\ deaf' = 0 /\ idle' = 0 /\ power' = Woken
  BY DEF HandleMessage, Ready
<1>3. power' \in {"awake", "woken"}
  BY <1>2 DEF Woken
<1>4. b \in Nat /\ b <= MaxBlock /\ Blocked' \in {0, b} /\ Blocked' \in Nat
  BY <1>1, DeafFacts DEF Blocked
<1>5. Bounded(Blocked', 0)
  BY <1>4, DeafFacts, BoundedOne
<1>6. deaf' + Blocked' = Blocked' /\ Blocked' <= MaxBlock
  <2>1. \A n \in Nat : 0 + n = n
    OBVIOUS
  <2>2. 0 <= MaxBlock
    BY DeafFacts
  <2>3. QED
    BY <1>2, <1>4, <2>1, <2>2, Zenon
<1>7. AwakeDeaf'
  BY <1>2, <1>5, <1>6, DeafFacts DEF AwakeDeaf
<1>8. QED
  BY <1>3, <1>7 DEF InTime, EnteringDeaf, AsleepDeaf, WaitingDeaf, ProbeDeaf

LEMMA CommandDeaf ==
  ASSUME DeafInv, Answer \/ \E t \in Transports : TransportSet(t) \/ ConsoleSwitch(t)
  PROVE  InTime'
<1>1. UNCHANGED <<power, turned, idle, probed, caller>> /\ busy = 0 /\ busy' = 0 /\ Handling
      /\ pc' \in {"drain", "connect"} /\ deaf' \in {0, deaf}
  BY ForgivenDeaf DEF Answer, TransportSet, ConsoleSwitch, Ready, clocks, task, Handling
<1>2. power \in {"awake", "woken"}
  BY <1>1, DeafFacts DEF Passes, Handling
<1>3. Blocked = 0 /\ Blocked' = 0 /\ (InPass' => InPass)
  BY <1>1 DEF Blocked, InPass, Handling
<1>4. QED
  BY <1>1, <1>2, <1>3, GoesOn

\* The steps of the standby.
LEMMA PowerDeaf ==
  ASSUME DeafInv, HandlePowerState \/ Wake \/ ProbeEnds
  PROVE  InTime'
<1>0. Shape
  BY DeafFacts
<1>1. CASE StayAwake
  <2>1. /\ power = "awake" /\ busy = 0 /\ idle < After /\ pc = "usb" /\ pc' = "wifi"
        /\ UNCHANGED <<power, busy, idle, deaf>>
    BY <1>1 DEF StayAwake, Ready, clocks
  <2>2. Blocked = 0 /\ Blocked' = 0 /\ deaf < After /\ Bounded(deaf + Blocked, 0)
    BY <2>1, DeafFacts DEF Blocked, AwakeDeaf
  <2>3. AwakeDeaf'
    BY <2>1, <2>2, DeafFacts DEF AwakeDeaf
  <2>4. QED
    BY <2>1, <2>3 DEF InTime, EnteringDeaf, AsleepDeaf, WaitingDeaf, ProbeDeaf
<1>2. CASE EnterStandby
  <2>1. power = "awake" /\ busy = 0 /\ power' = "entering" /\ ~turned' /\ deaf' = deaf
    BY <1>2 DEF EnterStandby, Ready
  <2>2. Blocked = 0
    BY <2>1 DEF Blocked
  <2>3. Bounded(deaf, 0)
    BY <2>1, <2>2, DeafFacts DEF AwakeDeaf
  <2>4. QED
    BY <2>1, <2>3 DEF InTime, AwakeDeaf, EnteringDeaf, AsleepDeaf, WaitingDeaf, ProbeDeaf
<1>3. CASE FallAsleep
  <2>1. power = "entering" /\ power' = "asleep" /\ busy' = WakeInterval /\ turned' = turned
        /\ deaf' \in {0, deaf}
    BY <1>3, ForgivenDeaf DEF FallAsleep, task
  <2>2. ~turned /\ Bounded(deaf, 0)
    BY <2>1, DeafFacts DEF EnteringDeaf
  <2>3. Bounded(deaf + WakeInterval, WakeInterval) /\ Bounded(0 + WakeInterval, WakeInterval)
    BY <2>2, DeafFacts, BoundedLess
  <2>4. Bounded(deaf' + WakeInterval, WakeInterval)
    BY <2>1, <2>3
  <2>5. AsleepDeaf'
    BY <2>1, <2>2, <2>4, DeafFacts DEF AsleepDeaf
  <2>6. QED
    BY <2>1, <2>5 DEF InTime, AwakeDeaf, EnteringDeaf, WaitingDeaf, ProbeDeaf
<1>4. CASE Wake
  <2>1. pc = "asleep" /\ busy = 0 /\ power' = "probe" /\ UNCHANGED <<reach, link, turned, deaf>>
    BY <1>4 DEF Wake, Ready
  <2>2. power = "asleep" /\ busy < WakeInterval
    BY <2>1, DeafFacts DEF Passes
  <2>3. ~turned /\ (~reach[link.over] => deaf = 0) /\ Bounded(deaf, WakeInterval)
    BY <2>1, <2>2, DeafFacts DEF AsleepDeaf
  <2>4. QED
    BY <2>1, <2>3 DEF InTime, AwakeDeaf, EnteringDeaf, AsleepDeaf, WaitingDeaf, ProbeDeaf
<1>5. CASE Prepare
  <2>1. pc = "usb" /\ power = "probe" /\ power' = "prepared" /\ UNCHANGED <<reach, turned, caller, deaf>>
        /\ link' = ReconnectNow(link) /\ pc' = "connect"
    BY <1>5 DEF Prepare, Ready, task
  <2>2. PICK b \in 0..MaxBlock : busy' = b
    BY <1>5 DEF Prepare
  <2>3. ~turned /\ (~reach[link.over] => deaf = 0) /\ Bounded(deaf, WakeInterval)
    BY <2>1, DeafFacts DEF WaitingDeaf
  <2>4. Bounded(deaf + b, WakeInterval + MaxBlock)
    BY <2>2, <2>3, DeafFacts, BoundedLess
  <2>5. ~link'.on /\ link'.next = 0 /\ link'.over = link.over
    BY <1>0, <2>1, ReconnectNowLink, ShapeParts
  <2>6. caller = "loop"
    BY <2>1, DeafFacts DEF Passes, Console
  <2>7. FreshProbe'
    BY <2>1, <2>2, <2>3, <2>4, <2>5, <2>6 DEF FreshProbe
  <2>8. QED
    BY <2>1, <2>7 DEF InTime, AwakeDeaf, EnteringDeaf, AsleepDeaf, WaitingDeaf, ProbeDeaf
<1>6. CASE Probe
  <2>1. pc = "usb" /\ power = "prepared" /\ busy = 0 /\ busy' = 0 /\ pc' = "connect"
        /\ UNCHANGED <<power, turned, probed, deaf>>
    BY <1>6 DEF Probe, Ready, clocks, task
  <2>2. Blocked' = 0 /\ ~FreshProbe
    BY <2>1 DEF Blocked, FreshProbe
  <2>3. ProbeDeaf'
    BY <2>1, <2>2, DeafFacts DEF ProbeDeaf
  <2>4. QED
    BY <2>1, <2>3 DEF InTime, AwakeDeaf, EnteringDeaf, AsleepDeaf, WaitingDeaf
<1>7. CASE ProbeEnds
  <2>1. pc = "probed" /\ pc' = "usb" /\ busy = 0 /\ busy' = 0 /\ UNCHANGED <<idle, probed>>
        /\ power' = (IF power = "woken" THEN "awake"
                    ELSE IF probed >= Window THEN "entering" ELSE "prepared")
        /\ turned' = (power' # "entering") /\ deaf' \in {0, deaf}
    BY <1>7, ForgivenDeaf DEF ProbeEnds, Ready, clocks
  <2>2. power \in {"prepared", "woken"} /\ Blocked = 0 /\ Blocked' = 0 /\ ~FreshProbe
    BY <2>1, DeafFacts DEF Passes, Blocked, FreshProbe
  <2>3. deaf' \in Nat /\ deaf' <= deaf
    BY <2>1, DeafFacts
  <2>4. CASE power = "woken"
    <3>1. deaf' <= MaxBlock /\ (deaf' <= idle \/ idle = After)
      BY <2>2, <2>3, <2>4, DeafFacts DEF AwakeDeaf
    <3>2. Bounded(deaf', 0)
      BY <2>3, <3>1, DeafFacts, BoundedOne
    <3>3. deaf' + 0 = deaf'
      <4>1. \A n \in Nat : n + 0 = n
        OBVIOUS
      <4>2. QED
        BY <2>3, <4>1, Zenon
    <3>4. AwakeDeaf'
      BY <2>1, <2>2, <2>4, <3>1, <3>2, <3>3 DEF AwakeDeaf
    <3>5. QED
      BY <2>1, <2>4, <3>4 DEF InTime, EnteringDeaf, AsleepDeaf, WaitingDeaf, ProbeDeaf
  <2>5. CASE power = "prepared"
    <3>1. deaf' <= probed
      BY <2>2, <2>3, <2>5, DeafFacts DEF ProbeDeaf
    <3>2. Bounded(deaf', 0)
      BY <2>3, <3>1, DeafFacts, BoundedOne
    <3>3. CASE probed >= Window
      BY <2>1, <2>5, <3>2, <3>3 DEF InTime, AwakeDeaf, EnteringDeaf, AsleepDeaf, WaitingDeaf, ProbeDeaf
    <3>4. CASE ~(probed >= Window)
      <4>1. deaf' < Window
        BY <2>3, <3>1, <3>4, DeafFacts
      <4>2. ProbeDeaf'
        BY <2>1, <2>2, <3>1, <4>1 DEF ProbeDeaf
      <4>3. QED
        BY <2>1, <2>5, <3>4, <4>2 DEF InTime, AwakeDeaf, EnteringDeaf, AsleepDeaf, WaitingDeaf
    <3>5. QED
      BY <3>3, <3>4
  <2>6. QED
    BY <2>2, <2>4, <2>5
<1>8. QED
  BY <1>1, <1>2, <1>3, <1>4, <1>5, <1>6, <1>7 DEF HandlePowerState

LEMMA TaskDeaf ==
  ASSUME DeafInv, LoopTask
  PROVE  InTime'
<1>1. CASE PollMqtt
  <2>1. busy = 0 /\ busy' = 0 /\ UNCHANGED <<power, idle, probed, reach, link, turned, caller, deaf>>
        /\ pc = "wifi" /\ pc' = "connect"
    BY <1>1 DEF PollMqtt, Ready, clocks, task
  <2>2. Blocked = 0 /\ Blocked' = 0 /\ (InPass' => InPass) /\ ~FreshProbe
    BY <2>1, DeafFacts DEF Blocked, InPass, FreshProbe, Passes, Console
  <2>3. power = "awake"
    BY <2>1, DeafFacts DEF Passes
  <2>4. QED
    BY <2>1, <2>2, <2>3, GoesOn
<1>2. QED
  BY <1>1, LocalDeaf, PassDeaf, MessageDeaf, CommandDeaf, PowerDeaf DEF LoopTask

LEMMA TickDeaf ==
  ASSUME DeafInv, Tick
  PROVE  InTime'
<1>1. /\ UNCHANGED <<reach, power, pc, caller>> /\ turned' = FALSE
      /\ busy' = (IF busy > 0 THEN busy - 1 ELSE 0)
      /\ idle' = (IF idle < After THEN idle + 1 ELSE After)
      /\ probed' = (IF probed < Window THEN probed + 1 ELSE Window)
      /\ busy > 0 \/ (turned /\ pc = "usb")
  BY DEF Tick, Up
<1>2. deaf' \in {0, deaf, deaf + 1} /\ (Typing => deaf' \in {0, deaf}) /\ (~reach[link.over] => deaf' = 0)
  BY DEF Tick
<1>3. link'.over = link.over /\ link'.on = link.on /\ link'.next = link.next
  BY DeafFacts, AgedLink, ShapeParts DEF Tick
<1>4. Typing <=> busy > 0 /\ Blocked = 0
  BY DeafFacts DEF Typing, Blocked
<1>5. Blocked' = (IF Blocked > 0 THEN Blocked - 1 ELSE 0) /\ Blocked' \in Nat /\ deaf' \in Nat
  BY <1>1, <1>2, DeafFacts DEF Blocked
<1>6. deaf' + Blocked' \in Nat /\ deaf' <= deaf + 1
      /\ (busy > 0 => deaf' + Blocked' <= deaf + Blocked)
  <2>1. PICK d \in Nat : d = deaf'
    BY <1>5
  <2>2. PICK b \in Nat : b = Blocked'
    BY <1>5
  <2>3. d \in {0, deaf, deaf + 1} /\ b = (IF Blocked > 0 THEN Blocked - 1 ELSE 0)
    BY <1>2, <1>5, <2>1, <2>2, Zenon
  <2>4. busy > 0 /\ Blocked = 0 => d \in {0, deaf}
    BY <1>2, <1>4, <2>1, Zenon
  <2>5. deaf \in Nat /\ busy \in Nat /\ Blocked \in Nat
    BY DeafFacts
  <2>6. d + b \in Nat /\ d <= deaf + 1 /\ (busy > 0 => d + b <= deaf + Blocked)
    BY <2>3, <2>4, <2>5
  <2>7. QED
    BY <2>1, <2>2, <2>6, Zenon
<1>7. CASE power \in {"awake", "woken"}
  <2>1. deaf' <= idle' \/ idle' = After
    <3>1. deaf <= idle \/ idle = After
      BY <1>7, DeafFacts DEF AwakeDeaf
    <3>2. QED
      BY <1>1, <1>5, <1>6, <3>1, DeafFacts
  <2>2. CASE busy > 0
    <3>1. Bounded(deaf + Blocked, 0) /\ (power = "woken" \/ Blocked > 0 => deaf + Blocked <= MaxBlock)
      BY <1>7, DeafFacts DEF AwakeDeaf
    <3>2. Bounded(deaf' + Blocked', 0)
      BY <1>6, <2>2, <3>1, DeafFacts, BoundedLess
    <3>3. Blocked' > 0 => Blocked > 0
      BY <1>5, DeafFacts
    <3>4. power' = "woken" \/ Blocked' > 0 => deaf' + Blocked' <= MaxBlock
      BY <1>1, <1>6, <2>2, <3>1, <3>3, DeafFacts
    <3>5. ~(pc = "usb" \/ caller = "usb") => deaf' < After \/ deaf' + Blocked' <= MaxBlock
      <4>1. CASE Blocked > 0
        BY <1>6, <2>2, <3>1, <4>1, DeafFacts
      <4>2. CASE Blocked = 0
        <5>1. deaf' \in {0, deaf} /\ Blocked' = 0
          BY <1>2, <1>4, <1>5, <2>2, <4>2, DeafFacts
        <5>2. ~(pc = "usb" \/ caller = "usb") => deaf < After \/ deaf + Blocked <= MaxBlock
          BY <1>7, DeafFacts DEF AwakeDeaf
        <5>3. QED
          BY <4>2, <5>1, <5>2, DeafFacts
      <4>3. QED
        BY <4>1, <4>2, DeafFacts
    <3>6. AwakeDeaf'
      BY <1>1, <2>1, <3>2, <3>4, <3>5 DEF AwakeDeaf
    <3>7. QED
      BY <1>1, <1>7, <3>6 DEF InTime, EnteringDeaf, AsleepDeaf, WaitingDeaf, ProbeDeaf
  <2>3. CASE busy = 0
    <3>1. turned /\ pc = "usb" /\ power = "awake" /\ Blocked = 0 /\ Blocked' = 0
      BY <1>1, <1>5, <1>7, <2>3, DeafFacts DEF Passes, Console, Blocked
    <3>2. deaf < After \/ deaf + 0 <= MaxBlock
      BY <1>7, <3>1, DeafFacts DEF AwakeDeaf
    <3>3. deaf' <= After \/ deaf' <= MaxBlock + 1
      BY <1>5, <1>6, <3>2, DeafFacts
    <3>4. Bounded(deaf', 0) /\ deaf' + 0 = deaf'
      <4>1. \A n \in Nat : n + 0 = n
        OBVIOUS
      <4>2. deaf' + 0 = deaf'
        BY <1>5, <4>1, Zenon
      <4>3. QED
        BY <1>5, <3>3, <4>2, DeafFacts, BoundedOne
    <3>5. AwakeDeaf'
      BY <1>1, <2>1, <3>1, <3>4 DEF AwakeDeaf
    <3>6. QED
      BY <1>1, <3>1, <3>5 DEF InTime, EnteringDeaf, AsleepDeaf, WaitingDeaf, ProbeDeaf
  <2>4. QED
    BY <2>2, <2>3, DeafFacts
<1>8. CASE power = "entering"
  <2>1. ~turned /\ Bounded(deaf, 0)
    BY <1>8, DeafFacts DEF EnteringDeaf
  <2>2. Typing
    BY <1>1, <1>8, <2>1, DeafFacts DEF Passes, Typing
  <2>3. deaf' <= deaf
    BY <1>2, <2>2, DeafFacts
  <2>4. Bounded(deaf', 0)
    BY <1>5, <2>1, <2>3, DeafFacts, BoundedLess
  <2>5. QED
    BY <1>1, <1>8, <2>4 DEF InTime, AwakeDeaf, EnteringDeaf, AsleepDeaf, WaitingDeaf, ProbeDeaf
<1>9. CASE power = "asleep"
  <2>1. busy <= WakeInterval /\ ~turned /\ Bounded(deaf + busy, WakeInterval)
    BY <1>9, DeafFacts DEF AsleepDeaf
  <2>2. pc = "asleep" /\ busy > 0
    BY <1>1, <1>9, <2>1, DeafFacts DEF Passes
  <2>3. busy' = busy - 1 /\ busy' \in Nat /\ deaf' + busy' <= deaf + busy
        /\ deaf' + busy' \in Nat /\ deaf + busy \in Nat
    BY <1>1, <1>5, <1>6, <2>2, DeafFacts
  <2>4. Bounded(deaf' + busy', WakeInterval)
    BY <2>1, <2>3, DeafFacts, BoundedLess
  <2>5. busy' <= WakeInterval /\ (~reach'[link'.over] => deaf' = 0)
    BY <1>1, <1>2, <1>3, <2>1, <2>3, DeafFacts
  <2>6. QED
    BY <1>1, <1>9, <2>4, <2>5 DEF InTime, AwakeDeaf, EnteringDeaf, AsleepDeaf, WaitingDeaf, ProbeDeaf
<1>10. CASE power = "probe"
  <2>1. ~turned /\ Bounded(deaf, WakeInterval)
    BY <1>10, DeafFacts DEF WaitingDeaf
  <2>2. Typing
    BY <1>1, <1>10, <2>1, DeafFacts DEF Passes, Typing
  <2>3. deaf' <= deaf
    BY <1>2, <2>2, DeafFacts
  <2>4. Bounded(deaf', WakeInterval) /\ (~reach'[link'.over] => deaf' = 0)
    BY <1>1, <1>2, <1>3, <1>5, <2>1, <2>3, DeafFacts, BoundedLess
  <2>5. QED
    BY <1>1, <1>10, <2>4 DEF InTime, AwakeDeaf, EnteringDeaf, AsleepDeaf, WaitingDeaf, ProbeDeaf
<1>11. CASE power = "prepared"
  <2>1. ProbeDeaf'
    <3>1. CASE FreshProbe
      <4>1. pc = "connect" /\ caller = "loop" /\ ~turned /\ busy > 0 /\ ~link.on /\ link.next = 0
            /\ Bounded(deaf + busy, WakeInterval + MaxBlock)
        BY <1>1, <3>1 DEF FreshProbe
      <4>2. busy' = busy - 1 /\ busy' \in Nat /\ deaf' + busy' <= deaf + busy
            /\ deaf' + busy' \in Nat /\ deaf + busy \in Nat
        BY <1>1, <1>5, <1>6, <4>1, DeafFacts
      <4>3. Bounded(deaf' + busy', WakeInterval + MaxBlock)
        BY <4>1, <4>2, DeafFacts, BoundedLess
      <4>4. FreshProbe'
        BY <1>1, <1>2, <1>3, <4>1, <4>3 DEF FreshProbe
      <4>5. QED
        BY <4>4 DEF ProbeDeaf
    <3>2. CASE Blocked = 0 /\ deaf <= probed /\ (turned => deaf < Window)
      <4>1. Blocked' = 0
        BY <1>5, <3>2
      <4>2. CASE busy > 0
        <5>1. deaf' <= deaf
          BY <1>2, <1>4, <3>2, <4>2, DeafFacts
        <5>2. deaf' <= probed'
          BY <1>1, <1>5, <3>2, <5>1, DeafFacts
        <5>3. QED
          BY <1>1, <4>1, <5>2 DEF ProbeDeaf
      <4>3. CASE busy = 0
        <5>1. deaf < Window
          BY <1>1, <3>2, <4>3, DeafFacts
        <5>2. deaf' <= probed'
          BY <1>1, <1>5, <1>6, <3>2, <5>1, DeafFacts
        <5>3. QED
          BY <1>1, <4>1, <5>2 DEF ProbeDeaf
      <4>4. QED
        BY <4>2, <4>3, DeafFacts
    <3>3. QED
      BY <1>11, <3>1, <3>2, DeafFacts DEF ProbeDeaf
  <2>2. QED
    BY <1>1, <1>11, <2>1 DEF InTime, AwakeDeaf, EnteringDeaf, AsleepDeaf, WaitingDeaf
<1>12. QED
  BY <1>7, <1>8, <1>9, <1>10, <1>11, DeafFacts

LEMMA InitDeaf == Init => InTime
<1> SUFFICES ASSUME Init PROVE InTime
  OBVIOUS
<1>1. power = "awake" /\ deaf = 0 /\ busy = 0 /\ idle = 0 /\ turned = FALSE /\ pc = "usb"
  BY DEF Init
<1>2. Bounded(0, 0) /\ Blocked = 0
  BY <1>1, Times, BoundedOne DEF Blocked
<1>3. AwakeDeaf
  BY <1>1, <1>2 DEF AwakeDeaf
<1>4. QED
  BY <1>1, <1>3 DEF InTime, EnteringDeaf, AsleepDeaf, WaitingDeaf, ProbeDeaf

LEMMA NextDeaf == DeafInv /\ [Next]_vars => DeafInv'
<1> SUFFICES ASSUME DeafInv, [Next]_vars PROVE DeafInv'
  OBVIOUS
<1>1. Shape'
  BY NextShape DEF DeafInv
<1>2. CASE UNCHANGED vars
  <2>1. UNCHANGED <<link, reach, power, pc, busy, caller, turned, idle, probed, deaf>>
    BY <1>2 DEF vars, clocks, task
  <2>2. UNCHANGED <<AwakeDeaf, EnteringDeaf>>
    BY <2>1 DEF AwakeDeaf, EnteringDeaf, Bounded, Blocked
  <2>3. UNCHANGED <<AsleepDeaf, WaitingDeaf, ProbeDeaf>>
    BY <2>1 DEF AsleepDeaf, WaitingDeaf, ProbeDeaf, FreshProbe, Bounded, Blocked
  <2>4. QED
    BY <1>1, <2>2, <2>3 DEF DeafInv, InTime
<1>3. CASE Next
  BY <1>1, <1>3, OutsideDeaf, TaskDeaf, TickDeaf DEF Next, DeafInv
<1>4. QED
  BY <1>2, <1>3

LEMMA DeafBound == DeafInv => HearsAgainInTime
<1> SUFFICES ASSUME DeafInv PROVE HearsAgainInTime
  OBVIOUS
<1>1. Bounded(deaf, WakeInterval + MaxBlock)
  <2>1. CASE power \in {"awake", "woken"}
    BY <2>1, DeafFacts, BoundedLess DEF AwakeDeaf
  <2>2. CASE power = "entering"
    BY <2>2, DeafFacts, BoundedLess DEF EnteringDeaf
  <2>3. CASE power = "asleep"
    <3>1. Bounded(deaf + busy, WakeInterval) /\ deaf + busy \in Nat /\ deaf <= deaf + busy
      BY <2>3, DeafFacts DEF AsleepDeaf
    <3>2. QED
      BY <3>1, DeafFacts, BoundedLess
  <2>4. CASE power = "probe"
    <3>1. Bounded(deaf, WakeInterval)
      BY <2>4, DeafFacts DEF WaitingDeaf
    <3>2. deaf <= deaf + ((WakeInterval + MaxBlock) - WakeInterval)
          /\ WakeInterval <= WakeInterval + MaxBlock /\ WakeInterval \in Nat
      BY DeafFacts
    <3>3. QED
      BY <3>1, <3>2, DeafFacts, BoundedLess
  <2>5. CASE power = "prepared" /\ FreshProbe
    <3>1. Bounded(deaf + busy, WakeInterval + MaxBlock) /\ deaf + busy \in Nat /\ deaf <= deaf + busy
      BY <2>5, DeafFacts DEF FreshProbe
    <3>2. QED
      BY <3>1, DeafFacts, BoundedLess
  <2>6. CASE power = "prepared" /\ deaf <= probed
    BY <2>6, DeafFacts, BoundedOne
  <2>7. QED
    BY <2>1, <2>2, <2>3, <2>4, <2>5, <2>6, DeafFacts DEF ProbeDeaf
<1>2. PICK idling \in {After, Window, MaxBlock + 1} : deaf <= idling + (WakeInterval + MaxBlock)
  BY <1>1 DEF Bounded
<1>3. idling \in Nat
  BY Times
<1>4. deaf <= idling + WakeInterval + MaxBlock
  BY <1>2, <1>3, DeafFacts
<1>5. QED
  BY <1>4 DEF HearsAgainInTime

\* Whatever left the device without one of its topics, it hears them all again after one idle
\* time, one sleep and one bring-up of the networks, for every length of these; only the time
\* of commands typed at the device comes on top.
THEOREM HeardAgain == Spec => []HearsAgainInTime
<1>1. Init => DeafInv
  BY InitShape, InitDeaf DEF DeafInv
<1>2. QED
  BY <1>1, NextDeaf, DeafBound, PTL DEF Spec

=============================================================================
