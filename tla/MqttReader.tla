------------------------------ MODULE MqttReader ------------------------------
(***************************************************************************)
(* How the two ends of the MQTT connections find the packets in the byte   *)
(* stream of the broker: WiFiMqttTransport::readPacket of the device and   *)
(* MqttClient.read of the WebUI.                                           *)
(*                                                                         *)
(* Both give a packet up in the middle when the next byte takes longer     *)
(* than a second, and then read on from wherever the stream stands, so     *)
(* that a reader may be out of step with the packets.  Bytes are the       *)
(* numbers below 2 * Base; a packet's first byte is its type.              *)
(***************************************************************************)
EXTENDS Integers, Sequences

CONSTANTS
  Base,     \* 128: a length digit is a number below Base, plus Base if one follows
  Word,     \* the device's lengths are uint32_t, modulo Word
  Packets,  \* what the broker may send
  Refused   \* the publications that record fails on with anything but an OSError

Byte == 0..(2 * Base - 1)
Publish == 3

ASSUME SizeAssumption == Base \in Nat /\ Base > 1 /\ Word \in Nat /\ Word >= (2 * Base) * (2 * Base)
VARIABLES
  end,        \* whose connection it is: "device" or "webui"
  packet,     \* the packet that is being sent, or was sent last
  rest,       \* its bytes still to come
  reader,     \* the packet that is being read, see Reader
  delivered,  \* what the last byte completed: poll's or read's message
  doubt       \* history: a packet stalled, and the stream has not paused since

vars == <<end, packet, rest, reader, delivered, doubt>>

-----------------------------------------------------------------------------
(* Writing. *)

\* writeRemainingLength, enclen.
Digits[n \in 0..(Word - 1)] ==
  IF n < Base THEN <<n>> ELSE <<(n % Base) + Base>> \o Digits[n \div Base]

\* writeString, encstr.
Text(s) == <<Len(s) \div (2 * Base), Len(s) % (2 * Base)>> \o s

Body(p) == IF p.type = Publish THEN Text(p.topic) \o p.payload ELSE p.payload

\* A topic's length is written in two bytes, and a body's fits a length.
ASSUME PacketAssumption ==
  /\ Packets \subseteq [type : Byte, topic : Seq(Byte), payload : Seq(Byte)]
  /\ \A p \in Packets : Len(p.topic) < (2 * Base) * (2 * Base) /\ Len(Body(p)) < Word

\* A packet as WiFiMqttTransport::publish and MqttClient.publish write it, and the broker.
Encoded(p) == <<p.type>> \o Digits[Len(Body(p))] \o Body(p)

-----------------------------------------------------------------------------
(* Reading. *)

\* The WebUI takes a body whole, the device takes it apart as it comes.
Reader == [at : {"first", "length", "hi", "lo", "topic", "payload", "skip", "body", "dead"},
           type : Byte,
           left : 0..Word,         \* remaining
           multiplier : 0..Word,
           topicLeft : 0..(4 * Base * Base),
           size : 0..Word,         \* of the body
           topic : Seq(Byte), payload : Seq(Byte)]

Idle == [at |-> "first", type |-> 0, left |-> 0, multiplier |-> 1, topicLeft |-> 0, size |-> 0,
         topic |-> <<>>, payload |-> <<>>]

\* mqtt_loop has ended with an exception that is no OSError.
Dead == [Idle EXCEPT !.at = "dead"]

Nothing == [type |-> 0, topic |-> <<>>, payload |-> <<>>]

\* An rdm/alive whose w.r or u is no number (_normalize_alive), a get_mqtt chunk whose seq
\* is none (_record_file_transfer_unlocked), CBOR nested too deep.
ASSUME RefusedAssumption == Refused \subseteq {p \in Packets : p.type = Publish}

\* Bound: what is read in doubt is not kept.
Kept(s, b) == IF doubt THEN s ELSE Append(s, b)
Message(t, p) == IF doubt THEN Nothing ELSE [type |-> Publish, topic |-> t, payload |-> p]

\* What a byte makes of a reader, and the message it completes.
Reading(r) == [reader |-> r, message |-> Nothing]
Complete(t, p) == [reader |-> Idle, message |-> Message(t, p)]

\* remaining and multiplier wrap on the device (bound: Python's stop at Word).
Sum(x, y) == IF end = "device" THEN (x + y) % Word ELSE IF x + y < Word THEN x + y ELSE Word

\* (Mutant: remaining is signed.)
MutLess(x, y) == x - y

\* remaining of a publication that is shorter than its topic wraps.
Less(x, y) == (x - y) % Word

\* (Mutant: the length is known one digit early.)
MutMore(b) == b > Base

\* Another length digit follows.
More(b) == b >= Base

WithDigit(r, b) ==
  [r EXCEPT !.left = Sum(@, (b % Base) * r.multiplier),
            !.multiplier = Sum(0, @ * Base)]

\* readPacket, once the length is known.
DeviceBody(r) ==
  IF r.type = Publish THEN Reading([r EXCEPT !.at = "hi"])
  ELSE Reading(IF r.left = 0 THEN Idle ELSE [r EXCEPT !.at = "skip"])

DevicePayload(r) ==
  IF r.left = 0 THEN Complete(r.topic, r.payload) ELSE Reading([r EXCEPT !.at = "payload"])

DeviceTopic(r) ==
  IF r.topicLeft = 0 THEN DevicePayload(r) ELSE Reading([r EXCEPT !.at = "topic"])

\* (Mutant: an empty payload is not expected.)
MutUnreadable(size) == size < 4

\* parse_publish unpacks two bytes; the exception ends the thread of mqtt_loop.
Unreadable(size) == size < 2

\* MqttClient.read, once a body is there.
Parsed(r) ==
  IF r.type # Publish THEN Reading(Idle)
  ELSE IF Unreadable(r.size) THEN Reading(Dead)
  ELSE IF doubt THEN Complete(<<>>, <<>>)
  ELSE LET raw == r.payload
           topicEnd == 2 + raw[1] * 2 * Base + raw[2]
       IN  Complete(SubSeq(raw, 3, topicEnd), SubSeq(raw, topicEnd + 1, Len(raw)))

WebuiBody(r) == IF r.left = 0 THEN Parsed(r) ELSE Reading([r EXCEPT !.at = "body"])

Step(r, b) ==
  CASE r.at = "first" -> Reading([Idle EXCEPT !.at = "length", !.type = b])
    [] r.at = "length" ->
         LET d == WithDigit(r, b)
         IN  IF More(b) THEN Reading(d)
             ELSE IF end = "device" THEN DeviceBody(d)
             ELSE WebuiBody([d EXCEPT !.size = d.left])
    [] r.at = "hi" -> Reading([r EXCEPT !.at = "lo", !.topicLeft = b * 2 * Base])
    [] r.at = "lo" ->
         LET length == r.topicLeft + b
         IN  DeviceTopic([r EXCEPT !.topicLeft = length, !.left = Less(@, 2 + length)])
    [] r.at = "topic" ->
         DeviceTopic([r EXCEPT !.topicLeft = @ - 1, !.topic = Kept(@, b)])
    [] r.at = "payload" ->
         DevicePayload([r EXCEPT !.left = @ - 1, !.payload = Kept(@, b)])
    [] r.at = "skip" ->
         Reading(IF r.left = 1 THEN Idle ELSE [r EXCEPT !.left = @ - 1])
    [] r.at = "body" ->
         WebuiBody([r EXCEPT !.left = @ - 1, !.payload = Kept(@, b)])

\* Where mqtt_loop stands after record: nothing is known of what a reader in doubt has read.
Recorded(s) ==
  IF end = "device" THEN {s.reader}
  ELSE IF s.message \in Refused THEN {Dead}
  ELSE IF doubt /\ reader.type = Publish /\ s.reader = Idle THEN {Idle, Dead}
  ELSE {s.reader}

\* readByte has waited for its second, recv for the socket's timeout: what was read of
\* the packet is lost.
GivenUp == Idle

-----------------------------------------------------------------------------

Init ==
  /\ end \in {"device", "webui"}
  /\ packet = Nothing /\ rest = <<>>
  /\ reader = Idle /\ delivered = Nothing /\ doubt = FALSE

Alive == reader.at # "dead"

Send(p) ==
  /\ Alive /\ rest = <<>>
  /\ packet' = p /\ rest' = Encoded(p)
  /\ delivered' = Nothing
  /\ UNCHANGED <<end, reader, doubt>>

TakeByte ==
  /\ Alive /\ rest # <<>>
  /\ LET s == Step(reader, Head(rest))
     IN  reader' \in Recorded(s) /\ delivered' = s.message
  /\ rest' = Tail(rest)
  /\ UNCHANGED <<end, packet, doubt>>

\* For longer than a second nothing comes: between two packets, or in the middle of one.
Pause ==
  /\ Alive /\ rest # Encoded(packet)
  /\ reader' = GivenUp
  /\ delivered' = Nothing
  /\ doubt' = (rest # <<>>)
  /\ UNCHANGED <<end, packet, rest>>

\* The connection is lost, and made again.
Reconnect ==
  /\ Alive
  /\ rest' = <<>> /\ reader' = Idle /\ delivered' = Nothing /\ doubt' = FALSE
  /\ UNCHANGED <<end, packet>>

Next == (\E p \in Packets : Send(p)) \/ TakeByte \/ Pause \/ Reconnect

Spec == Init /\ [][Next]_vars

-----------------------------------------------------------------------------
(* Properties. *)

\* Every variable has its type.
TypeOK ==
  /\ end \in {"device", "webui"}
  /\ packet \in Packets \cup {Nothing} /\ rest \in Seq(Byte)
  /\ reader \in Reader
  /\ delivered \in [type : {0, Publish}, topic : Seq(Byte), payload : Seq(Byte)]
  /\ doubt \in BOOLEAN

\* Unless a packet stalled and the stream has not paused since, either end takes every
\* publication as it was written, with its last byte and never before, and nothing
\* else: lengths are read as they are written, whatever the packets before were.
InStep ==
  [][TakeByte /\ ~doubt =>
       /\ delivered' = IF rest' = <<>> /\ packet.type = Publish THEN packet ELSE Nothing
       /\ rest' = <<>> =>
            reader' = IF end = "webui" /\ packet \in Refused THEN Dead ELSE Idle]_vars

\* The thread of the WebUI (mqtt_loop, which expects OSError only) ends in doubt, or when
\* it has all of a publication that record fails on: no other stream of whole packets
\* ends it, and the device's reader never stops.
ThreadLives ==
  ~Alive => end = "webui" /\ (doubt \/ (rest = <<>> /\ packet \in Refused))

=============================================================================
