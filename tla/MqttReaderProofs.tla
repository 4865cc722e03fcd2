--------------------------- MODULE MqttReaderProofs ---------------------------
(***************************************************************************)
(* TLAPS proofs about MqttReader, for every base of the length digits,     *)
(* every word size and whatever packets the broker may send.               *)
(***************************************************************************)
EXTENDS MqttReader, SequenceTheorems, WellFoundedInduction, TLAPS

LEMMA Sizes ==
  /\ Base \in Nat /\ Base > 1 /\ 2 * Base \in Nat /\ 2 * Base > 0
  /\ Word \in Nat /\ Word > 0 /\ Word > 2 * Base
  /\ 4 * Base * Base \in Nat /\ (2 * Base) * (2 * Base) = 4 * Base * Base
<1>1. Base \in Nat /\ Base > 1 /\ Word \in Nat /\ Word >= (2 * Base) * (2 * Base)
  BY SizeAssumption
<1>2. \A n \in Nat : n > 2 => n * n > n /\ n * n \in Nat
  OBVIOUS
<1>3. 2 * Base \in Nat /\ 2 * Base > 2
  BY <1>1
<1>4. (2 * Base) * (2 * Base) > 2 * Base /\ (2 * Base) * (2 * Base) \in Nat
  BY <1>2, <1>3
<1>5. \A n \in Nat : (2 * n) * (2 * n) = 4 * n * n
  OBVIOUS
<1>6. (2 * Base) * (2 * Base) = 4 * Base * Base
  BY <1>1, <1>5
<1>7. QED
  BY <1>1, <1>3, <1>4, <1>6

-----------------------------------------------------------------------------
(* The digits of a length.                                                  *)

\* A set that has a number whenever it has the smaller ones has them all.
LEMMA Numbers ==
  ASSUME NEW P, \A n \in Nat : (\A m \in Nat : m < n => m \in P) => n \in P
  PROVE  Nat \subseteq P
<1> DEFINE T == Nat \ P
           R == OpToRel(<, Nat)
<1>1. CASE T = {}
  BY <1>1
<1>2. CASE T # {}
  <2>1. IsWellFoundedOn(R, Nat)
    BY NatLessThanWellFounded
  <2>2. T \subseteq Nat
    OBVIOUS
  <2>3. \E x \in T : \A y \in T : ~(<<y, x>> \in R)
    BY <1>2, <2>1, <2>2, WFMin
  <2>4. PICK x \in T : \A y \in T : ~(<<y, x>> \in R)
    BY <2>3
  <2>5. \A m \in Nat : m < x => m \in P
    BY <2>4 DEF OpToRel
  <2>6. QED
    BY <2>4, <2>5
<1>3. QED
  BY <1>1, <1>2

\* Dividing by the base makes a number smaller, and loses nothing.
LEMMA Division ==
  ASSUME NEW n \in Nat
  PROVE  /\ n \div Base \in Nat /\ n % Base \in 0..(Base - 1)
         /\ n = Base * (n \div Base) + (n % Base)
         /\ n >= Base => n \div Base < n /\ n \div Base > 0
<1>1. Base \in Nat /\ Base > 1
  BY Sizes
<1>2. n \div Base \in Nat /\ n % Base \in 0..(Base - 1)
  BY <1>1
<1>3. n = Base * (n \div Base) + (n % Base)
  BY <1>1
<1>4. \A q \in Nat, r \in 0..(Base - 1) : n = Base * q + r /\ n >= Base => q < n /\ q > 0
  <2> SUFFICES ASSUME NEW q \in Nat, NEW r \in 0..(Base - 1), n = Base * q + r, n >= Base
               PROVE  q < n /\ q > 0
    OBVIOUS
  <2>1. q > 0
    <3>1. q = 0 => n = r
      BY <1>1
    <3>2. r < Base
      BY <1>1
    <3>3. QED
      BY <1>1, <3>1, <3>2
  <2>2. \A b, k \in Nat : b > 1 /\ k > 0 => b * k > k /\ b * k \in Nat
    OBVIOUS
  <2>3. Base * q > q /\ Base * q \in Nat
    BY <1>1, <2>1, <2>2
  <2>4. QED
    BY <1>1, <2>1, <2>3
<1>5. n >= Base => n \div Base < n /\ n \div Base > 0
  BY <1>2, <1>3, <1>4
<1>6. QED
  BY <1>2, <1>3, <1>5, Zenon

\* The recursive definition has a solution: it is built up from the small numbers.
DigitsOf(f, n) == IF n < Base THEN <<n>> ELSE <<(n % Base) + Base>> \o f[n \div Base]

LEMMA DigitsUpTo == \A m \in Nat : \E f : f = [n \in 0..m |-> DigitsOf(f, n)]
<1> DEFINE P == {m \in Nat : \E f : f = [n \in 0..m |-> DigitsOf(f, n)]}
<1>1. ASSUME NEW m \in Nat, \A k \in Nat : k < m => k \in P
      PROVE  m \in P
  <2>1. CASE m = 0
    <3>1. \A n \in 0..0 : n < Base
      BY Sizes
    <3> DEFINE f == [n \in 0..0 |-> <<n>>]
    <3>2. f = [n \in 0..0 |-> DigitsOf(f, n)]
      BY <3>1 DEF DigitsOf
    <3>3. QED
      BY <2>1, <3>2
  <2>2. CASE m # 0
    <3>1. m - 1 \in P /\ m - 1 \in Nat
      BY <1>1, <2>2
    <3>2. PICK f : f = [n \in 0..(m - 1) |-> DigitsOf(f, n)]
      BY <3>1
    <3> DEFINE g == [n \in 0..m |-> DigitsOf(f, n)]
    <3>3. \A n \in 0..(m - 1) : g[n] = f[n]
      BY <3>2
    <3>4. \A n \in 0..m : n < Base \/ n \div Base \in 0..(m - 1)
      <4> SUFFICES ASSUME NEW n \in 0..m, n >= Base
                   PROVE  n \div Base \in 0..(m - 1)
        BY Sizes
      <4>1. n \in Nat /\ n <= m
        OBVIOUS
      <4>2. n \div Base \in Nat /\ n \div Base < n
        BY <4>1, Division
      <4>3. QED
        BY <4>1, <4>2
    <3>5. \A n \in 0..m : DigitsOf(f, n) = DigitsOf(g, n)
      BY <3>3, <3>4 DEF DigitsOf
    <3>6. g = [n \in 0..m |-> DigitsOf(g, n)]
      BY <3>5
    <3>7. QED
      BY <3>6
  <2>3. QED
    BY <2>1, <2>2
<1>2. Nat \subseteq P
  BY <1>1, Numbers
<1>3. QED
  BY <1>2

\* So Digits is what it is defined to be.
LEMMA DigitsDef ==
  ASSUME NEW n \in Nat, n < Word
  PROVE  Digits[n] = IF n < Base THEN <<n>> ELSE <<(n % Base) + Base>> \o Digits[n \div Base]
<1>1. Word - 1 \in Nat /\ n \in 0..(Word - 1)
  BY Sizes
<1>2. \E f : f = [k \in 0..(Word - 1) |-> DigitsOf(f, k)]
  BY <1>1, DigitsUpTo
<1>3. \E f : f = [k \in 0..(Word - 1) |->
                   IF k < Base THEN <<k>> ELSE <<(k % Base) + Base>> \o f[k \div Base]]
  BY <1>2 DEF DigitsOf
<1>4. Digits = [k \in 0..(Word - 1) |->
                   IF k < Base THEN <<k>> ELSE <<(k % Base) + Base>> \o Digits[k \div Base]]
  BY <1>3 DEF Digits
<1>5. QED
  BY <1>1, <1>4

LEMMA DigitsType ==
  ASSUME NEW n \in Nat, n < Word
  PROVE  Digits[n] \in Seq(Byte)
<1> DEFINE P == {m \in Nat : m < Word => Digits[m] \in Seq(Byte)}
<1>1. ASSUME NEW m \in Nat, \A k \in Nat : k < m => k \in P
      PROVE  m \in P
  <2> SUFFICES ASSUME m < Word PROVE Digits[m] \in Seq(Byte)
    OBVIOUS
  <2>1. CASE m < Base
    <3>1. Digits[m] = <<m>>
      BY <2>1, DigitsDef, Zenon
    <3>2. m \in Byte
      BY <2>1, Sizes DEF Byte
    <3>3. QED
      BY <3>1, <3>2
  <2>2. CASE m >= Base
    <3>1. Digits[m] = <<(m % Base) + Base>> \o Digits[m \div Base]
      <4>1. ~(m < Base)
        BY <2>2, Sizes
      <4>2. QED
        BY <4>1, DigitsDef, Zenon
    <3>2. m \div Base \in Nat /\ m \div Base < m /\ m % Base \in 0..(Base - 1)
      BY <2>2, Division
    <3>3. (m % Base) + Base \in Byte
      BY <3>2, Sizes DEF Byte
    <3>4. m \div Base < Word
      BY <3>2, Sizes
    <3>5. Digits[m \div Base] \in Seq(Byte)
      BY <1>1, <3>2, <3>4
    <3>6. <<(m % Base) + Base>> \in Seq(Byte)
      BY <3>3
    <3>7. QED
      BY <3>1, <3>5, <3>6, ConcatProperties
  <2>3. QED
    BY <2>1, <2>2, Sizes
<1>2. Nat \subseteq P
  BY <1>1, Numbers
<1>3. QED
  BY <1>2

LEMMA DigitsSome ==
  ASSUME NEW n \in Nat, n < Word
  PROVE  Digits[n] # <<>>
<1>1. CASE n < Base
  <2>1. Digits[n] = <<n>>
    BY <1>1, DigitsDef, Zenon
  <2>2. QED
    BY <2>1
<1>2. CASE ~(n < Base)
  <2>1. Digits[n] = <<(n % Base) + Base>> \o Digits[n \div Base]
    BY <1>2, DigitsDef, Zenon
  <2>2. n \div Base \in Nat /\ n \div Base < n
    BY <1>2, Division, Sizes
  <2>3. n \div Base < Word
    BY <2>2, Sizes
  <2>4. <<(n % Base) + Base>> \in Seq(Int) /\ <<(n % Base) + Base>> # <<>>
    BY Sizes
  <2>5. Digits[n \div Base] \in Seq(Int)
    <3>1. Digits[n \div Base] \in Seq(Byte) /\ Byte \subseteq Int
      BY <2>2, <2>3, DigitsType, Sizes DEF Byte
    <3>2. QED
      BY <3>1, SeqMonotonic
  <2>6. QED
    BY <2>1, <2>4, <2>5, ConcatEqualIffEmpty
<1>3. QED
  BY <1>1, <1>2

-----------------------------------------------------------------------------
(* Types: whatever a byte is taken for.                                     *)

\* Where a reader waits for a byte, it expects one.
Expecting(r) ==
  /\ r.at \in {"payload", "skip", "body"} => r.left > 0
  /\ r.at = "topic" => r.topicLeft > 0
  /\ r.at = "lo" => r.topicLeft + 2 * Base <= 4 * Base * Base

Waiting(r) == r \in Reader /\ Expecting(r)

LEMMA IdleWaits == Waiting(Idle)
<1>1. 0 \in Byte /\ 0 \in 0..Word /\ 1 \in 0..Word /\ 0 \in 0..(4 * Base * Base)
  BY Sizes DEF Byte
<1>2. <<>> \in Seq(Byte)
  OBVIOUS
<1>3. QED
  BY <1>1, <1>2 DEF Waiting, Expecting, Reader, Idle

LEMMA DeadWaits == Waiting(Dead)
<1>1. Idle \in Reader
  BY IdleWaits DEF Waiting
<1>2. Dead \in Reader
  BY <1>1 DEF Reader, Dead
<1>3. Dead.at = "dead"
  BY DEF Idle, Dead
<1>4. QED
  BY <1>2, <1>3 DEF Waiting, Expecting

LEMMA SumType ==
  ASSUME NEW x \in Nat, NEW y \in Nat
  PROVE  Sum(x, y) \in 0..Word /\ (x + y < Word => Sum(x, y) = x + y)
<1>1. Word \in Nat /\ Word > 0
  BY Sizes
<1>2. (x + y) % Word \in 0..(Word - 1)
  BY <1>1
<1>3. x + y < Word => (x + y) % Word = x + y
  BY <1>1
<1>4. QED
  BY <1>1, <1>2, <1>3 DEF Sum

LEMMA LessType ==
  ASSUME NEW x \in Int, NEW y \in Int
  PROVE  Less(x, y) \in 0..Word /\ (x - y \in 0..(Word - 1) => Less(x, y) = x - y)
<1>1. Word \in Nat /\ Word > 0
  BY Sizes
<1>2. (x - y) % Word \in 0..(Word - 1)
  BY <1>1
<1>3. x - y \in 0..(Word - 1) => (x - y) % Word = x - y
  BY <1>1
<1>4. QED
  BY <1>1, <1>2, <1>3 DEF Less

LEMMA KeptType ==
  ASSUME NEW s \in Seq(Byte), NEW b \in Byte
  PROVE  Kept(s, b) \in Seq(Byte)
  BY DEF Kept

\* The steps that follow a byte.
LEMMA MovedWaits ==
  ASSUME NEW r \in Reader, NEW a \in {"hi", "topic", "payload", "skip", "body"},
         a \in {"payload", "skip", "body"} => r.left > 0,
         a = "topic" => r.topicLeft > 0
  PROVE  Waiting([r EXCEPT !.at = a])
<1> DEFINE d == [r EXCEPT !.at = a]
<1>1. d \in Reader /\ d.at = a /\ d.left = r.left /\ d.topicLeft = r.topicLeft
  BY DEF Reader
<1>2. a # "lo"
  OBVIOUS
<1> HIDE DEF d
<1>3. Waiting(d)
  BY <1>1, <1>2 DEF Waiting, Expecting
<1>4. QED
  BY <1>3 DEF d

LEMMA DeviceBodyType ==
  ASSUME NEW r \in Reader
  PROVE  Waiting(DeviceBody(r).reader) /\ DeviceBody(r).message = Nothing
<1>1. r.left \in 0..Word
  BY DEF Reader
<1>2. CASE r.type = Publish
  <2>1. DeviceBody(r).reader = [r EXCEPT !.at = "hi"] /\ DeviceBody(r).message = Nothing
    BY <1>2 DEF DeviceBody, Reading
  <2>2. Waiting([r EXCEPT !.at = "hi"])
    BY MovedWaits
  <2>3. QED
    BY <2>1, <2>2, Zenon
<1>3. CASE r.type # Publish /\ r.left = 0
  <2>1. DeviceBody(r).reader = Idle /\ DeviceBody(r).message = Nothing
    BY <1>3 DEF DeviceBody, Reading
  <2>2. QED
    BY <2>1, IdleWaits
<1>4. CASE r.type # Publish /\ r.left # 0
  <2>1. DeviceBody(r).reader = [r EXCEPT !.at = "skip"] /\ DeviceBody(r).message = Nothing
    BY <1>4 DEF DeviceBody, Reading
  <2>2. r.left > 0
    BY <1>1, <1>4
  <2>3. Waiting([r EXCEPT !.at = "skip"])
    BY <2>2, MovedWaits
  <2>4. QED
    BY <2>1, <2>3, Zenon
<1>5. QED
  BY <1>2, <1>3, <1>4

LEMMA DevicePayloadType ==
  ASSUME NEW r \in Reader
  PROVE  /\ Waiting(DevicePayload(r).reader)
         /\ DevicePayload(r).message \in {Nothing, Message(r.topic, r.payload)}
<1>1. r.left \in 0..Word
  BY DEF Reader
<1>2. CASE r.left = 0
  <2>1. DevicePayload(r).reader = Idle /\ DevicePayload(r).message = Message(r.topic, r.payload)
    BY <1>2 DEF DevicePayload, Complete
  <2>2. QED
    BY <2>1, IdleWaits
<1>3. CASE r.left # 0
  <2>1. DevicePayload(r).reader = [r EXCEPT !.at = "payload"] /\ DevicePayload(r).message = Nothing
    BY <1>3 DEF DevicePayload, Reading
  <2>2. r.left > 0
    BY <1>1, <1>3
  <2>3. Waiting([r EXCEPT !.at = "payload"])
    BY <2>2, MovedWaits
  <2>4. QED
    BY <2>1, <2>3, Zenon
<1>4. QED
  BY <1>2, <1>3

LEMMA DeviceTopicType ==
  ASSUME NEW r \in Reader
  PROVE  /\ Waiting(DeviceTopic(r).reader)
         /\ DeviceTopic(r).message \in {Nothing, Message(r.topic, r.payload)}
<1>1. r.topicLeft \in 0..(4 * Base * Base)
  BY DEF Reader
<1>2. CASE r.topicLeft = 0
  BY <1>2, DevicePayloadType DEF DeviceTopic
<1>3. CASE r.topicLeft # 0
  <2>1. DeviceTopic(r).reader = [r EXCEPT !.at = "topic"] /\ DeviceTopic(r).message = Nothing
    BY <1>3 DEF DeviceTopic, Reading
  <2>2. r.topicLeft > 0
    BY <1>1, <1>3, Sizes
  <2>3. Waiting([r EXCEPT !.at = "topic"])
    BY <2>2, MovedWaits
  <2>4. QED
    BY <2>1, <2>3, Zenon
<1>4. QED
  BY <1>2, <1>3

LEMMA WebuiBodyType ==
  ASSUME NEW r \in Reader
  PROVE  Waiting(WebuiBody(r).reader)
<1>1. r.left \in 0..Word
  BY DEF Reader
<1>2. CASE r.left = 0
  <2>1. WebuiBody(r).reader \in {Idle, Dead}
    BY <1>2 DEF WebuiBody, Parsed, Reading, Complete
  <2>2. QED
    BY <2>1, IdleWaits, DeadWaits
<1>3. CASE r.left # 0
  <2>1. WebuiBody(r).reader = [r EXCEPT !.at = "body"]
    BY <1>3 DEF WebuiBody, Reading
  <2>2. r.left > 0
    BY <1>1, <1>3
  <2>3. Waiting([r EXCEPT !.at = "body"])
    BY <2>2, MovedWaits
  <2>4. QED
    BY <2>1, <2>3, Zenon
<1>4. QED
  BY <1>2, <1>3

LEMMA ReadingIs ==
  ASSUME NEW r
  PROVE  Reading(r).reader = r /\ Reading(r).message = Nothing
  BY DEF Reading

\* The step at each place.
LEMMA StepAt ==
  ASSUME NEW r, NEW b
  PROVE  /\ r.at = "first" => Step(r, b) = Reading([Idle EXCEPT !.at = "length", !.type = b])
         /\ r.at = "length" /\ More(b) => Step(r, b) = Reading(WithDigit(r, b))
         /\ r.at = "length" /\ ~More(b) /\ end = "device" =>
              Step(r, b) = DeviceBody(WithDigit(r, b))
         /\ r.at = "length" /\ ~More(b) /\ end # "device" =>
              Step(r, b) = WebuiBody([WithDigit(r, b) EXCEPT !.size = WithDigit(r, b).left])
         /\ r.at = "hi" =>
              Step(r, b) = Reading([r EXCEPT !.at = "lo", !.topicLeft = b * 2 * Base])
         /\ r.at = "lo" =>
              Step(r, b) = DeviceTopic([r EXCEPT !.topicLeft = r.topicLeft + b,
                                                 !.left = Less(@, 2 + (r.topicLeft + b))])
         /\ r.at = "topic" =>
              Step(r, b) = DeviceTopic([r EXCEPT !.topicLeft = @ - 1, !.topic = Kept(@, b)])
         /\ r.at = "payload" =>
              Step(r, b) = DevicePayload([r EXCEPT !.left = @ - 1, !.payload = Kept(@, b)])
         /\ r.at = "skip" =>
              Step(r, b) = Reading(IF r.left = 1 THEN Idle ELSE [r EXCEPT !.left = @ - 1])
         /\ r.at = "body" =>
              Step(r, b) = WebuiBody([r EXCEPT !.left = @ - 1, !.payload = Kept(@, b)])
  BY DEF Step

\* What a byte changes in a reader, and what it leaves.
LEMMA DigitReader ==
  ASSUME NEW r \in Reader, NEW b \in Byte
  PROVE  LET d == WithDigit(r, b)
         IN  /\ d \in Reader
             /\ d.left = Sum(r.left, (b % Base) * r.multiplier)
             /\ d.multiplier = Sum(0, r.multiplier * Base)
             /\ d.at = r.at /\ d.type = r.type /\ d.topicLeft = r.topicLeft /\ d.size = r.size
             /\ d.topic = r.topic /\ d.payload = r.payload
<1>1. r.left \in Nat /\ r.multiplier \in Nat /\ b \in Nat /\ Base \in Nat /\ Base > 0
  BY Sizes DEF Reader, Byte
<1>2. b % Base \in Nat
  BY <1>1
<1>3. \A x, y \in Nat : x * y \in Nat
  OBVIOUS
<1>4. (b % Base) * r.multiplier \in Nat /\ r.multiplier * Base \in Nat
  BY <1>1, <1>2, <1>3
<1>5. /\ Sum(r.left, (b % Base) * r.multiplier) \in 0..Word
      /\ Sum(0, r.multiplier * Base) \in 0..Word
  BY <1>1, <1>4, SumType
<1>6. \A x, y \in 0..Word :
        LET d == [r EXCEPT !.left = x, !.multiplier = y]
        IN  /\ d \in Reader /\ d.left = x /\ d.multiplier = y
            /\ d.at = r.at /\ d.type = r.type /\ d.topicLeft = r.topicLeft /\ d.size = r.size
            /\ d.topic = r.topic /\ d.payload = r.payload
  BY DEF Reader
<1>7. WithDigit(r, b) = [r EXCEPT !.left = Sum(r.left, (b % Base) * r.multiplier),
                                  !.multiplier = Sum(0, r.multiplier * Base)]
  BY DEF WithDigit
<1> DEFINE left == Sum(r.left, (b % Base) * r.multiplier)
           multiplier == Sum(0, r.multiplier * Base)
<1>8. left \in 0..Word /\ multiplier \in 0..Word
  BY <1>5
<1>9. WithDigit(r, b) = [r EXCEPT !.left = left, !.multiplier = multiplier]
  BY <1>7
<1> HIDE DEF left, multiplier
<1>10. LET d == [r EXCEPT !.left = left, !.multiplier = multiplier]
         IN  /\ d \in Reader /\ d.left = left /\ d.multiplier = multiplier
             /\ d.at = r.at /\ d.type = r.type /\ d.topicLeft = r.topicLeft /\ d.size = r.size
             /\ d.topic = r.topic /\ d.payload = r.payload
  BY <1>6, <1>8, Zenon
<1>11. LET d == WithDigit(r, b)
         IN  /\ d \in Reader /\ d.left = left /\ d.multiplier = multiplier
             /\ d.at = r.at /\ d.type = r.type /\ d.topicLeft = r.topicLeft /\ d.size = r.size
             /\ d.topic = r.topic /\ d.payload = r.payload
  BY <1>9, <1>10
<1>12. QED
  BY <1>11 DEF left, multiplier

LEMMA SizedReader ==
  ASSUME NEW r \in Reader
  PROVE  LET d == [r EXCEPT !.size = r.left]
         IN  /\ d \in Reader
             /\ d.at = r.at /\ d.type = r.type /\ d.left = r.left /\ d.topicLeft = r.topicLeft
             /\ d.size = r.left /\ d.topic = r.topic /\ d.payload = r.payload
  BY DEF Reader

LEMMA LengthReader ==
  ASSUME NEW r, Waiting(r), NEW b \in Byte, r.at = "lo"
  PROVE  LET d == [r EXCEPT !.topicLeft = r.topicLeft + b,
                            !.left = Less(@, 2 + (r.topicLeft + b))]
         IN  /\ d \in Reader
             /\ d.left = Less(r.left, 2 + (r.topicLeft + b)) /\ d.topicLeft = r.topicLeft + b
             /\ d.at = r.at /\ d.type = r.type /\ d.topic = r.topic /\ d.payload = r.payload
<1>1. r \in Reader /\ r.topicLeft + 2 * Base <= 4 * Base * Base
  BY DEF Waiting, Expecting
<1>2. r.left \in Int /\ r.topicLeft \in Nat /\ b \in Nat /\ b < 2 * Base
  BY <1>1, Sizes DEF Reader, Byte
<1>3. r.topicLeft + b \in 0..(4 * Base * Base) /\ 2 + (r.topicLeft + b) \in Int
  BY <1>1, <1>2, Sizes
<1>4. Less(r.left, 2 + (r.topicLeft + b)) \in 0..Word
  BY <1>2, <1>3, LessType
<1>5. \A x \in 0..(4 * Base * Base), y \in 0..Word :
        LET d == [r EXCEPT !.topicLeft = x, !.left = y]
        IN  /\ d \in Reader /\ d.left = y /\ d.topicLeft = x
            /\ d.at = r.at /\ d.type = r.type /\ d.topic = r.topic /\ d.payload = r.payload
  BY <1>1 DEF Reader
<1>6. [r EXCEPT !.topicLeft = r.topicLeft + b, !.left = Less(@, 2 + (r.topicLeft + b))]
        = [r EXCEPT !.topicLeft = r.topicLeft + b, !.left = Less(r.left, 2 + (r.topicLeft + b))]
  BY <1>1 DEF Reader
<1>7. QED
  BY <1>3, <1>4, <1>5, <1>6, Zenon

LEMMA TopicReader ==
  ASSUME NEW r, Waiting(r), NEW b \in Byte, r.at = "topic"
  PROVE  LET d == [r EXCEPT !.topicLeft = @ - 1, !.topic = Kept(@, b)]
         IN  /\ d \in Reader /\ d.topicLeft = r.topicLeft - 1 /\ d.topic = Kept(r.topic, b)
             /\ d.at = r.at /\ d.type = r.type /\ d.left = r.left /\ d.payload = r.payload
<1>1. r \in Reader /\ r.topicLeft > 0
  BY DEF Waiting, Expecting
<1>2. r.topicLeft - 1 \in 0..(4 * Base * Base) /\ r.topic \in Seq(Byte)
  BY <1>1, Sizes DEF Reader
<1>3. Kept(r.topic, b) \in Seq(Byte)
  BY <1>2, KeptType
<1>4. \A x \in 0..(4 * Base * Base), s \in Seq(Byte) :
        LET d == [r EXCEPT !.topicLeft = x, !.topic = s]
        IN  /\ d \in Reader /\ d.topicLeft = x /\ d.topic = s
            /\ d.at = r.at /\ d.type = r.type /\ d.left = r.left /\ d.payload = r.payload
  BY <1>1 DEF Reader
<1>5. [r EXCEPT !.topicLeft = @ - 1, !.topic = Kept(@, b)]
        = [r EXCEPT !.topicLeft = r.topicLeft - 1, !.topic = Kept(r.topic, b)]
  BY <1>1 DEF Reader
<1>6. QED
  BY <1>2, <1>3, <1>4, <1>5, Zenon

LEMMA PayloadReader ==
  ASSUME NEW r, Waiting(r), NEW b \in Byte, r.at \in {"payload", "body"}
  PROVE  LET d == [r EXCEPT !.left = @ - 1, !.payload = Kept(@, b)]
         IN  /\ d \in Reader /\ d.left = r.left - 1 /\ d.payload = Kept(r.payload, b)
             /\ d.at = r.at /\ d.type = r.type /\ d.topic = r.topic /\ d.size = r.size
<1>1. r \in Reader /\ r.left > 0
  BY DEF Waiting, Expecting
<1>2. r.left - 1 \in 0..Word /\ r.payload \in Seq(Byte)
  BY <1>1, Sizes DEF Reader
<1>3. Kept(r.payload, b) \in Seq(Byte)
  BY <1>2, KeptType
<1>4. \A x \in 0..Word, s \in Seq(Byte) :
        LET d == [r EXCEPT !.left = x, !.payload = s]
        IN  /\ d \in Reader /\ d.left = x /\ d.payload = s
            /\ d.at = r.at /\ d.type = r.type /\ d.topic = r.topic /\ d.size = r.size
  BY <1>1 DEF Reader
<1>5. [r EXCEPT !.left = @ - 1, !.payload = Kept(@, b)]
        = [r EXCEPT !.left = r.left - 1, !.payload = Kept(r.payload, b)]
  BY <1>1 DEF Reader
<1>6. QED
  BY <1>2, <1>3, <1>4, <1>5, Zenon

MessageType == [type : {0, Publish}, topic : Seq(Byte), payload : Seq(Byte)]

LEMMA NothingType == Nothing \in MessageType
<1>1. <<>> \in Seq(Byte)
  OBVIOUS
<1>2. QED
  BY <1>1 DEF Nothing, MessageType

LEMMA MessageTypes ==
  ASSUME NEW t \in Seq(Byte), NEW p \in Seq(Byte)
  PROVE  Message(t, p) \in MessageType
  BY NothingType DEF Message, MessageType

\* A step leaves the reader somewhere it expects a byte.
LEMMA StepWaits ==
  ASSUME NEW r, Waiting(r), r.at # "dead", NEW b \in Byte
  PROVE  Waiting(Step(r, b).reader)
<1>1. r \in Reader
  BY DEF Waiting
<1>2. r.at \in {"first", "length", "hi", "lo", "topic", "payload", "skip", "body"}
  BY <1>1 DEF Reader
<1>3. CASE r.at = "first"
  <2>1. Step(r, b).reader = [Idle EXCEPT !.at = "length", !.type = b]
    <3>1. Step(r, b) = Reading([Idle EXCEPT !.at = "length", !.type = b])
      BY <1>3, StepAt
    <3>2. QED
      BY <3>1, ReadingIs, Zenon
  <2>2. Idle \in Reader
    BY IdleWaits DEF Waiting
  <2>3. [Idle EXCEPT !.at = "length", !.type = b] \in Reader
    BY <2>2 DEF Reader
  <2>4. [Idle EXCEPT !.at = "length", !.type = b].at = "length"
    BY DEF Idle
  <2>5. QED
    BY <2>1, <2>3, <2>4 DEF Waiting, Expecting
<1>4. CASE r.at = "length" /\ More(b)
  <2>1. Step(r, b).reader = WithDigit(r, b)
    <3>1. Step(r, b) = Reading(WithDigit(r, b))
      BY <1>4, StepAt
    <3>2. QED
      BY <3>1, ReadingIs, Zenon
  <2>2. WithDigit(r, b) \in Reader /\ WithDigit(r, b).at = "length"
    BY <1>1, <1>4, DigitReader
  <2>3. QED
    BY <2>1, <2>2 DEF Waiting, Expecting
<1>5. CASE r.at = "length" /\ ~More(b)
  <2> DEFINE d == WithDigit(r, b)
  <2>1. d \in Reader
    BY <1>1, DigitReader
  <2>2. CASE end = "device"
    <3>1. Step(r, b) = DeviceBody(d)
      BY <1>5, <2>2, StepAt
    <3>2. QED
      BY <2>1, <3>1, DeviceBodyType, Zenon
  <2>3. CASE end # "device"
    <3>1. Step(r, b) = WebuiBody([d EXCEPT !.size = d.left])
      BY <1>5, <2>3, StepAt
    <3>2. [d EXCEPT !.size = d.left] \in Reader
      BY <2>1, SizedReader
    <3>3. QED
      BY <3>1, <3>2, WebuiBodyType, Zenon
  <2>4. QED
    BY <2>2, <2>3
<1>6. CASE r.at = "hi"
  <2> DEFINE d == [r EXCEPT !.at = "lo", !.topicLeft = b * 2 * Base]
  <2>1. Step(r, b).reader = d
    <3>1. Step(r, b) = Reading(d)
      BY <1>6, StepAt
    <3>2. QED
      BY <3>1, ReadingIs, Zenon
  <2>2. b * 2 * Base \in 0..(4 * Base * Base) /\ b * 2 * Base + 2 * Base <= 4 * Base * Base
    <3>1. \A x, y \in Nat : x <= 2 * y - 1 =>
            /\ x * 2 * y \in Nat /\ x * 2 * y + 2 * y <= 4 * y * y /\ x * 2 * y <= 4 * y * y
      OBVIOUS
    <3>2. b \in Nat /\ b <= 2 * Base - 1 /\ Base \in Nat /\ 4 * Base * Base \in Nat
      BY Sizes DEF Byte
    <3>3. QED
      BY <3>1, <3>2
  <2>3. d \in Reader /\ d.at = "lo" /\ d.topicLeft = b * 2 * Base
    BY <1>1, <2>2 DEF Reader
  <2> HIDE DEF d
  <2>4. QED
    BY <2>1, <2>2, <2>3 DEF Waiting, Expecting
<1>7. CASE r.at = "lo"
  <2> DEFINE d == [r EXCEPT !.topicLeft = r.topicLeft + b, !.left = Less(@, 2 + (r.topicLeft + b))]
  <2>1. Step(r, b) = DeviceTopic(d)
    BY <1>7, StepAt
  <2>2. d \in Reader
    BY <1>7, LengthReader
  <2>3. QED
    BY <2>1, <2>2, DeviceTopicType, Zenon
<1>8. CASE r.at = "topic"
  <2> DEFINE d == [r EXCEPT !.topicLeft = @ - 1, !.topic = Kept(@, b)]
  <2>1. Step(r, b) = DeviceTopic(d)
    BY <1>8, StepAt
  <2>2. d \in Reader
    BY <1>8, TopicReader
  <2>3. QED
    BY <2>1, <2>2, DeviceTopicType, Zenon
<1>9. CASE r.at = "payload"
  <2> DEFINE d == [r EXCEPT !.left = @ - 1, !.payload = Kept(@, b)]
  <2>1. Step(r, b) = DevicePayload(d)
    BY <1>9, StepAt
  <2>2. d \in Reader
    BY <1>9, PayloadReader
  <2>3. QED
    BY <2>1, <2>2, DevicePayloadType, Zenon
<1>10. CASE r.at = "skip"
  <2>1. Step(r, b).reader = IF r.left = 1 THEN Idle ELSE [r EXCEPT !.left = @ - 1]
    <3>1. Step(r, b) = Reading(IF r.left = 1 THEN Idle ELSE [r EXCEPT !.left = @ - 1])
      BY <1>10, StepAt
    <3>2. QED
      BY <3>1, ReadingIs, Zenon
  <2>2. r.left \in 1..Word
    BY <1>1, <1>10, Sizes DEF Waiting, Expecting, Reader
  <2>3. ASSUME r.left # 1
        PROVE  Waiting([r EXCEPT !.left = @ - 1])
    <3> DEFINE d == [r EXCEPT !.left = @ - 1]
    <3>1. r.left - 1 \in 0..Word /\ r.left - 1 > 0
      BY <2>2, <2>3, Sizes
    <3>2. \A x \in 0..Word : LET e == [r EXCEPT !.left = x]
                             IN  e \in Reader /\ e.left = x /\ e.at = r.at
      BY <1>1 DEF Reader
    <3>3. d = [r EXCEPT !.left = r.left - 1]
      BY <1>1 DEF Reader
    <3>4. d \in Reader /\ d.left = r.left - 1 /\ d.at = "skip"
      BY <1>10, <3>1, <3>2, <3>3, Zenon
    <3> HIDE DEF d
    <3>5. Waiting(d)
      BY <3>1, <3>4 DEF Waiting, Expecting
    <3>6. QED
      BY <3>5 DEF d
  <2>4. QED
    BY <2>1, <2>3, IdleWaits
<1>11. CASE r.at = "body"
  <2> DEFINE d == [r EXCEPT !.left = @ - 1, !.payload = Kept(@, b)]
  <2>1. Step(r, b) = WebuiBody(d)
    BY <1>11, StepAt
  <2>2. d \in Reader
    BY <1>11, PayloadReader
  <2>3. QED
    BY <2>1, <2>2, WebuiBodyType, Zenon
<1>12. QED
  BY <1>2, <1>3, <1>4, <1>5, <1>6, <1>7, <1>8, <1>9, <1>10, <1>11

\* The device takes a packet apart as it comes, and gives up none with an exception.
OfDevice == {"first", "length", "hi", "lo", "topic", "payload", "skip"}

LEMMA DeviceGoesOn ==
  ASSUME end = "device", NEW r, r \in Reader, r.at \in OfDevice, NEW b \in Byte
  PROVE  Step(r, b).reader.at \in OfDevice
<1>1. Idle.at \in OfDevice /\ [Idle EXCEPT !.at = "length", !.type = b].at \in OfDevice
  BY DEF Idle, OfDevice
<1>2. \A d \in Reader : DevicePayload(d).reader.at \in OfDevice
  BY <1>1 DEF DevicePayload, Complete, Reading, OfDevice, Reader
<1>3. \A d \in Reader : DeviceTopic(d).reader.at \in OfDevice
  <2> TAKE d \in Reader
  <2>1. d.topicLeft # 0 => DeviceTopic(d).reader.at \in OfDevice
    BY DEF DeviceTopic, Reading, OfDevice, Reader
  <2>2. d.topicLeft = 0 => DeviceTopic(d) = DevicePayload(d)
    BY DEF DeviceTopic
  <2>3. QED
    BY <1>2, <2>1, <2>2, Zenon
<1>4. \A d \in Reader : DeviceBody(d).reader.at \in OfDevice
  BY <1>1 DEF DeviceBody, Reading, OfDevice, Reader
<1>5. CASE r.at = "first"
  <2>1. Step(r, b) = Reading([Idle EXCEPT !.at = "length", !.type = b])
    BY <1>5, StepAt
  <2>2. QED
    BY <1>1, <2>1, ReadingIs, Zenon
<1>6. CASE r.at = "length"
  <2>1. WithDigit(r, b) \in Reader /\ WithDigit(r, b).at = r.at
    BY <1>6, DigitReader
  <2>2. CASE More(b)
    <3>1. Step(r, b) = Reading(WithDigit(r, b))
      BY <1>6, <2>2, StepAt
    <3>2. Step(r, b).reader = WithDigit(r, b)
      BY <3>1, ReadingIs, Zenon
    <3>3. QED
      BY <1>6, <2>1, <3>2, Zenon
  <2>3. CASE ~More(b)
    <3>1. Step(r, b) = DeviceBody(WithDigit(r, b))
      BY <1>6, <2>3, StepAt
    <3>2. QED
      BY <1>4, <2>1, <3>1, Zenon
  <2>4. QED
    BY <2>2, <2>3
<1>7. CASE r.at = "hi"
  <2> DEFINE d == [r EXCEPT !.at = "lo", !.topicLeft = b * 2 * Base]
  <2>1. Step(r, b).reader = d
    <3>1. Step(r, b) = Reading(d)
      BY <1>7, StepAt
    <3>2. QED
      BY <3>1, ReadingIs, Zenon
  <2>2. d.at = "lo"
    BY DEF Reader
  <2> HIDE DEF d
  <2>3. QED
    BY <2>1, <2>2 DEF OfDevice
<1>8. CASE r.at = "lo"
  <2> DEFINE d == [r EXCEPT !.topicLeft = r.topicLeft + b, !.left = Less(@, 2 + (r.topicLeft + b))]
  <2>1. Step(r, b) = DeviceTopic(d)
    BY <1>8, StepAt
  <2>2. d.topicLeft = r.topicLeft + b => DeviceTopic(d).reader.at \in OfDevice
    <3>1. d.at = r.at
      BY DEF Reader
    <3> HIDE DEF d
    <3>2. DeviceTopic(d).reader.at \in {d.at, "topic", "payload", "first"}
      BY DEF DeviceTopic, DevicePayload, Reading, Complete, Idle
    <3>3. QED
      BY <1>8, <3>1, <3>2 DEF OfDevice
  <2>3. QED
    BY <1>8, <2>1, <2>2 DEF Reader
<1>9. CASE r.at = "topic"
  <2> DEFINE d == [r EXCEPT !.topicLeft = @ - 1, !.topic = Kept(@, b)]
  <2>1. Step(r, b) = DeviceTopic(d)
    BY <1>9, StepAt
  <2>2. QED
    BY <2>1 DEF DeviceTopic, DevicePayload, Reading, Complete, Idle, OfDevice
<1>10. CASE r.at = "payload"
  <2> DEFINE d == [r EXCEPT !.left = @ - 1, !.payload = Kept(@, b)]
  <2>1. Step(r, b) = DevicePayload(d)
    BY <1>10, StepAt
  <2>2. QED
    BY <2>1 DEF DevicePayload, Reading, Complete, Idle, OfDevice
<1>11. CASE r.at = "skip"
  <2> DEFINE d == [r EXCEPT !.left = @ - 1]
  <2>1. Step(r, b).reader = IF r.left = 1 THEN Idle ELSE d
    <3>1. Step(r, b) = Reading(IF r.left = 1 THEN Idle ELSE d)
      BY <1>11, StepAt
    <3>2. QED
      BY <3>1, ReadingIs, Zenon
  <2>2. d.at \in OfDevice
    BY DEF Reader
  <2>3. QED
    BY <1>1, <2>1, <2>2
<1>12. QED
  BY <1>5, <1>6, <1>7, <1>8, <1>9, <1>10, <1>11 DEF OfDevice

\* In doubt, a step gives no message.
LEMMA StepInDoubt ==
  ASSUME NEW r, Waiting(r), r.at # "dead", NEW b \in Byte, doubt
  PROVE  Step(r, b).message = Nothing
<1>1. r \in Reader
  BY DEF Waiting
<1>2. r.at \in {"first", "length", "hi", "lo", "topic", "payload", "skip", "body"}
  BY <1>1 DEF Reader
<1>3. \A t, p : Message(t, p) = Nothing
  BY DEF Message
<1>4. \A d \in Reader : DevicePayload(d).message = Nothing /\ DeviceTopic(d).message = Nothing
  BY <1>3, DevicePayloadType, DeviceTopicType
<1>5. \A d : WebuiBody(d).message = Nothing
  BY <1>3 DEF WebuiBody, Parsed, Reading, Complete
<1>6. CASE r.at = "length" /\ ~More(b) /\ end = "device"
  <2> DEFINE d == WithDigit(r, b)
  <2>1. Step(r, b) = DeviceBody(d)
    BY <1>6, StepAt
  <2>2. d \in Reader
    BY <1>1, <1>6, DigitReader
  <2>3. QED
    BY <2>1, <2>2, DeviceBodyType, Zenon
<1>7. CASE r.at = "length" /\ ~More(b) /\ end # "device"
  <2> DEFINE d == [WithDigit(r, b) EXCEPT !.size = WithDigit(r, b).left]
  <2>1. Step(r, b) = WebuiBody(d)
    BY <1>7, StepAt
  <2>2. QED
    BY <1>5, <2>1, Zenon
<1>8. CASE r.at = "lo"
  <2> DEFINE d == [r EXCEPT !.topicLeft = r.topicLeft + b, !.left = Less(@, 2 + (r.topicLeft + b))]
  <2>1. Step(r, b) = DeviceTopic(d)
    BY <1>8, StepAt
  <2>2. d \in Reader
    BY <1>1, <1>8, LengthReader
  <2>3. QED
    BY <1>4, <2>1, <2>2, Zenon
<1>9. CASE r.at = "topic"
  <2> DEFINE d == [r EXCEPT !.topicLeft = @ - 1, !.topic = Kept(@, b)]
  <2>1. Step(r, b) = DeviceTopic(d)
    BY <1>9, StepAt
  <2>2. d \in Reader
    BY <1>1, <1>9, TopicReader
  <2>3. QED
    BY <1>4, <2>1, <2>2, Zenon
<1>10. CASE r.at = "payload"
  <2> DEFINE d == [r EXCEPT !.left = @ - 1, !.payload = Kept(@, b)]
  <2>1. Step(r, b) = DevicePayload(d)
    BY <1>10, StepAt
  <2>2. d \in Reader
    BY <1>1, <1>10, PayloadReader
  <2>3. QED
    BY <1>4, <2>1, <2>2, Zenon
<1>11. CASE r.at = "body"
  <2> DEFINE d == [r EXCEPT !.left = @ - 1, !.payload = Kept(@, b)]
  <2>1. Step(r, b) = WebuiBody(d)
    BY <1>11, StepAt
  <2>2. QED
    BY <1>5, <2>1, Zenon
<1>12. CASE r.at = "first"
  <2>1. Step(r, b) = Reading([Idle EXCEPT !.at = "length", !.type = b])
    BY <1>12, StepAt
  <2>2. QED
    BY <2>1, ReadingIs, Zenon
<1>13. CASE r.at = "length" /\ More(b)
  <2>1. Step(r, b) = Reading(WithDigit(r, b))
    BY <1>13, StepAt
  <2>2. QED
    BY <2>1, ReadingIs, Zenon
<1>14. CASE r.at = "hi"
  <2>1. Step(r, b) = Reading([r EXCEPT !.at = "lo", !.topicLeft = b * 2 * Base])
    BY <1>14, StepAt
  <2>2. QED
    BY <2>1, ReadingIs, Zenon
<1>15. CASE r.at = "skip"
  <2>1. Step(r, b) = Reading(IF r.left = 1 THEN Idle ELSE [r EXCEPT !.left = @ - 1])
    BY <1>15, StepAt
  <2>2. QED
    BY <2>1, ReadingIs, Zenon
<1>16. QED
  BY <1>2, <1>6, <1>7, <1>8, <1>9, <1>10, <1>11, <1>12, <1>13, <1>14, <1>15

-----------------------------------------------------------------------------
(* The bytes of a packet.                                                   *)

\* Taking the first byte off a sequence.
LEMMA FirstOff ==
  ASSUME NEW b \in Byte, NEW s \in Seq(Byte)
  PROVE  /\ <<b>> \o s \in Seq(Byte) /\ <<b>> \o s # <<>>
         /\ Head(<<b>> \o s) = b /\ Tail(<<b>> \o s) = s
  OBVIOUS

LEMMA FirstOfTwo ==
  ASSUME NEW t \in Seq(Byte), NEW s \in Seq(Byte), t # <<>>
  PROVE  /\ Head(t) \in Byte /\ Tail(t) \in Seq(Byte) /\ Len(Tail(t)) = Len(t) - 1
         /\ Head(t \o s) = Head(t) /\ Tail(t \o s) = Tail(t) \o s
         /\ t = <<Head(t)>> \o Tail(t)
<1>1. /\ Head(t) \in Byte /\ Tail(t) \in Seq(Byte) /\ Len(Tail(t)) = Len(t) - 1
  OBVIOUS
<1>2. t = <<Head(t)>> \o Tail(t)
  OBVIOUS
<1>3. t \o s = <<Head(t)>> \o (Tail(t) \o s)
  <2>1. <<Head(t)>> \in Seq(Byte)
    BY <1>1
  <2>2. (<<Head(t)>> \o Tail(t)) \o s = <<Head(t)>> \o (Tail(t) \o s)
    BY <1>1, <2>1, ConcatAssociative
  <2>3. QED
    BY <1>2, <2>2
<1>4. Tail(t) \o s \in Seq(Byte)
  BY <1>1, ConcatProperties
<1>5. Head(t \o s) = Head(t) /\ Tail(t \o s) = Tail(t) \o s
  BY <1>1, <1>3, <1>4, FirstOff
<1>6. QED
  BY <1>1, <1>2, <1>5

\* Moving it to the end of what was read before.
LEMMA OneMoreRead ==
  ASSUME NEW u \in Seq(Byte), NEW t \in Seq(Byte), t # <<>>
  PROVE  Append(u, Head(t)) \in Seq(Byte) /\ Append(u, Head(t)) \o Tail(t) = u \o t
<1>1. Head(t) \in Byte /\ Tail(t) \in Seq(Byte) /\ t = <<Head(t)>> \o Tail(t)
  BY FirstOfTwo, EmptySeq
<1>2. Append(u, Head(t)) \in Seq(Byte) /\ Append(u, Head(t)) = u \o <<Head(t)>>
  BY <1>1, AppendProperties, AppendIsConcat
<1>3. <<Head(t)>> \in Seq(Byte)
  BY <1>1
<1>4. (u \o <<Head(t)>>) \o Tail(t) = u \o (<<Head(t)>> \o Tail(t))
  BY <1>1, <1>3, ConcatAssociative
<1>5. QED
  BY <1>1, <1>2, <1>4

\* The two bytes of a topic's length.
High(p) == Len(p.topic) \div (2 * Base)
Low(p) == Len(p.topic) % (2 * Base)

LEMMA TopicLength ==
  ASSUME NEW p \in Packets
  PROVE  /\ High(p) \in Byte /\ Low(p) \in Byte
         /\ High(p) * 2 * Base + Low(p) = Len(p.topic)
<1>1. Len(p.topic) \in Nat /\ Len(p.topic) < (2 * Base) * (2 * Base)
  BY PacketAssumption
<1> DEFINE c == 2 * Base
           n == Len(p.topic)
<1>2. c \in Nat /\ c > 0
  BY Sizes
<1>3. n \in Nat /\ n < c * c
  BY <1>1
<1> HIDE DEF c, n
<1>4. n \div c \in Nat /\ n % c \in 0..(c - 1)
  BY <1>2, <1>3
<1>5. n = c * (n \div c) + (n % c)
  BY <1>2, <1>3
<1>6. \A q, r \in Nat : q >= c => c * q + r >= c * c
  BY <1>2
<1>7. n \div c < c
  <2>1. n \div c >= c => n >= c * c
    BY <1>4, <1>5, <1>6
  <2>2. c * c \in Nat
    BY <1>2
  <2>3. QED
    BY <1>2, <1>3, <1>4, <2>1, <2>2
<1>8. n \div c \in 0..(c - 1)
  BY <1>2, <1>4, <1>7
<1>9. \A q, m \in Nat : (2 * m) * q = q * 2 * m
  OBVIOUS
<1>10. c * (n \div c) = (n \div c) * 2 * Base
  BY <1>4, <1>9, Sizes DEF c
<1>11. High(p) = n \div c /\ Low(p) = n % c
  BY DEF High, Low, n, c
<1>12. Byte = 0..(c - 1)
  BY DEF Byte, c
<1>13. High(p) \in Byte /\ Low(p) \in Byte
  BY <1>4, <1>8, <1>11, <1>12
<1>14. High(p) * 2 * Base + Low(p) = n
  BY <1>5, <1>10, <1>11
<1>15. QED
  BY <1>13, <1>14 DEF n

LEMMA BodyBytes ==
  ASSUME NEW p \in Packets
  PROVE  /\ p.type \in Byte /\ p.topic \in Seq(Byte) /\ p.payload \in Seq(Byte)
         /\ Body(p) \in Seq(Byte) /\ Len(Body(p)) \in Nat /\ Len(Body(p)) < Word
         /\ p.topic \o p.payload \in Seq(Byte)
         /\ p.type = Publish =>
              /\ p = [type |-> Publish, topic |-> p.topic, payload |-> p.payload]
              /\ Body(p) = <<High(p)>> \o (<<Low(p)>> \o (p.topic \o p.payload))
              /\ Len(Body(p)) = 2 + Len(p.topic) + Len(p.payload)
         /\ p.type # Publish => Body(p) = p.payload
<1>1. p \in [type : Byte, topic : Seq(Byte), payload : Seq(Byte)] /\ Len(Body(p)) < Word
  BY PacketAssumption
<1>2. p.type \in Byte /\ p.topic \in Seq(Byte) /\ p.payload \in Seq(Byte)
  BY <1>1
<1>3. High(p) \in Byte /\ Low(p) \in Byte
  BY TopicLength
<1>4. <<High(p)>> \in Seq(Byte) /\ <<Low(p)>> \in Seq(Byte) /\ <<High(p), Low(p)>> \in Seq(Byte)
  BY <1>3
<1>5. p.topic \o p.payload \in Seq(Byte) /\ Len(p.topic \o p.payload) = Len(p.topic) + Len(p.payload)
  BY <1>2, ConcatProperties
<1>6. p.type # Publish => Body(p) = p.payload
  BY DEF Body
<1>7. ASSUME p.type = Publish
      PROVE  /\ Body(p) = <<High(p)>> \o (<<Low(p)>> \o (p.topic \o p.payload))
             /\ Len(Body(p)) = 2 + Len(p.topic) + Len(p.payload) /\ Body(p) \in Seq(Byte)
  <2>1. Body(p) = (<<High(p), Low(p)>> \o p.topic) \o p.payload
    BY <1>7 DEF Body, Text, High, Low
  <2>2. \A s, t, u \in Seq(Byte) : (s \o t) \o u = s \o (t \o u)
    BY ConcatAssociative
  <2>3. Body(p) = <<High(p), Low(p)>> \o (p.topic \o p.payload)
    BY <1>2, <1>4, <2>1, <2>2, Zenon
  <2>4. <<High(p), Low(p)>> = <<High(p)>> \o <<Low(p)>>
    BY <1>3
  <2>5. Body(p) = <<High(p)>> \o (<<Low(p)>> \o (p.topic \o p.payload))
    <3>1. (<<High(p)>> \o <<Low(p)>>) \o (p.topic \o p.payload)
            = <<High(p)>> \o (<<Low(p)>> \o (p.topic \o p.payload))
      BY <1>4, <1>5, <2>2, Zenon
    <3>2. QED
      BY <2>3, <2>4, <3>1, Zenon
  <2>6. \A s, t \in Seq(Byte) : s \o t \in Seq(Byte) /\ Len(s \o t) = Len(s) + Len(t)
    BY ConcatProperties
  <2>7. Len(<<High(p), Low(p)>>) = 2
    OBVIOUS
  <2>8. Body(p) \in Seq(Byte) /\ Len(Body(p)) = 2 + Len(p.topic \o p.payload)
    <3>1. /\ <<High(p), Low(p)>> \o (p.topic \o p.payload) \in Seq(Byte)
          /\ Len(<<High(p), Low(p)>> \o (p.topic \o p.payload))
               = Len(<<High(p), Low(p)>>) + Len(p.topic \o p.payload)
      BY <1>4, <1>5, <2>6, Zenon
    <3>2. QED
      BY <2>3, <2>7, <3>1, Zenon
  <2>9. \A i, j \in Nat : 2 + (i + j) = 2 + i + j
    OBVIOUS
  <2>10. Len(p.topic) \in Nat /\ Len(p.payload) \in Nat
    BY <1>2
  <2>11. Len(Body(p)) = 2 + Len(p.topic) + Len(p.payload)
    BY <1>5, <2>8, <2>9, <2>10, Zenon
  <2>12. QED
    BY <2>5, <2>8, <2>11
<1>8. Body(p) \in Seq(Byte)
  BY <1>2, <1>6, <1>7
<1>9. Len(Body(p)) \in Nat
  BY <1>8
<1>10. p.type = Publish => p = [type |-> Publish, topic |-> p.topic, payload |-> p.payload]
  BY <1>1
<1>11. QED
  BY <1>1, <1>2, <1>5, <1>6, <1>7, <1>8, <1>9, <1>10

LEMMA BytesAfter ==
  ASSUME NEW b \in Byte, NEW s \in Seq(Byte)
  PROVE  /\ <<b>> \o s \in Seq(Byte) /\ Len(<<b>> \o s) = 1 + Len(s)
         /\ (<<b>> \o s)[1] = b /\ \A i \in 1..Len(s) : (<<b>> \o s)[1 + i] = s[i]
<1>1. <<b>> \in Seq(Byte) /\ Len(<<b>>) = 1 /\ <<b>>[1] = b /\ Len(s) \in Nat
  OBVIOUS
<1>2. /\ <<b>> \o s \in Seq(Byte) /\ Len(<<b>> \o s) = Len(<<b>>) + Len(s)
      /\ \A i \in 1..(Len(<<b>>) + Len(s)) :
           (<<b>> \o s)[i] = IF i <= Len(<<b>>) THEN <<b>>[i] ELSE s[i - Len(<<b>>)]
  BY <1>1, ConcatProperties
<1>3. 1 \in 1..(1 + Len(s)) /\ (<<b>> \o s)[1] = b
  BY <1>1, <1>2
<1>4. \A i \in 1..Len(s) : (<<b>> \o s)[1 + i] = s[i]
  OBVIOUS
<1>5. QED
  BY <1>1, <1>2, <1>3, <1>4

LEMMA Stretch ==
  ASSUME NEW raw \in Seq(Byte), NEW j \in Nat \ {0}, NEW k \in Nat, k <= Len(raw), j <= k + 1
  PROVE  /\ SubSeq(raw, j, k) \in Seq(Byte) /\ Len(SubSeq(raw, j, k)) = k - j + 1
         /\ \A i \in 1..(k - j + 1) : SubSeq(raw, j, k)[i] = raw[j + i - 1]
  OBVIOUS

\* Taking a body apart again.
Parts(h, l, t, u) == <<h>> \o (<<l>> \o (t \o u))

LEMMA TakenApart ==
  ASSUME NEW h \in Byte, NEW l \in Byte, NEW t \in Seq(Byte), NEW u \in Seq(Byte)
  PROVE  LET raw == Parts(h, l, t, u)
         IN  /\ raw[1] = h /\ raw[2] = l
             /\ SubSeq(raw, 3, 2 + Len(t)) = t
             /\ SubSeq(raw, 2 + Len(t) + 1, Len(raw)) = u
<1> DEFINE raw == Parts(h, l, t, u)
<1>1. t \o u \in Seq(Byte) /\ Len(t) \in Nat /\ Len(u) \in Nat /\ Len(t \o u) = Len(t) + Len(u)
  BY ConcatProperties, EmptySeq
<1>2. /\ \A i \in 1..Len(t) : (t \o u)[i] = t[i]
      /\ \A i \in 1..Len(u) : (t \o u)[Len(t) + i] = u[i]
  OBVIOUS
<1> DEFINE v == t \o u
           n == Len(t)
           m == Len(u)
<1>3. v \in Seq(Byte) /\ Len(v) = n + m /\ n \in Nat /\ m \in Nat
  BY <1>1
<1>4. (\A i \in 1..n : v[i] = t[i]) /\ (\A i \in 1..m : v[n + i] = u[i])
  BY <1>2
<1>5. raw = <<h>> \o (<<l>> \o v)
  BY DEF Parts
<1>6. /\ raw \in Seq(Byte) /\ Len(raw) = 2 + Len(v) /\ raw[1] = h /\ raw[2] = l
      /\ \A i \in 1..Len(v) : raw[2 + i] = v[i]
  <2> HIDE DEF v, raw
  <2>1. <<l>> \o v \in Seq(Byte) /\ Len(<<l>> \o v) = 1 + Len(v)
        /\ (<<l>> \o v)[1] = l /\ \A i \in 1..Len(v) : (<<l>> \o v)[1 + i] = v[i]
    BY <1>3, BytesAfter
  <2> DEFINE w == <<l>> \o v
  <2>2. w \in Seq(Byte) /\ Len(w) = 1 + Len(v) /\ w[1] = l /\ \A i \in 1..Len(v) : w[1 + i] = v[i]
    BY <2>1
  <2>3. raw = <<h>> \o w
    BY <1>5
  <2> HIDE DEF w
  <2>4. raw \in Seq(Byte) /\ Len(raw) = 1 + Len(w) /\ raw[1] = h
        /\ \A i \in 1..Len(w) : raw[1 + i] = w[i]
    BY <2>2, <2>3, BytesAfter
  <2>5. Len(v) \in Nat
    BY <1>3
  <2>6. raw[2] = l /\ \A i \in 1..Len(v) : raw[2 + i] = v[i]
    <3>1. \A i \in 1..Len(v) : 1 + i \in 1..Len(w) /\ 1 + (1 + i) = 2 + i
      BY <2>2, <2>5
    <3>2. 1 \in 1..Len(w) /\ 1 + 1 = 2
      BY <2>2, <2>5
    <3>3. QED
      BY <2>2, <2>4, <3>1, <3>2
  <2>7. QED
    BY <2>2, <2>4, <2>5, <2>6
<1> HIDE DEF v, n, m, raw
<1>7. SubSeq(raw, 3, 2 + n) = t
  <2> DEFINE s == SubSeq(raw, 3, 2 + n)
  <2>1. 2 + n <= Len(raw) /\ 3 <= (2 + n) + 1 /\ 2 + n \in Nat /\ (2 + n) - 3 + 1 = n
    BY <1>3, <1>6
  <2>2. s \in Seq(Byte) /\ Len(s) = n /\ \A i \in 1..n : s[i] = raw[2 + i]
    <3>1. /\ s \in Seq(Byte) /\ Len(s) = (2 + n) - 3 + 1
          /\ \A i \in 1..((2 + n) - 3 + 1) : s[i] = raw[3 + i - 1]
      BY <1>6, <2>1, Stretch
    <3>2. \A i \in 1..n : 3 + i - 1 = 2 + i
      OBVIOUS
    <3> HIDE DEF s
    <3>3. QED
      BY <2>1, <3>1, <3>2
  <2>3. Len(s) = n
    BY <2>2
  <2>4. \A i \in 1..n : s[i] = t[i]
    <3> SUFFICES ASSUME NEW i \in 1..n PROVE s[i] = t[i]
      OBVIOUS
    <3>1. s[i] = raw[2 + i]
      BY <2>2
    <3>2. i \in 1..Len(v)
      BY <1>3
    <3>3. raw[2 + i] = v[i] /\ v[i] = t[i]
      BY <1>4, <1>6, <3>2
    <3>4. QED
      BY <3>1, <3>3
  <2> HIDE DEF s
  <2>5. s = t
    BY <2>2, <2>3, <2>4, SeqEqual DEF n
  <2>6. QED
    BY <2>5 DEF s
<1>8. SubSeq(raw, 2 + n + 1, Len(raw)) = u
  <2> DEFINE j == 2 + n + 1
             k == Len(raw)
             s == SubSeq(raw, j, k)
  <2>1. /\ k \in Nat /\ j \in Nat \ {0} /\ j <= k + 1 /\ k <= Len(raw) /\ k - j + 1 = m
        /\ \A i \in 1..m : j + i - 1 = 2 + (n + i)
    BY <1>3, <1>6
  <2>2. s \in Seq(Byte) /\ Len(s) = m /\ \A i \in 1..m : s[i] = raw[2 + (n + i)]
    <3> HIDE DEF j, k
    <3>1. s \in Seq(Byte) /\ Len(s) = k - j + 1 /\ \A i \in 1..(k - j + 1) : s[i] = raw[j + i - 1]
      BY <1>6, <2>1, Stretch
    <3> HIDE DEF s
    <3>2. QED
      BY <2>1, <3>1
  <2>3. s \in Seq(Byte)
    BY <2>2
  <2>4. Len(s) = m
    BY <2>2
  <2>5. \A i \in 1..m : s[i] = u[i]
    <3> SUFFICES ASSUME NEW i \in 1..m PROVE s[i] = u[i]
      OBVIOUS
    <3>1. s[i] = raw[2 + (n + i)]
      BY <2>2
    <3>2. n + i \in 1..Len(v)
      BY <1>3
    <3>3. raw[2 + (n + i)] = v[n + i] /\ v[n + i] = u[i]
      BY <1>4, <1>6, <3>2
    <3>4. QED
      BY <3>1, <3>3
  <2> HIDE DEF s
  <2>6. s = u
    BY <2>3, <2>4, <2>5, SeqEqual DEF m
  <2>7. QED
    BY <2>6 DEF s
<1>9. QED
  BY <1>6, <1>7, <1>8 DEF n, raw

-----------------------------------------------------------------------------
(* In step with the packets.                                                *)

\* Where a reader stands that has read a packet p up to the bytes s: in the length, the
\* digits of a number m are still to come, which stands for what is missing.
Placed(r, s, p) ==
  /\ r.at = "first" => r = Idle /\ s = Encoded(p)
  /\ r.at # "first" => r.type = p.type
  /\ r.at = "length" =>
       /\ r.topic = <<>> /\ r.payload = <<>>
       /\ \E m \in Nat : /\ m < Word /\ s = Digits[m] \o Body(p)
                         /\ r.left + r.multiplier * m = Len(Body(p))
  /\ r.at \in {"hi", "lo", "topic", "payload"} => p.type = Publish
  /\ r.at = "hi" =>
       r.topic = <<>> /\ r.payload = <<>> /\ s = Body(p) /\ r.left = Len(Body(p))
  /\ r.at = "lo" =>
       /\ r.topic = <<>> /\ r.payload = <<>> /\ s = <<Low(p)>> \o (p.topic \o p.payload)
       /\ r.left = Len(Body(p)) /\ r.topicLeft = High(p) * 2 * Base
  /\ r.at = "topic" =>
       /\ r.payload = <<>> /\ r.left = Len(p.payload)
       /\ \E t \in Seq(Byte) :
            p.topic = r.topic \o t /\ s = t \o p.payload /\ r.topicLeft = Len(t)
  /\ r.at = "payload" => r.topic = p.topic /\ p.payload = r.payload \o s /\ r.left = Len(s)
  /\ r.at = "skip" => p.type # Publish /\ r.left = Len(s)
  /\ r.at = "body" => Body(p) = r.payload \o s /\ r.left = Len(s) /\ r.size = Len(Body(p))

\* A byte of p was read, and s is still to come.
InStepWith(x, s, p) ==
  /\ x.reader.at # "dead"
  /\ IF s = <<>> THEN x.reader = Idle ELSE Placed(x.reader, s, p)
  /\ x.message = IF s = <<>> /\ p.type = Publish THEN p ELSE Nothing

LEMMA IdleIs ==
  Idle.at = "first" /\ Idle.topic = <<>> /\ Idle.payload = <<>> /\ Idle.left = 0
    /\ Idle.multiplier = 1
  BY DEF Idle

\* Moving on to another place changes nothing else.
LEMMA MovedReader ==
  ASSUME NEW r \in Reader, NEW a \in {"hi", "topic", "payload", "skip", "body"}
  PROVE  LET d == [r EXCEPT !.at = a]
         IN  /\ d.at = a /\ d.type = r.type /\ d.left = r.left /\ d.topicLeft = r.topicLeft
             /\ d.size = r.size /\ d.topic = r.topic /\ d.payload = r.payload
  BY DEF Reader

LEMMA EmptyLength ==
  ASSUME NEW s \in Seq(Byte)
  PROVE  Len(s) \in Nat /\ (Len(s) = 0 <=> s = <<>>)
  OBVIOUS

LEMMA DevicePayloadInStep ==
  ASSUME ~doubt, NEW p \in Packets, NEW r \in Reader, NEW s \in Seq(Byte),
         p.type = Publish, r.type = p.type, r.topic = p.topic,
         p.payload = r.payload \o s, r.left = Len(s)
  PROVE  InStepWith(DevicePayload(r), s, p)
<1>1. r.payload \in Seq(Byte)
  BY DEF Reader
<1>2. CASE s = <<>>
  <2>1. r.left = 0 /\ p.payload = r.payload
    BY <1>1, <1>2, EmptyLength, ConcatEmptySeq
  <2>2. DevicePayload(r).reader = Idle /\ DevicePayload(r).message = Message(r.topic, r.payload)
    BY <2>1 DEF DevicePayload, Complete
  <2>3. Message(r.topic, r.payload) = p
    BY <2>1, BodyBytes DEF Message
  <2>4. QED
    BY <1>2, <2>2, <2>3, IdleIs DEF InStepWith
<1>3. CASE s # <<>>
  <2> DEFINE d == [r EXCEPT !.at = "payload"]
  <2>1. r.left # 0
    BY <1>3, EmptyLength
  <2>2. DevicePayload(r) = Reading(d)
    BY <2>1 DEF DevicePayload
  <2>3. DevicePayload(r).reader = d /\ DevicePayload(r).message = Nothing
    BY <2>2, ReadingIs, Zenon
  <2>4. /\ d.at = "payload" /\ d.type = r.type /\ d.left = r.left
        /\ d.topic = r.topic /\ d.payload = r.payload
    BY MovedReader
  <2> HIDE DEF d
  <2>5. Placed(d, s, p)
    BY <2>4 DEF Placed
  <2>6. QED
    BY <1>3, <2>3, <2>4, <2>5 DEF InStepWith
<1>4. QED
  BY <1>2, <1>3

LEMMA DeviceTopicInStep ==
  ASSUME ~doubt, NEW p \in Packets, NEW r \in Reader, NEW t \in Seq(Byte),
         p.type = Publish, r.type = p.type, r.payload = <<>>, r.left = Len(p.payload),
         p.topic = r.topic \o t, r.topicLeft = Len(t)
  PROVE  InStepWith(DeviceTopic(r), t \o p.payload, p)
<1>1. r.topic \in Seq(Byte) /\ p.payload \in Seq(Byte) /\ p.topic \in Seq(Byte)
  BY BodyBytes DEF Reader
<1>2. CASE t = <<>>
  <2>1. r.topicLeft = 0 /\ p.topic = r.topic /\ t \o p.payload = p.payload
        /\ p.payload = r.payload \o p.payload
    BY <1>1, <1>2, EmptyLength, ConcatEmptySeq
  <2>2. InStepWith(DevicePayload(r), p.payload, p)
    BY <1>1, <2>1, DevicePayloadInStep
  <2>3. DeviceTopic(r) = DevicePayload(r)
    BY <2>1 DEF DeviceTopic
  <2>4. QED
    BY <2>1, <2>2, <2>3, Zenon
<1>3. CASE t # <<>>
  <2> DEFINE d == [r EXCEPT !.at = "topic"]
  <2>1. r.topicLeft # 0
    BY <1>3, EmptyLength
  <2>2. DeviceTopic(r) = Reading(d)
    BY <2>1 DEF DeviceTopic
  <2>3. DeviceTopic(r).reader = d /\ DeviceTopic(r).message = Nothing
    BY <2>2, ReadingIs, Zenon
  <2>4. /\ d.at = "topic" /\ d.type = r.type /\ d.left = r.left /\ d.topicLeft = r.topicLeft
        /\ d.topic = r.topic /\ d.payload = r.payload
    BY MovedReader
  <2> HIDE DEF d
  <2>5. t \o p.payload # <<>>
    BY <1>1, <1>3, ConcatEqualIffEmpty
  <2>6. Placed(d, t \o p.payload, p)
    BY <2>4 DEF Placed
  <2>7. QED
    BY <2>3, <2>4, <2>5, <2>6 DEF InStepWith
<1>4. QED
  BY <1>2, <1>3

LEMMA DeviceBodyInStep ==
  ASSUME ~doubt, NEW p \in Packets, NEW r \in Reader, r.type = p.type,
         r.topic = <<>>, r.payload = <<>>, r.left = Len(Body(p))
  PROVE  InStepWith(DeviceBody(r), Body(p), p)
<1>1. Body(p) \in Seq(Byte)
  BY BodyBytes
<1>2. CASE p.type = Publish
  <2> DEFINE d == [r EXCEPT !.at = "hi"]
  <2>1. DeviceBody(r) = Reading(d)
    BY <1>2 DEF DeviceBody
  <2>2. DeviceBody(r).reader = d /\ DeviceBody(r).message = Nothing
    BY <2>1, ReadingIs, Zenon
  <2>3. /\ d.at = "hi" /\ d.type = r.type /\ d.left = r.left
        /\ d.topic = r.topic /\ d.payload = r.payload
    BY MovedReader
  <2> HIDE DEF d
  <2>4. Body(p) # <<>>
    <3>1. Len(Body(p)) = 2 + Len(p.topic) + Len(p.payload) /\ Len(p.topic) \in Nat
          /\ Len(p.payload) \in Nat
      BY <1>2, BodyBytes, EmptyLength
    <3>2. Len(Body(p)) # 0
      <4>1. \A i, j \in Nat : 2 + i + j # 0
        OBVIOUS
      <4>2. QED
        BY <3>1, <4>1, Zenon
    <3>3. QED
      BY <1>1, <3>2, EmptyLength
  <2>5. Placed(d, Body(p), p)
    BY <1>2, <2>3 DEF Placed
  <2>6. QED
    BY <2>2, <2>3, <2>4, <2>5 DEF InStepWith
<1>3. CASE p.type # Publish /\ Body(p) = <<>>
  <2>1. r.left = 0
    BY <1>1, <1>3, EmptyLength
  <2>2. DeviceBody(r) = Reading(Idle)
    BY <1>3, <2>1 DEF DeviceBody
  <2>3. DeviceBody(r).reader = Idle /\ DeviceBody(r).message = Nothing
    BY <2>2, ReadingIs, Zenon
  <2>4. QED
    BY <1>3, <2>3, IdleIs DEF InStepWith
<1>4. CASE p.type # Publish /\ Body(p) # <<>>
  <2> DEFINE d == [r EXCEPT !.at = "skip"]
  <2>1. r.left # 0
    BY <1>1, <1>4, EmptyLength
  <2>2. DeviceBody(r) = Reading(d)
    BY <1>4, <2>1 DEF DeviceBody
  <2>3. DeviceBody(r).reader = d /\ DeviceBody(r).message = Nothing
    BY <2>2, ReadingIs, Zenon
  <2>4. d.at = "skip" /\ d.type = r.type /\ d.left = r.left
    BY MovedReader
  <2> HIDE DEF d
  <2>5. Placed(d, Body(p), p)
    BY <1>4, <2>4 DEF Placed
  <2>6. QED
    BY <1>4, <2>3, <2>4, <2>5 DEF InStepWith
<1>5. QED
  BY <1>2, <1>3, <1>4

LEMMA WebuiBodyInStep ==
  ASSUME ~doubt, NEW p \in Packets, NEW r \in Reader, NEW s \in Seq(Byte), r.type = p.type,
         Body(p) = r.payload \o s, r.left = Len(s), r.size = Len(Body(p))
  PROVE  InStepWith(WebuiBody(r), s, p)
<1>1. r.payload \in Seq(Byte)
  BY DEF Reader
<1>2. CASE s = <<>> /\ p.type # Publish
  <2>1. r.left = 0
    BY <1>2, EmptyLength
  <2>2. WebuiBody(r) = Reading(Idle)
    BY <1>2, <2>1 DEF WebuiBody, Parsed
  <2>3. WebuiBody(r).reader = Idle /\ WebuiBody(r).message = Nothing
    BY <2>2, ReadingIs, Zenon
  <2>4. QED
    BY <1>2, <2>3, IdleIs DEF InStepWith
<1>3. CASE s = <<>> /\ p.type = Publish
  <2>1. r.left = 0 /\ r.payload = Body(p)
    BY <1>1, <1>3, EmptyLength, ConcatEmptySeq
  <2> DEFINE raw == r.payload
             topicEnd == 2 + raw[1] * 2 * Base + raw[2]
  <2>2. /\ p.topic \in Seq(Byte) /\ p.payload \in Seq(Byte)
        /\ raw = <<High(p)>> \o (<<Low(p)>> \o (p.topic \o p.payload))
        /\ Len(Body(p)) = 2 + Len(p.topic) + Len(p.payload)
    BY <1>3, <2>1, BodyBytes
  <2>3. High(p) \in Byte /\ Low(p) \in Byte /\ High(p) * 2 * Base + Low(p) = Len(p.topic)
    BY TopicLength
  <2>4. PICK h \in Byte, l \in Byte, t \in Seq(Byte), u \in Seq(Byte) :
          h = High(p) /\ l = Low(p) /\ t = p.topic /\ u = p.payload
    BY <2>2, <2>3
  <2>5. SubSeq(raw, 3, topicEnd) = t /\ SubSeq(raw, topicEnd + 1, Len(raw)) = u
    <3>1. raw = Parts(h, l, t, u)
      BY <2>2, <2>4, Zenon DEF Parts
    <3>2. /\ raw[1] = h /\ raw[2] = l
          /\ SubSeq(raw, 3, 2 + Len(t)) = t /\ SubSeq(raw, 2 + Len(t) + 1, Len(raw)) = u
      <4> DEFINE w == Parts(h, l, t, u)
      <4>1. w[1] = h /\ w[2] = l
        BY TakenApart
      <4>2. SubSeq(w, 3, 2 + Len(t)) = t
        BY TakenApart
      <4>3. SubSeq(w, 2 + Len(t) + 1, Len(w)) = u
        BY TakenApart
      <4> HIDE DEF raw, w
      <4>4. raw = w
        BY <3>1 DEF w
      <4>5. QED
        BY <4>1, <4>2, <4>3, <4>4, Zenon
    <3>3. h * 2 * Base + l = Len(t)
      BY <2>3, <2>4, Zenon
    <3>4. \A a, b \in Nat : 2 + a * 2 * Base + b = 2 + (a * 2 * Base + b)
      BY Sizes
    <3>5. h \in Nat /\ l \in Nat
      BY Sizes DEF Byte
    <3>6. 2 + h * 2 * Base + l = 2 + Len(t)
      BY <3>3, <3>4, <3>5, Zenon
    <3>7. topicEnd = 2 + Len(t)
      BY <3>2, <3>6, Zenon
    <3> HIDE DEF topicEnd
    <3>8. QED
      BY <3>2, <3>7, Zenon
  <2>6. ~Unreadable(r.size)
    <3>1. Len(p.topic) \in Nat /\ Len(p.payload) \in Nat
      BY <2>2, EmptyLength
    <3>2. \A i, j \in Nat : ~(2 + i + j < 2)
      OBVIOUS
    <3>3. ~(Len(Body(p)) < 2)
      BY <2>2, <3>1, <3>2, Zenon
    <3>4. QED
      BY <3>3 DEF Unreadable
  <2>7. WebuiBody(r) = Parsed(r)
    BY <2>1 DEF WebuiBody
  <2>8. Parsed(r) = Complete(SubSeq(raw, 3, topicEnd), SubSeq(raw, topicEnd + 1, Len(raw)))
    BY <1>3, <2>6, Zenon DEF Parsed
  <2>9. Parsed(r) = Complete(p.topic, p.payload)
    BY <2>4, <2>5, <2>8, Zenon
  <2>10. Complete(p.topic, p.payload).reader = Idle
         /\ Complete(p.topic, p.payload).message = Message(p.topic, p.payload)
    BY DEF Complete
  <2>11. Message(p.topic, p.payload) = p
    BY <1>3, BodyBytes DEF Message
  <2>12. WebuiBody(r).reader = Idle /\ WebuiBody(r).message = p
    BY <2>7, <2>9, <2>10, <2>11, Zenon
  <2>13. QED
    BY <1>3, <2>12, IdleIs DEF InStepWith
<1>4. CASE s # <<>>
  <2> DEFINE d == [r EXCEPT !.at = "body"]
  <2>1. r.left # 0
    BY <1>4, EmptyLength
  <2>2. WebuiBody(r) = Reading(d)
    BY <2>1 DEF WebuiBody
  <2>3. WebuiBody(r).reader = d /\ WebuiBody(r).message = Nothing
    BY <2>2, ReadingIs, Zenon
  <2>4. /\ d.at = "body" /\ d.type = r.type /\ d.left = r.left /\ d.size = r.size
        /\ d.payload = r.payload
    BY MovedReader
  <2> HIDE DEF d
  <2>5. Placed(d, s, p)
    BY <2>4 DEF Placed
  <2>6. QED
    BY <1>4, <2>3, <2>4, <2>5 DEF InStepWith
<1>5. QED
  BY <1>2, <1>3, <1>4

LEMMA Remainders ==
  /\ \A m \in Nat : m < Base => m % Base = m
  /\ \A z \in 0..(Base - 1) : (z + Base) % Base = z
  BY Sizes

\* The digits of m times the multiplier are what is missing of p's length.
Missing(r, m, s, p) ==
  m < Word /\ s = Digits[m] \o Body(p) /\ r.left + r.multiplier * m = Len(Body(p))

\* The digits of a length: each one takes its share of what is missing.
LEMMA DigitInStep ==
  ASSUME NEW p \in Packets, NEW r \in Reader, NEW m \in Nat, NEW b \in Byte, NEW s,
         Missing(r, m, s, p), b = Head(s)
  PROVE  /\ s # <<>>
         /\ ~More(b) => Tail(s) = Body(p) /\ WithDigit(r, b).left = Len(Body(p))
         /\ More(b) =>
              \E k \in Nat : Missing(WithDigit(r, b), k, Tail(s), p) /\ Digits[k] # <<>>
<1>0. m < Word /\ s = Digits[m] \o Body(p) /\ r.left + r.multiplier * m = Len(Body(p))
  BY DEF Missing
<1> DEFINE n == Len(Body(p))
           x == r.left
           y == r.multiplier
<1>1. /\ Base \in Nat /\ Base > 1 /\ Body(p) \in Seq(Byte) /\ n \in Nat /\ n < Word /\ Word \in Nat
      /\ x \in Nat /\ y \in Nat
  <2>1. x \in Nat /\ y \in Nat
    BY Sizes DEF Reader
  <2>2. QED
    BY <2>1, Sizes, BodyBytes
<1>2. x + y * m = n
  BY <1>0
<1>3. WithDigit(r, b).left = Sum(x, (b % Base) * y) /\ WithDigit(r, b).multiplier = Sum(0, y * Base)
  BY DigitReader
<1> HIDE DEF n, x, y
<1>4. CASE m < Base
  <2>1. Digits[m] = <<m>> /\ m \in Byte
    <3>1. Digits[m] = <<m>>
      BY <1>0, <1>4, DigitsDef, Zenon
    <3>2. m \in Byte
      BY <1>1, <1>4 DEF Byte
    <3>3. QED
      BY <3>1, <3>2
  <2>2. s # <<>> /\ Head(s) = m /\ Tail(s) = Body(p)
    BY <1>0, <1>1, <2>1, FirstOff
  <2>3. b = m /\ ~More(b)
    BY <1>1, <1>4, <2>2 DEF More
  <2>4. m % Base = m
    BY <1>4, Remainders
  <2>5. m * y \in Nat /\ x + m * y = n
    BY <1>1, <1>2
  <2>6. Sum(x, m * y) = n
    BY <1>1, <2>5, SumType
  <2>7. WithDigit(r, b).left = n
    BY <1>3, <2>3, <2>4, <2>6
  <2>8. QED
    BY <2>2, <2>3, <2>7 DEF n
<1>5. CASE m >= Base
  <2> DEFINE q == m \div Base
             z == m % Base
  <2>1. /\ q \in Nat /\ z \in 0..(Base - 1) /\ m = Base * q + z /\ q < m /\ q > 0
    BY <1>5, Division
  <2>2. Digits[m] = <<z + Base>> \o Digits[q]
    <3>1. ~(m < Base)
      BY <1>1, <1>5
    <3>2. QED
      BY <1>0, <3>1, DigitsDef, Zenon
  <2> HIDE DEF q, z
  <2>3. q < Word
    BY <1>0, <1>1, <2>1
  <2>4. Digits[q] \in Seq(Byte)
    BY <2>1, <2>3, DigitsType
  <2>5. z + Base \in Byte
    BY <1>1, <2>1 DEF Byte
  <2>6. <<z + Base>> \in Seq(Byte) /\ Digits[q] \o Body(p) \in Seq(Byte)
    BY <1>1, <2>4, <2>5, ConcatProperties
  <2>7. s = <<z + Base>> \o (Digits[q] \o Body(p))
    <3>1. \A t, u, v \in Seq(Byte) : (t \o u) \o v = t \o (u \o v)
      BY ConcatAssociative
    <3>2. (<<z + Base>> \o Digits[q]) \o Body(p) = <<z + Base>> \o (Digits[q] \o Body(p))
      BY <1>1, <2>4, <2>6, <3>1, Zenon
    <3>3. QED
      BY <1>0, <2>2, <3>2, Zenon
  <2>8. s # <<>> /\ b = z + Base /\ Tail(s) = Digits[q] \o Body(p)
    BY <2>5, <2>6, <2>7, FirstOff
  <2>9. More(b) /\ b % Base = z
    <3>1. z + Base >= Base
      BY <1>1, <2>1
    <3>2. (z + Base) % Base = z
      BY <2>1, Remainders
    <3>3. QED
      BY <2>8, <3>1, <3>2, Zenon DEF More
  <2>10. /\ z * y \in Nat /\ y * Base \in Nat /\ (y * Base) * q \in Nat
         /\ (x + z * y) + (y * Base) * q = n
    <3>1. x \in Nat /\ y \in Nat /\ Base \in Nat /\ z \in Nat /\ q \in Nat
      BY <1>1, <2>1
    <3>2. \A f, h \in Nat : h * f \in Nat
      OBVIOUS
    <3>3. z * y \in Nat /\ y * Base \in Nat /\ (y * Base) * q \in Nat
      BY <3>1, <3>2, Zenon
    <3>4. (x + z * y) + (y * Base) * q = x + y * (Base * q + z)
      BY <3>1
    <3>5. x + y * (Base * q + z) = n
      BY <1>2, <2>1, Zenon
    <3>6. QED
      BY <3>3, <3>4, <3>5, Zenon
  <2>11. x + z * y < Word /\ 0 + y * Base < Word
    <3>1. \A c \in Nat : q > 0 => c * q >= c
      BY <2>1
    <3>2. (y * Base) * q >= y * Base
      BY <2>1, <2>10, <3>1
    <3>3. QED
      BY <1>1, <2>10, <3>2
  <2>12. Sum(x, z * y) = x + z * y /\ Sum(0, y * Base) = 0 + y * Base /\ 0 + y * Base = y * Base
    BY <1>1, <2>10, <2>11, SumType
  <2>13. WithDigit(r, b).left + WithDigit(r, b).multiplier * q = n
    BY <1>3, <2>9, <2>10, <2>12, Zenon
  <2>14. Digits[q] # <<>>
    BY <2>1, <2>3, DigitsSome
  <2>15. QED
    BY <2>1, <2>3, <2>8, <2>9, <2>13, <2>14, Zenon DEF n, Missing
<1>6. m < Base \/ m >= Base
  BY <1>1
<1>7. QED
  BY <1>4, <1>5, <1>6, Zenon

LEMMA FirstInStep ==
  ASSUME NEW p \in Packets, NEW s, s = Encoded(p)
  PROVE  /\ s \in Seq(Byte) /\ s # <<>>
         /\ InStepWith(Step(Idle, Head(s)), Tail(s), p)
<1> DEFINE n == Len(Body(p))
           t == Digits[n] \o Body(p)
           d == [Idle EXCEPT !.at = "length", !.type = p.type]
<1>1. p.type \in Byte /\ Body(p) \in Seq(Byte) /\ n \in Nat /\ n < Word
  BY BodyBytes
<1>2. Digits[n] \in Seq(Byte) /\ Digits[n] # <<>>
  BY <1>1, DigitsType, DigitsSome
<1>3. t \in Seq(Byte) /\ t # <<>>
  BY <1>1, <1>2, ConcatProperties, ConcatEqualIffEmpty
<1>4. s = <<p.type>> \o t
  <2>1. <<p.type>> \in Seq(Byte)
    BY <1>1
  <2>2. \A u, v, w \in Seq(Byte) : (u \o v) \o w = u \o (v \o w)
    BY ConcatAssociative
  <2>3. (<<p.type>> \o Digits[n]) \o Body(p) = <<p.type>> \o t
    BY <1>1, <1>2, <2>1, <2>2, Zenon
  <2>4. s = (<<p.type>> \o Digits[n]) \o Body(p)
    BY Zenon DEF Encoded
  <2>5. QED
    BY <2>3, <2>4, Zenon
<1>5. s \in Seq(Byte) /\ s # <<>> /\ Head(s) = p.type /\ Tail(s) = t
  <2> HIDE DEF t
  <2>1. QED
    BY <1>1, <1>3, <1>4, FirstOff
<1>6. Step(Idle, p.type) = Reading(d)
  BY IdleIs, StepAt
<1>7. Step(Idle, p.type).reader = d /\ Step(Idle, p.type).message = Nothing
  BY <1>6, ReadingIs, Zenon
<1>8. /\ d.at = "length" /\ d.type = p.type /\ d.topic = <<>> /\ d.payload = <<>>
      /\ d.left = 0 /\ d.multiplier = 1
  BY DEF Idle
<1>9. d.left + d.multiplier * n = n
  <2>1. \A k \in Nat : 0 + 1 * k = k
    OBVIOUS
  <2>2. QED
    BY <1>1, <1>8, <2>1, Zenon
<1> HIDE DEF d, n, t
<1>10. Placed(d, t, p)
  BY <1>1, <1>8, <1>9 DEF Placed, n, t
<1>11. InStepWith(Step(Idle, p.type), t, p)
  BY <1>3, <1>7, <1>8, <1>10 DEF InStepWith
<1>12. QED
  BY <1>5, <1>11, Zenon

LEMMA NextByte ==
  ASSUME NEW s \in Seq(Byte), s # <<>>
  PROVE  /\ Head(s) \in Byte /\ Tail(s) \in Seq(Byte) /\ Len(Tail(s)) = Len(s) - 1
         /\ s = <<Head(s)>> \o Tail(s)
  BY FirstOfTwo

LEMMA LengthInStep ==
  ASSUME ~doubt, NEW p \in Packets, NEW r, Waiting(r), r.at = "length",
         NEW s \in Seq(Byte), s # <<>>, Placed(r, s, p)
  PROVE  InStepWith(Step(r, Head(s)), Tail(s), p)
<1> DEFINE b == Head(s)
           d == WithDigit(r, b)
<1>1. r \in Reader /\ b \in Byte /\ Body(p) \in Seq(Byte)
  <2>1. r \in Reader
    BY DEF Waiting
  <2>2. b \in Byte
    BY NextByte
  <2>3. QED
    BY <2>1, <2>2, BodyBytes
<1>2. /\ r.type = p.type /\ r.topic = <<>> /\ r.payload = <<>>
      /\ \E m \in Nat : /\ m < Word /\ s = Digits[m] \o Body(p)
                        /\ r.left + r.multiplier * m = Len(Body(p))
  BY DEF Placed
<1>3. /\ d \in Reader /\ d.at = "length" /\ d.type = p.type
      /\ d.topic = <<>> /\ d.payload = <<>>
  BY <1>1, <1>2, DigitReader
<1>4. /\ ~More(b) => Tail(s) = Body(p) /\ d.left = Len(Body(p))
      /\ More(b) => \E k \in Nat : Missing(d, k, Tail(s), p) /\ Digits[k] # <<>>
  <2>1. PICK m \in Nat : Missing(r, m, s, p)
    BY <1>2 DEF Missing
  <2>2. b = Head(s) /\ d = WithDigit(r, b)
    OBVIOUS
  <2> HIDE DEF b, d
  <2>3. ~More(b) => Tail(s) = Body(p) /\ WithDigit(r, b).left = Len(Body(p))
    BY <1>1, <2>1, <2>2, DigitInStep
  <2>4. More(b) =>
          \E k \in Nat : Missing(WithDigit(r, b), k, Tail(s), p) /\ Digits[k] # <<>>
    BY <1>1, <2>1, <2>2, DigitInStep
  <2>5. QED
    BY <2>2, <2>3, <2>4, Zenon
<1>5. CASE More(b)
  <2>1. Step(r, b) = Reading(d)
    BY <1>5, StepAt
  <2>2. Step(r, b).reader = d /\ Step(r, b).message = Nothing
    BY <2>1, ReadingIs, Zenon
  <2>3. PICK k \in Nat : /\ k < Word /\ Tail(s) = Digits[k] \o Body(p) /\ Digits[k] # <<>>
                         /\ d.left + d.multiplier * k = Len(Body(p))
    BY <1>4, <1>5 DEF Missing
  <2>4. Tail(s) # <<>>
    <3>1. Digits[k] \in Seq(Byte)
      BY <2>3, DigitsType
    <3>2. Digits[k] \o Body(p) # <<>>
      BY <1>1, <2>3, <3>1, ConcatEqualIffEmpty
    <3>3. QED
      BY <2>3, <3>2, Zenon
  <2> HIDE DEF d, b
  <2>5. Placed(d, Tail(s), p)
    BY <1>3, <2>3 DEF Placed
  <2>6. InStepWith(Step(r, b), Tail(s), p)
    BY <1>3, <2>2, <2>4, <2>5 DEF InStepWith
  <2>7. QED
    BY <2>6 DEF b
<1>6. CASE ~More(b) /\ end = "device"
  <2>1. Step(r, b) = DeviceBody(d)
    BY <1>6, StepAt
  <2>2. Tail(s) = Body(p) /\ d.left = Len(Body(p))
    BY <1>4, <1>6
  <2> HIDE DEF d, b
  <2>3. InStepWith(DeviceBody(d), Body(p), p)
    BY <1>3, <2>2, DeviceBodyInStep
  <2>4. QED
    BY <2>1, <2>2, <2>3, Zenon DEF b
<1>7. CASE ~More(b) /\ end # "device"
  <2> DEFINE e == [d EXCEPT !.size = d.left]
  <2>1. Step(r, b) = WebuiBody(e)
    BY <1>7, StepAt
  <2>2. Tail(s) = Body(p) /\ d.left = Len(Body(p))
    BY <1>4, <1>7
  <2> HIDE DEF d, b
  <2>3. /\ e \in Reader /\ e.type = p.type /\ e.left = Len(Body(p)) /\ e.size = Len(Body(p))
        /\ e.payload = <<>>
    BY <1>3, <2>2, SizedReader
  <2>4. Body(p) = <<>> \o Body(p)
    BY <1>1, ConcatEmptySeq
  <2> HIDE DEF e
  <2>5. InStepWith(WebuiBody(e), Body(p), p)
    BY <1>1, <2>3, <2>4, WebuiBodyInStep
  <2>6. QED
    BY <2>1, <2>2, <2>5, Zenon DEF b
<1>8. QED
  BY <1>5, <1>6, <1>7

LEMMA HighInStep ==
  ASSUME NEW p \in Packets, NEW r, Waiting(r), r.at = "hi",
         NEW s \in Seq(Byte), s # <<>>, Placed(r, s, p)
  PROVE  InStepWith(Step(r, Head(s)), Tail(s), p)
<1> DEFINE t == <<Low(p)>> \o (p.topic \o p.payload)
           d == [r EXCEPT !.at = "lo", !.topicLeft = High(p) * 2 * Base]
<1>1. /\ r \in Reader /\ r.type = p.type /\ p.type = Publish /\ r.topic = <<>> /\ r.payload = <<>>
      /\ s = Body(p) /\ r.left = Len(Body(p))
  BY DEF Placed, Waiting
<1>2. High(p) \in Byte /\ Low(p) \in Byte /\ p.topic \o p.payload \in Seq(Byte)
  BY BodyBytes, TopicLength
<1>3. t \in Seq(Byte) /\ t # <<>>
  BY <1>2, FirstOff
<1>4. s = <<High(p)>> \o t
  BY <1>1, BodyBytes
<1> HIDE DEF t
<1>5. Head(s) = High(p) /\ Tail(s) = t
  BY <1>2, <1>3, <1>4, FirstOff
<1>6. Step(r, High(p)) = Reading(d)
  BY StepAt
<1>7. Step(r, High(p)).reader = d /\ Step(r, High(p)).message = Nothing
  BY <1>6, ReadingIs, Zenon
<1>8. /\ d.at = "lo" /\ d.type = r.type /\ d.left = r.left /\ d.topicLeft = High(p) * 2 * Base
      /\ d.topic = r.topic /\ d.payload = r.payload
  BY <1>1 DEF Reader
<1> HIDE DEF d
<1>9. Placed(d, t, p)
  BY <1>1, <1>8 DEF Placed, t
<1>10. InStepWith(Step(r, High(p)), t, p)
  BY <1>3, <1>7, <1>8, <1>9 DEF InStepWith
<1>11. QED
  BY <1>5, <1>10, Zenon

LEMMA LowInStep ==
  ASSUME ~doubt, NEW p \in Packets, NEW r, Waiting(r), r.at = "lo",
         NEW s \in Seq(Byte), s # <<>>, Placed(r, s, p)
  PROVE  InStepWith(Step(r, Head(s)), Tail(s), p)
<1> DEFINE n == Len(p.topic)
           d == [r EXCEPT !.topicLeft = r.topicLeft + Low(p),
                          !.left = Less(@, 2 + (r.topicLeft + Low(p)))]
<1>1. /\ r \in Reader /\ r.type = p.type /\ p.type = Publish /\ r.topic = <<>> /\ r.payload = <<>>
      /\ s = <<Low(p)>> \o (p.topic \o p.payload) /\ r.left = Len(Body(p))
      /\ r.topicLeft = High(p) * 2 * Base
  BY DEF Placed, Waiting
<1>2. /\ Low(p) \in Byte /\ p.topic \in Seq(Byte) /\ p.payload \in Seq(Byte)
      /\ p.topic \o p.payload \in Seq(Byte) /\ n \in Nat /\ Len(p.payload) \in Nat
  BY BodyBytes, TopicLength, EmptyLength
<1>3. Head(s) = Low(p) /\ Tail(s) = p.topic \o p.payload
  BY <1>1, <1>2, FirstOff
<1>4. r.topicLeft + Low(p) = n
  BY <1>1, TopicLength, Zenon
<1>5. /\ Len(Body(p)) = 2 + n + Len(p.payload) /\ Len(Body(p)) < Word /\ Len(Body(p)) \in Nat
      /\ Word \in Nat
  BY <1>1, BodyBytes, Sizes
<1>6. /\ d \in Reader /\ d.left = Less(r.left, 2 + (r.topicLeft + Low(p)))
      /\ d.topicLeft = r.topicLeft + Low(p)
      /\ d.type = r.type /\ d.topic = r.topic /\ d.payload = r.payload
  BY <1>2, LengthReader
<1> HIDE DEF d, n
<1>7. d.left = Less(Len(Body(p)), 2 + n) /\ d.topicLeft = n
  BY <1>1, <1>4, <1>6, Zenon
<1>8. Less(Len(Body(p)), 2 + n) = Len(p.payload)
  <2>1. PICK x \in Nat : x = Len(Body(p))
    BY <1>5
  <2>2. PICK y \in Nat : y = Len(p.payload)
    BY <1>2
  <2>3. x - (2 + n) = y /\ y \in 0..(Word - 1)
    <3>1. x = 2 + n + y /\ x < Word
      BY <1>5, <2>1, <2>2, Zenon
    <3>2. Word \in Nat
      BY <1>5
    <3>3. n \in Nat
      BY <1>2
    <3>4. QED
      BY <3>1, <3>2, <3>3
  <2>4. Less(x, 2 + n) = y
    BY <1>2, <2>3, LessType
  <2>5. QED
    BY <2>1, <2>2, <2>4, Zenon
<1>9. p.topic = <<>> \o p.topic
  BY <1>2, ConcatEmptySeq
<1>10. InStepWith(DeviceTopic(d), p.topic \o p.payload, p)
  BY <1>1, <1>2, <1>6, <1>7, <1>8, <1>9, DeviceTopicInStep DEF n
<1>11. Step(r, Low(p)) = DeviceTopic(d)
  BY StepAt DEF d
<1>12. QED
  BY <1>3, <1>10, <1>11, Zenon

LEMMA TopicInStep ==
  ASSUME ~doubt, NEW p \in Packets, NEW r, Waiting(r), r.at = "topic",
         NEW s \in Seq(Byte), s # <<>>, Placed(r, s, p)
  PROVE  InStepWith(Step(r, Head(s)), Tail(s), p)
<1>1. /\ r \in Reader /\ r.type = p.type /\ p.type = Publish /\ r.payload = <<>>
      /\ r.left = Len(p.payload) /\ r.topicLeft > 0 /\ r.topic \in Seq(Byte)
  BY DEF Placed, Waiting, Expecting, Reader
<1>2. PICK t \in Seq(Byte) : p.topic = r.topic \o t /\ s = t \o p.payload /\ r.topicLeft = Len(t)
  BY DEF Placed
<1>3. p.payload \in Seq(Byte)
  BY BodyBytes
<1>4. t # <<>>
  BY <1>1, <1>2, EmptyLength
<1> DEFINE b == Head(t)
           d == [r EXCEPT !.topicLeft = @ - 1, !.topic = Kept(@, b)]
<1>5. /\ b \in Byte /\ Tail(t) \in Seq(Byte) /\ Len(Tail(t)) = Len(t) - 1
      /\ Head(s) = b /\ Tail(s) = Tail(t) \o p.payload
  BY <1>2, <1>3, <1>4, FirstOfTwo
<1>6. /\ d \in Reader /\ d.topicLeft = r.topicLeft - 1 /\ d.topic = Kept(r.topic, b)
      /\ d.type = r.type /\ d.left = r.left /\ d.payload = r.payload
  BY <1>5, TopicReader
<1>7. p.topic = Kept(r.topic, b) \o Tail(t)
  <2>1. Kept(r.topic, b) = Append(r.topic, b)
    BY DEF Kept
  <2>2. Append(r.topic, b) \o Tail(t) = r.topic \o t
    BY <1>1, <1>4, OneMoreRead
  <2>3. QED
    BY <1>2, <2>1, <2>2, Zenon
<1>8. Step(r, b) = DeviceTopic(d)
  BY StepAt
<1> HIDE DEF d, b
<1>9. d.topicLeft = Len(Tail(t)) /\ p.topic = d.topic \o Tail(t)
  BY <1>2, <1>5, <1>6, <1>7, Zenon
<1>10. InStepWith(DeviceTopic(d), Tail(t) \o p.payload, p)
  BY <1>1, <1>5, <1>6, <1>9, DeviceTopicInStep
<1>11. QED
  BY <1>5, <1>8, <1>10, Zenon

LEMMA PayloadInStep ==
  ASSUME ~doubt, NEW p \in Packets, NEW r, Waiting(r), r.at \in {"payload", "body"},
         NEW s \in Seq(Byte), s # <<>>, Placed(r, s, p)
  PROVE  InStepWith(Step(r, Head(s)), Tail(s), p)
<1> DEFINE b == Head(s)
           d == [r EXCEPT !.left = @ - 1, !.payload = Kept(@, b)]
<1>1. r \in Reader /\ r.type = p.type /\ r.left = Len(s) /\ r.payload \in Seq(Byte)
  BY DEF Placed, Waiting, Reader
<1>2. b \in Byte /\ Tail(s) \in Seq(Byte) /\ Len(Tail(s)) = Len(s) - 1
  BY NextByte
<1>3. /\ d \in Reader /\ d.left = r.left - 1 /\ d.payload = Kept(r.payload, b)
      /\ d.at = r.at /\ d.type = r.type /\ d.topic = r.topic /\ d.size = r.size
  BY <1>2, PayloadReader
<1>4. Kept(r.payload, b) \o Tail(s) = r.payload \o s
  <2>1. Kept(r.payload, b) = Append(r.payload, b)
    BY DEF Kept
  <2>2. QED
    BY <1>1, <2>1, OneMoreRead
<1>5. /\ r.at = "payload" => Step(r, b) = DevicePayload(d)
      /\ r.at = "body" => Step(r, b) = WebuiBody(d)
  BY StepAt
<1>6. b = Head(s)
  OBVIOUS
<1> HIDE DEF d, b
<1>7. d.left = Len(Tail(s)) /\ d.payload \o Tail(s) = r.payload \o s
  BY <1>1, <1>2, <1>3, <1>4, Zenon
<1>8. CASE r.at = "payload"
  <2>1. p.type = Publish /\ r.topic = p.topic /\ p.payload = r.payload \o s
    BY <1>8 DEF Placed
  <2>2. r.type = p.type /\ d.topic = p.topic /\ p.payload = d.payload \o Tail(s)
    BY <1>1, <1>3, <1>7, <2>1, Zenon
  <2>3. InStepWith(DevicePayload(d), Tail(s), p)
    BY <1>1, <1>2, <1>3, <1>7, <2>1, <2>2, DevicePayloadInStep
  <2>4. QED
    BY <1>5, <1>6, <1>8, <2>3, Zenon
<1>9. CASE r.at = "body"
  <2>1. Body(p) = r.payload \o s /\ r.size = Len(Body(p))
    BY <1>9 DEF Placed
  <2>2. d.type = p.type /\ Body(p) = d.payload \o Tail(s) /\ d.size = Len(Body(p))
    BY <1>1, <1>3, <1>7, <2>1, Zenon
  <2>3. InStepWith(WebuiBody(d), Tail(s), p)
    BY <1>2, <1>3, <1>7, <2>2, WebuiBodyInStep
  <2>4. QED
    BY <1>5, <1>6, <1>9, <2>3, Zenon
<1>10. QED
  BY <1>8, <1>9

LEMMA SkipInStep ==
  ASSUME NEW p \in Packets, NEW r, Waiting(r), r.at = "skip",
         NEW s \in Seq(Byte), s # <<>>, Placed(r, s, p)
  PROVE  InStepWith(Step(r, Head(s)), Tail(s), p)
<1> DEFINE b == Head(s)
<1>1. r \in Reader /\ r.type = p.type /\ p.type # Publish /\ r.left = Len(s)
  BY DEF Placed, Waiting
<1>2. Tail(s) \in Seq(Byte) /\ Len(Tail(s)) = Len(s) - 1 /\ Len(s) \in Nat
  BY NextByte, EmptyLength
<1>3. CASE r.left = 1
  <2>1. Step(r, b) = Reading(Idle)
    BY <1>3, StepAt
  <2>2. Step(r, b).reader = Idle /\ Step(r, b).message = Nothing
    BY <2>1, ReadingIs, Zenon
  <2>3. Tail(s) = <<>>
    <3>1. Len(Tail(s)) = 0
      BY <1>1, <1>2, <1>3
    <3>2. QED
      BY <1>2, <3>1, EmptyLength, Zenon
  <2>4. QED
    BY <1>1, <2>2, <2>3, IdleIs DEF InStepWith
<1>4. CASE r.left # 1
  <2> DEFINE d == [r EXCEPT !.left = @ - 1]
  <2>1. Step(r, b) = Reading(d)
    BY <1>4, StepAt
  <2>2. Step(r, b).reader = d /\ Step(r, b).message = Nothing
    BY <2>1, ReadingIs, Zenon
  <2>3. d.at = "skip" /\ d.type = r.type /\ d.left = r.left - 1
    BY <1>1 DEF Reader
  <2> HIDE DEF d
  <2>4. Tail(s) # <<>>
    <3>1. Len(Tail(s)) # 0
      BY <1>1, <1>2, <1>4
    <3>2. QED
      BY <1>2, <3>1, EmptyLength, Zenon
  <2>5. d.left = Len(Tail(s))
    BY <1>1, <1>2, <2>3, Zenon
  <2>6. Placed(d, Tail(s), p)
    BY <1>1, <2>3, <2>5 DEF Placed
  <2>7. QED
    BY <1>1, <2>2, <2>3, <2>4, <2>6 DEF InStepWith
<1>5. QED
  BY <1>3, <1>4

-----------------------------------------------------------------------------
(* The invariant: unless a packet stalled, the reader is placed in the bytes *)
(* that are still to come of the packet that is being sent.                  *)

TakenInStep(s) == IF s = <<>> THEN reader = Idle ELSE packet \in Packets /\ Placed(reader, s, packet)

ReaderInv ==
  /\ TypeOK
  /\ Waiting(reader)
  /\ end = "device" => reader.at \in OfDevice
  /\ ~doubt => IF Alive THEN TakenInStep(rest) ELSE rest = <<>> /\ packet \in Refused

LEMMA EncodedType ==
  ASSUME NEW p \in Packets
  PROVE  Encoded(p) \in Seq(Byte) /\ Encoded(p) # <<>>
  BY FirstInStep

LEMMA PublicationType ==
  ASSUME NEW p \in Packets, p.type = Publish
  PROVE  p \in MessageType
<1>1. p = [type |-> Publish, topic |-> p.topic, payload |-> p.payload]
  BY BodyBytes
<1>2. p.topic \in Seq(Byte) /\ p.payload \in Seq(Byte)
  BY BodyBytes
<1>3. \A t, u \in Seq(Byte) : [type |-> Publish, topic |-> t, payload |-> u] \in MessageType
  BY DEF MessageType
<1>4. QED
  BY <1>1, <1>2, <1>3, Zenon

\* A reader in step that takes a byte stays in step.
LEMMA StepInStep ==
  ASSUME ~doubt, NEW p \in Packets, NEW r, Waiting(r), r.at # "dead",
         NEW s \in Seq(Byte), s # <<>>, Placed(r, s, p)
  PROVE  InStepWith(Step(r, Head(s)), Tail(s), p)
<1>1. r.at \in {"first", "length", "hi", "lo", "topic", "payload", "skip", "body"}
  BY DEF Waiting, Reader
<1>2. CASE r.at = "first"
  <2>1. r = Idle /\ s = Encoded(p)
    BY <1>2 DEF Placed
  <2>2. InStepWith(Step(Idle, Head(s)), Tail(s), p)
    BY <2>1, FirstInStep
  <2>3. QED
    BY <2>1, <2>2, Zenon
<1>3. CASE r.at = "length"
  BY <1>3, LengthInStep
<1>4. CASE r.at = "hi"
  BY <1>4, HighInStep
<1>5. CASE r.at = "lo"
  BY <1>5, LowInStep
<1>6. CASE r.at = "topic"
  BY <1>6, TopicInStep
<1>7. CASE r.at \in {"payload", "body"}
  BY <1>7, PayloadInStep
<1>8. CASE r.at = "skip"
  BY <1>8, SkipInStep
<1>9. QED
  BY <1>1, <1>2, <1>3, <1>4, <1>5, <1>6, <1>7, <1>8

LEMMA ReaderStarts == Init => ReaderInv
<1> SUFFICES ASSUME Init PROVE ReaderInv
  OBVIOUS
<1>1. <<>> \in Seq(Byte) /\ Nothing \in MessageType
  BY NothingType
<1>2. Waiting(Idle) /\ Idle \in Reader
  BY IdleWaits DEF Waiting
<1>3. TypeOK
  BY <1>1, <1>2 DEF Init, TypeOK, MessageType
<1>4. QED
  BY <1>2, <1>3, IdleIs DEF Init, ReaderInv, TakenInStep, Alive, OfDevice

\* A whole packet that record takes leaves the thread at the next one.
LEMMA RecordedInStep ==
  ASSUME ~doubt, NEW x, x.message \notin Refused \/ end = "device"
  PROVE  Recorded(x) = {x.reader}
  BY DEF Recorded

\* What the step of TakeByte takes, as long as the reader is in step.
LEMMA ByteInStep ==
  ASSUME ReaderInv, TakeByte, ~doubt
  PROVE  /\ packet \in Packets
         /\ rest' = <<>> => reader' = IF end = "webui" /\ packet \in Refused THEN Dead ELSE Idle
         /\ rest' # <<>> => reader'.at # "dead" /\ Placed(reader', rest', packet)
         /\ delivered' = IF rest' = <<>> /\ packet.type = Publish THEN packet ELSE Nothing
<1>1. /\ Waiting(reader) /\ reader.at # "dead" /\ rest \in Seq(Byte) /\ rest # <<>>
      /\ packet \in Packets /\ Placed(reader, rest, packet) /\ end \in {"device", "webui"}
  BY DEF ReaderInv, TypeOK, TakenInStep, TakeByte, Alive
<1> DEFINE x == Step(reader, Head(rest))
<1>2. InStepWith(x, Tail(rest), packet)
  BY <1>1, StepInStep
<1>3. reader' \in Recorded(x) /\ rest' = Tail(rest) /\ delivered' = x.message
  BY DEF TakeByte
<1> HIDE DEF x
<1>4. \A p \in Refused : p.type = Publish
  BY RefusedAssumption
<1>5. Nothing \notin Refused
  BY <1>4 DEF Nothing, Publish
<1>6. delivered' = IF rest' = <<>> /\ packet.type = Publish THEN packet ELSE Nothing
  BY <1>2, <1>3 DEF InStepWith
<1>7. CASE rest' = <<>> /\ packet \in Refused /\ end = "webui"
  <2>1. x.message = packet
    BY <1>3, <1>4, <1>6, <1>7
  <2>2. Recorded(x) = {Dead}
    BY <1>7, <2>1 DEF Recorded
  <2>3. QED
    BY <1>1, <1>3, <1>6, <1>7, <2>2
<1>8. CASE ~(rest' = <<>> /\ packet \in Refused /\ end = "webui")
  <2>1. x.message \notin Refused \/ end = "device"
    BY <1>1, <1>3, <1>5, <1>6, <1>8
  <2>2. Recorded(x) = {x.reader}
    BY <2>1, RecordedInStep
  <2>3. reader' = x.reader
    BY <1>3, <2>2
  <2>4. /\ rest' = <<>> => reader' = Idle
        /\ rest' # <<>> => reader'.at # "dead" /\ Placed(reader', rest', packet)
    BY <1>2, <1>3, <2>3 DEF InStepWith
  <2>5. QED
    BY <1>1, <1>6, <1>8, <2>4
<1>9. QED
  BY <1>7, <1>8

LEMMA TakeByteKeeps ==
  ASSUME ReaderInv, TakeByte
  PROVE  ReaderInv'
<1> DEFINE x == Step(reader, Head(rest))
<1>1. /\ Waiting(reader) /\ reader.at # "dead" /\ rest \in Seq(Byte) /\ rest # <<>>
      /\ end \in {"device", "webui"} /\ packet \in Packets \cup {Nothing} /\ doubt \in BOOLEAN
  BY DEF ReaderInv, TypeOK, TakeByte, Alive
<1>2. /\ end' = end /\ packet' = packet /\ doubt' = doubt
      /\ reader' \in Recorded(x) /\ rest' = Tail(rest)
      /\ delivered' = x.message
  BY DEF TakeByte
<1>3. Head(rest) \in Byte /\ rest' \in Seq(Byte)
  BY <1>1, <1>2, NextByte
<1>4. Waiting(x.reader)
  BY <1>1, <1>3, StepWaits
<1>5. end = "device" => x.reader.at \in OfDevice
  BY <1>1, <1>3, DeviceGoesOn DEF ReaderInv, Waiting
<1>6. delivered' \in MessageType
  <2>1. CASE doubt
    BY <1>1, <1>2, <1>3, <2>1, StepInDoubt, NothingType
  <2>2. CASE ~doubt
    <3>1. /\ packet \in Packets
          /\ delivered' = IF rest' = <<>> /\ packet.type = Publish THEN packet ELSE Nothing
      BY <2>2, ByteInStep
    <3>2. packet.type = Publish => packet \in MessageType
      BY <3>1, PublicationType, Zenon
    <3>3. QED
      BY <3>1, <3>2, NothingType
  <2>3. QED
    BY <2>1, <2>2
<1> HIDE DEF x
<1>7. reader' \in {x.reader, Idle, Dead} /\ (end = "device" => reader' = x.reader)
  BY <1>2 DEF Recorded
<1>8. Waiting(reader')
  BY <1>4, <1>7, IdleWaits, DeadWaits
<1>9. end' = "device" => reader'.at \in OfDevice
  BY <1>2, <1>5, <1>7, Zenon
<1>10. TypeOK'
  BY <1>1, <1>2, <1>3, <1>6, <1>8 DEF TypeOK, MessageType, Waiting
<1>11. ~doubt' => IF Alive' THEN TakenInStep(rest)' ELSE rest' = <<>> /\ packet' \in Refused
  <2> SUFFICES ASSUME ~doubt
               PROVE  IF Alive' THEN TakenInStep(rest)' ELSE rest' = <<>> /\ packet' \in Refused
    BY <1>2
  <2>1. /\ packet \in Packets
        /\ rest' = <<>> => reader' = IF end = "webui" /\ packet \in Refused THEN Dead ELSE Idle
        /\ rest' # <<>> => reader'.at # "dead" /\ Placed(reader', rest', packet)
    BY ByteInStep
  <2>2. Idle.at # "dead" /\ Dead.at = "dead"
    BY DEF Idle, Dead
  <2>3. QED
    BY <1>2, <2>1, <2>2 DEF TakenInStep, Alive
<1>12. QED
  BY <1>8, <1>9, <1>10, <1>11 DEF ReaderInv, Waiting, Expecting

LEMMA SendKeeps ==
  ASSUME ReaderInv, NEW p \in Packets, Send(p)
  PROVE  ReaderInv'
<1>1. /\ packet' = p /\ rest' = Encoded(p) /\ delivered' = Nothing
      /\ end' = end /\ reader' = reader /\ doubt' = doubt /\ rest = <<>> /\ Alive
  BY DEF Send
<1>2. Encoded(p) \in Seq(Byte) /\ Encoded(p) # <<>> /\ Nothing \in MessageType
  BY EncodedType, NothingType
<1>3. TypeOK'
  BY <1>1, <1>2 DEF ReaderInv, TypeOK, MessageType
<1>4. Waiting(reader)'
  BY <1>1 DEF ReaderInv, Waiting, Expecting
<1>5. Placed(Idle, Encoded(p), p)
  BY IdleIs DEF Placed
<1>6. ~doubt => reader = Idle
  BY <1>1 DEF ReaderInv, TakenInStep
<1>7. Alive' /\ (~doubt' => TakenInStep(rest)') /\ (end' = "device" => reader'.at \in OfDevice)
  BY <1>1, <1>2, <1>5, <1>6 DEF TakenInStep, Alive, ReaderInv
<1>8. QED
  BY <1>3, <1>4, <1>7 DEF ReaderInv

LEMMA PauseKeeps ==
  ASSUME ReaderInv, Pause
  PROVE  ReaderInv'
<1>1. /\ reader' = Idle /\ delivered' = Nothing /\ doubt' = (rest # <<>>)
      /\ end' = end /\ packet' = packet /\ rest' = rest
  BY DEF Pause, GivenUp
<1>2. Waiting(Idle) /\ Idle \in Reader /\ Nothing \in MessageType
  BY IdleWaits, NothingType DEF Waiting
<1>3. TypeOK'
  BY <1>1, <1>2 DEF ReaderInv, TypeOK, MessageType
<1>4. Waiting(reader)'
  BY <1>1, <1>2
<1>5. Alive' /\ (~doubt' => TakenInStep(rest)') /\ reader'.at \in OfDevice
  BY <1>1, IdleIs DEF TakenInStep, Alive, OfDevice
<1>6. QED
  BY <1>3, <1>4, <1>5 DEF ReaderInv

LEMMA ReconnectKeeps ==
  ASSUME ReaderInv, Reconnect
  PROVE  ReaderInv'
<1>1. /\ reader' = Idle /\ delivered' = Nothing /\ doubt' = FALSE
      /\ end' = end /\ packet' = packet /\ rest' = <<>>
  BY DEF Reconnect
<1>2. Waiting(Idle) /\ Idle \in Reader /\ Nothing \in MessageType /\ <<>> \in Seq(Byte)
  BY IdleWaits, NothingType DEF Waiting
<1>3. TypeOK'
  BY <1>1, <1>2 DEF ReaderInv, TypeOK, MessageType
<1>4. Waiting(reader)'
  BY <1>1, <1>2
<1>5. Alive' /\ TakenInStep(rest)' /\ reader'.at \in OfDevice
  BY <1>1, IdleIs DEF TakenInStep, Alive, OfDevice
<1>6. QED
  BY <1>3, <1>4, <1>5 DEF ReaderInv

LEMMA StutterKeeps ==
  ASSUME ReaderInv, UNCHANGED vars
  PROVE  ReaderInv'
  BY DEF ReaderInv, TypeOK, TakenInStep, Waiting, Expecting, Alive, vars

LEMMA ReaderKeeps == ReaderInv /\ [Next]_vars => ReaderInv'
<1> SUFFICES ASSUME ReaderInv, [Next]_vars PROVE ReaderInv'
  OBVIOUS
<1>1. CASE \E p \in Packets : Send(p)
  BY <1>1, SendKeeps
<1>2. CASE TakeByte
  BY <1>2, TakeByteKeeps
<1>3. CASE Pause
  BY <1>3, PauseKeeps
<1>4. CASE Reconnect
  BY <1>4, ReconnectKeeps
<1>5. CASE UNCHANGED vars
  BY <1>5, StutterKeeps
<1>6. QED
  BY <1>1, <1>2, <1>3, <1>4, <1>5 DEF Next

LEMMA ReaderHolds == Spec => []ReaderInv
<1>1. Init => ReaderInv
  BY ReaderStarts
<1>2. ReaderInv /\ [Next]_vars => ReaderInv'
  BY ReaderKeeps
<1>3. QED
  BY <1>1, <1>2, PTL DEF Spec

-----------------------------------------------------------------------------

\* Every variable of the readers has its type, whatever bytes an out-of-step reader takes
\* for lengths: remaining, multiplier and the topic's length stay in their widths
\* (WiFiMqttTransport::readPacket, MqttClient.read).
THEOREM TypeCorrect == Spec => []TypeOK
<1>1. ReaderInv => TypeOK
  BY DEF ReaderInv
<1>2. QED
  BY <1>1, ReaderHolds, PTL

\* The WebUI's thread ends in doubt, or on a publication that record fails on, whatever
\* packets come in whatever order; the device's reader never ends (mqtt_loop, readPacket).
THEOREM ThreadSurvives == Spec => []ThreadLives
<1>1. ReaderInv => ThreadLives
  <2> SUFFICES ASSUME ReaderInv, ~Alive PROVE end = "webui" /\ (doubt \/ (rest = <<>> /\ packet \in Refused))
    BY DEF ThreadLives
  <2>1. reader.at \notin OfDevice /\ end \in {"device", "webui"}
    BY DEF Alive, OfDevice, ReaderInv, TypeOK
  <2>2. QED
    BY <2>1 DEF ReaderInv
<1>2. QED
  BY <1>1, ReaderHolds, PTL

\* Either end takes every publication as it was written, with its last byte and never
\* before, and nothing else, unless a packet stalled: for every base, every packet a
\* length can be written for and every sequence of packets (readPacket, read,
\* parse_publish against writeRemainingLength, writeString, enclen, encstr).
THEOREM ReadInStep == Spec => InStep
<1>1. ReaderInv /\ [Next]_vars =>
        [TakeByte /\ ~doubt =>
           /\ delivered' = IF rest' = <<>> /\ packet.type = Publish THEN packet ELSE Nothing
           /\ rest' = <<>> =>
                reader' = IF end = "webui" /\ packet \in Refused THEN Dead ELSE Idle]_vars
  BY ByteInStep, Zenon
<1>2. QED
  BY <1>1, ReaderHolds, PTL DEF Spec, InStep

===============================================================================
