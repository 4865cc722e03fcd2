--------------------------- MODULE GpsRunnerProofs ---------------------------
(***************************************************************************)
(* TLAPS proofs about GpsRunner, for every width of the clock and every    *)
(* interval.                                                               *)
(***************************************************************************)
EXTENDS GpsRunner, TLAPS

\* An OK the runner will take for the answer to its request means that the receiver is
\* on, or that the service has been deceived.
OkMeansOn == answer = "ok" /\ pending /\ active /\ ~on => deceived

\* The inductive invariant.
BeliefInv == SeenIsOn /\ OkMeansOn

-----------------------------------------------------------------------------
(* What the service believes. *)

LEMMA InitBelief == Init => BeliefInv
  BY DEF Init, BeliefInv, SeenIsOn, OkMeansOn

\* What leaves the receiver, its request and what is believed of it alone leaves the
\* invariant.
LEMMA SameBelief ==
  ASSUME BeliefInv, UNCHANGED <<powerSeen, on, deceived, answer>>,
         active' => active, pending' => pending
  PROVE  BeliefInv'
  BY DEF BeliefInv, SeenIsOn, OkMeansOn

LEMMA FindsOffBelief ==
  ASSUME BeliefInv, FindsOff, UNCHANGED deceived
  PROVE  BeliefInv'
<1>1. CASE attempted
  BY <1>1, SameBelief DEF FindsOff, modemVars
<1>2. CASE ~attempted /\ TRUE \in SaysOn /\ UNCHANGED modemVars
  BY <1>2 DEF FindsOff, SaysOn, modemVars, BeliefInv, SeenIsOn, OkMeansOn
<1>3. CASE ~attempted /\ answer' = "none" /\ UNCHANGED on
  BY <1>3 DEF FindsOff, BeliefInv, SeenIsOn, OkMeansOn
<1>4. QED
  BY <1>1, <1>2, <1>3 DEF FindsOff, Requested

LEMMA SeesBelief ==
  ASSUME BeliefInv, Sees, UNCHANGED deceived
  PROVE  BeliefInv'
<1>1. on \/ deceived
  <2>1. CASE active /\ pending /\ answer = "ok"
    BY <2>1 DEF BeliefInv, OkMeansOn
  <2>2. CASE TRUE \in SaysOn
    BY <2>2 DEF SaysOn
  <2>3. QED
    BY <2>1, <2>2 DEF Sees
<1>2. UNCHANGED on /\ ~active'
  BY DEF Sees
<1>3. QED
  BY <1>1, <1>2 DEF BeliefInv, SeenIsOn, OkMeansOn

LEMMA RunnerBelief ==
  ASSUME BeliefInv, Runner
  PROVE  BeliefInv'
<1>1. CASE RequestWaits \/ NothingDue
  <2>1. UNCHANGED <<powerVars, modemVars, deceived>>
    BY <1>1 DEF Runner, RequestWaits, NothingDue, serviceVars
  <2>2. QED
    BY <2>1, SameBelief DEF powerVars, modemVars
<1>2. CASE RequestEnds
  BY <1>2 DEF Runner, RequestEnds, NoRequest, BeliefInv, SeenIsOn, OkMeansOn
<1>3. CASE FindsOff
  BY <1>3, FindsOffBelief DEF Runner
<1>4. CASE Sees
  BY <1>4, SeesBelief DEF Runner
<1>5. CASE PollsAgain
  BY <1>5, SameBelief DEF Runner, PollsAgain, powerVars, modemVars
<1>6. QED
  BY <1>1, <1>2, <1>3, <1>4, <1>5 DEF Runner

LEMMA CommandBelief ==
  ASSUME BeliefInv, Command
  PROVE  BeliefInv'
<1>1. CASE GpsOn
  <2>1. ~on' => ~on
    BY <1>1 DEF GpsOn
  <2>2. UNCHANGED <<powerSeen, deceived>> /\ ~active'
    BY <1>1 DEF GpsOn, Begun
  <2>3. QED
    BY <2>1, <2>2 DEF BeliefInv, SeenIsOn, OkMeansOn
<1>2. CASE GpsOff \/ GpsProve \/ Standby
  BY <1>2 DEF GpsOff, GpsProve, Standby, Stopped, PowerForgotten, BeliefInv, SeenIsOn, OkMeansOn
<1>3. CASE GsmReset \/ GsmProve
  <2>1. answer' = "none" /\ UNCHANGED powerSeen
    BY <1>3 DEF GsmReset, GsmProve, NoRequest, SwitchedOff, serviceVars, powerVars
  <2>2. deceived \/ powerSeen => deceived'
    BY <1>3, Zenon DEF GsmReset, GsmProve
  <2>3. QED
    BY <2>1, <2>2 DEF BeliefInv, SeenIsOn, OkMeansOn
<1>4. QED
  BY <1>1, <1>2, <1>3 DEF Command

LEMMA NextBelief == BeliefInv /\ [Next]_vars => BeliefInv'
<1> SUFFICES ASSUME BeliefInv, [Next]_vars PROVE BeliefInv'
  OBVIOUS
<1>1. CASE Runner
  BY <1>1, RunnerBelief
<1>2. CASE Command
  BY <1>2, CommandBelief
<1>3. CASE ProofEnds
  BY <1>3 DEF ProofEnds, Begun, modemVars, BeliefInv, SeenIsOn, OkMeansOn
<1>4. CASE WakeUp
  BY <1>4 DEF WakeUp, Begun, modemVars, BeliefInv, SeenIsOn, OkMeansOn
<1>5. CASE SwitchesOn \/ Refuses
  <2>1. UNCHANGED <<powerSeen, deceived>>
    BY <1>5 DEF SwitchesOn, Refuses, serviceVars, powerVars
  <2>2. on' \/ (UNCHANGED on /\ answer' # "ok")
    BY <1>5 DEF SwitchesOn, Refuses, Heard
  <2>3. QED
    BY <2>1, <2>2 DEF BeliefInv, SeenIsOn, OkMeansOn
<1>6. CASE OtherAt
  <2>1. UNCHANGED <<powerSeen, active, pending, on>>
    BY <1>6 DEF OtherAt, serviceVars, powerVars
  <2>2. deceived => deceived'
    BY <1>6 DEF OtherAt
  <2>3. answer # "ok" /\ answer' = "ok" => deceived'
    BY <1>6, Zenon DEF OtherAt
  <2>4. QED
    BY <2>1, <2>2, <2>3 DEF BeliefInv, SeenIsOn, OkMeansOn
<1>7. CASE Tick \/ UNCHANGED vars
  BY <1>7, SameBelief DEF Tick, vars, serviceVars, powerVars, modemVars
<1>8. QED
  BY <1>1, <1>2, <1>3, <1>4, <1>5, <1>6, <1>7 DEF Next, Task

\* Whatever fails, is refused, times out or is mixed up in the UART, a receiver that is
\* believed on and is off was switched off by a command since the last stop, or an
\* answer was mixed up (GpsBufferedService::runner, pollGpsEnableRequest).
THEOREM BeliefCorrect == Spec => []SeenIsOn
<1>1. BeliefInv => SeenIsOn
  BY DEF BeliefInv
<1>2. QED
  BY <1>1, InitBelief, NextBelief, PTL DEF Spec

-----------------------------------------------------------------------------
(* The clock. *)

LEMMA TheClock ==
  /\ Wrap \in Nat /\ Half \in Nat /\ 2 * Half = Wrap /\ Half > 1
  /\ EnableRetry \in 1..(Half - 1) /\ PollInterval \in 1..(Half - 1)
  /\ Recheck \in 1..EnableRetry
  /\ EnableTimeout \in Nat /\ MaxBlock \in Nat /\ MaxBlock > 0
  /\ EnableTimeout + 2 * MaxBlock < Half
  /\ EnableRetry + MaxBlock < Half /\ PollInterval + MaxBlock < Half
  /\ Longest \in 1..(Half - 1) /\ EnableRetry <= Longest /\ PollInterval <= Longest
<1>1. Wrap \in Nat /\ Wrap % 2 = 0
  BY ClockAssumption
<1>2. Half \in Int /\ 2 * Half = Wrap
  BY <1>1 DEF Half
<1>3. /\ EnableRetry \in 1..(Half - 1) /\ PollInterval \in 1..(Half - 1)
      /\ Recheck \in 1..(Half - 1)
  BY ClockAssumption
<1>4. QED
  BY <1>1, <1>2, <1>3, ClockAssumption DEF Longest

LEMMA Modulo ==
  ASSUME NEW x \in Int, -Wrap <= x, x < 2 * Wrap
  PROVE  x % Wrap = IF x < 0 THEN x + Wrap ELSE IF x < Wrap THEN x ELSE x - Wrap
<1>1. Wrap \in Nat /\ Wrap > 0
  BY TheClock
<1>2. QED
  BY <1>1

\* t lies a units ahead; t was e units ago.
Apart(t, a) == t = now + a \/ t = now + a - Wrap
Late(t, e) == now = t + e \/ now = t + e - Wrap

Ages == 0..(Wrap - 1)

LEMMA AtApart ==
  ASSUME now \in Clock, NEW a \in 0..(Wrap - 1)
  PROVE  At(a) \in Clock /\ Apart(At(a), a)
<1>1. (now + a) % Wrap = IF now + a < Wrap THEN now + a ELSE now + a - Wrap
  BY Modulo, TheClock DEF Clock
<1>2. QED
  BY <1>1, TheClock DEF At, Apart, Clock

\* Time passes by one unit at a time.
LEMMA OneOn ==
  ASSUME now \in Clock
  PROVE  At(1) = IF now + 1 < Wrap THEN now + 1 ELSE 0
<1>1. (now + 1) % Wrap = IF now + 1 < Wrap THEN now + 1 ELSE now + 1 - Wrap
  BY Modulo, TheClock DEF Clock
<1>2. QED
  BY <1>1, TheClock DEF At, Clock

LEMMA ElapsedLate ==
  ASSUME now \in Clock, NEW t \in Clock
  PROVE  /\ Elapsed(t) \in Ages /\ Late(t, Elapsed(t))
         /\ \A e \in Ages : Late(t, e) => Elapsed(t) = e
<1>1. Elapsed(t) = IF now - t < 0 THEN now - t + Wrap ELSE now - t
  BY Modulo, TheClock DEF Elapsed, Clock
<1>2. QED
  BY <1>1, TheClock DEF Ages, Late, Clock

\* What lies ahead by less than half the clock is not due, and what was that long ago is.
LEMMA AheadNotDue ==
  ASSUME now \in Clock, NEW t \in Clock, NEW a \in 1..(Half - 1), Apart(t, a)
  PROVE  ~Due(t)
<1>1. Elapsed(t) = IF now - t < 0 THEN now - t + Wrap ELSE now - t
  BY Modulo, TheClock DEF Elapsed, Clock
<1>2. QED
  BY <1>1, TheClock DEF Due, Apart, Clock

LEMMA LateDue ==
  ASSUME now \in Clock, NEW t \in Clock, NEW e \in 0..(Half - 1), Late(t, e)
  PROVE  Due(t)
<1>1. e \in Ages
  BY TheClock DEF Ages
<1>2. Elapsed(t) = e
  BY <1>1, ElapsedLate
<1>3. QED
  BY <1>2, TheClock DEF Due

-----------------------------------------------------------------------------
(* The types. *)

Flags ==
  /\ started \in BOOLEAN /\ powerSeen \in BOOLEAN /\ attempted \in BOOLEAN
  /\ active \in BOOLEAN /\ hot \in BOOLEAN /\ hasFix \in BOOLEAN
  /\ pending \in BOOLEAN /\ on \in BOOLEAN /\ asked \in BOOLEAN
  /\ ran \in BOOLEAN /\ deceived \in BOOLEAN

Times ==
  /\ startedMs \in Clock /\ nextCheck \in Clock /\ nextPoll \in Clock
  /\ lastCold \in Clock /\ since \in Clock

Rest ==
  /\ now \in Clock /\ answer \in {"none", "ok", "error"}
  /\ task \in {"loop", "prove", "standby"}
  /\ busy \in 0..MaxBlock /\ quiet \in 0..(Longest + 1)

Types == Flags /\ Times /\ Rest

LEMMA TypesAreTypeOK == Types <=> TypeOK
  BY DEF Types, Flags, Times, Rest, TypeOK

LEMMA InitTypes == Init => Types
<1> SUFFICES ASSUME Init PROVE Types
  OBVIOUS
<1>1. Flags
  BY ClockAssumption DEF Init, Flags
<1>2. now \in Clock /\ 0 \in Clock
  BY TheClock DEF Init, Clock
<1>3. Times
  BY <1>2 DEF Init, Times
<1>4. Rest
  BY <1>2, TheClock DEF Init, Rest
<1>5. QED
  BY <1>1, <1>3, <1>4 DEF Types

LEMMA NextFlags ==
  ASSUME Flags, [Next]_vars
  PROVE  Flags'
<1> USE DEF Flags
<1>1. CASE Runner
  <2>1. CASE RequestWaits \/ NothingDue
    BY <1>1, <2>1 DEF Runner, RequestWaits, NothingDue, serviceVars, powerVars, pollVars,
                      modemVars
  <2>2. CASE RequestEnds
    BY <1>1, <2>2 DEF Runner, RequestEnds, NoRequest, powerVars, pollVars
  <2>3. CASE FindsOff
    BY <1>1, <2>3 DEF Runner, FindsOff, Requested, powerVars, pollVars, modemVars
  <2>4. CASE Sees
    <3>1. hot' \in BOOLEAN /\ hasFix' \in BOOLEAN
      BY <2>4 DEF Sees, PollPart, Polls, pollVars
    <3>2. pending' \in BOOLEAN
      BY <2>4 DEF Sees, NoRequest
    <3>3. QED
      BY <1>1, <2>4, <3>1, <3>2 DEF Runner, Sees
  <2>5. CASE PollsAgain
    BY <1>1, <2>5 DEF Runner, PollsAgain, Polls, powerVars, modemVars
  <2>6. QED
    BY <1>1, <2>1, <2>2, <2>3, <2>4, <2>5 DEF Runner
<1>2. CASE GpsOn
  BY <1>2 DEF GpsOn, Begun, Blocks
<1>3. CASE GpsOff \/ GpsProve \/ Standby
  BY <1>3 DEF GpsOff, GpsProve, Standby, Stopped, PowerForgotten, SwitchedOff, NoRequest,
              Blocks
<1>4. CASE GsmReset \/ GsmProve
  BY <1>4 DEF GsmReset, GsmProve, SwitchedOff, NoRequest, Blocks, serviceVars, powerVars,
              pollVars
<1>5. CASE ProofEnds \/ WakeUp
  BY <1>5 DEF ProofEnds, WakeUp, Begun, modemVars
<1>6. CASE SwitchesOn \/ Refuses
  BY <1>6 DEF SwitchesOn, Refuses, serviceVars, powerVars, pollVars, taskVars
<1>7. CASE OtherAt
  <2>1. deceived' \in BOOLEAN
    BY <1>7, Zenon DEF OtherAt
  <2>2. QED
    BY <1>7, <2>1, Zenon DEF OtherAt, serviceVars, powerVars, pollVars, taskVars
<1>8. CASE Tick
  BY <1>8 DEF Tick, serviceVars, powerVars, pollVars, modemVars
<1>9. CASE UNCHANGED vars
  BY <1>9 DEF vars, serviceVars, powerVars, pollVars, modemVars, taskVars
<1>10. QED
  BY <1>1, <1>2, <1>3, <1>4, <1>5, <1>6, <1>7, <1>8, <1>9 DEF Next, Task, Command

\* A deadline is 0, the time it is, or one of the intervals ahead.
LEMMA Deadlines ==
  ASSUME now \in Clock
  PROVE  0 \in Clock /\ At(EnableRetry) \in Clock /\ At(Recheck) \in Clock
         /\ At(PollInterval) \in Clock /\ At(1) \in Clock
<1>1. {EnableRetry, Recheck, PollInterval, 1} \subseteq 0..(Wrap - 1)
  BY TheClock
<1>2. QED
  BY <1>1, AtApart, TheClock DEF Clock

LEMMA NextTimes ==
  ASSUME Times, now \in Clock, [Next]_vars
  PROVE  Times'
<1> USE Deadlines DEF Times
<1>1. CASE Runner
  <2>1. CASE RequestWaits \/ NothingDue
    BY <1>1, <2>1 DEF Runner, RequestWaits, NothingDue, serviceVars, powerVars, pollVars,
                      modemVars
  <2>2. CASE RequestEnds
    BY <1>1, <2>2 DEF Runner, RequestEnds, NoRequest, powerVars, pollVars
  <2>3. CASE FindsOff
    BY <1>1, <2>3 DEF Runner, FindsOff, Requested, powerVars, pollVars, modemVars
  <2>4. CASE Sees
    <3>1. nextPoll' \in Clock /\ lastCold' \in Clock
      BY <2>4 DEF Sees, PollPart, Polls, pollVars
    <3>2. since' \in Clock
      BY <2>4 DEF Sees, NoRequest
    <3>3. QED
      BY <1>1, <2>4, <3>1, <3>2 DEF Runner, Sees
  <2>5. CASE PollsAgain
    BY <1>1, <2>5 DEF Runner, PollsAgain, Polls, powerVars, modemVars
  <2>6. QED
    BY <1>1, <2>1, <2>2, <2>3, <2>4, <2>5 DEF Runner
<1>2. CASE GpsOn
  BY <1>2 DEF GpsOn, Begun, Blocks
<1>3. CASE GpsOff \/ GpsProve \/ Standby
  BY <1>3 DEF GpsOff, GpsProve, Standby, Stopped, NoRequest
<1>4. CASE GsmReset \/ GsmProve
  BY <1>4 DEF GsmReset, GsmProve, NoRequest, serviceVars, powerVars, pollVars
<1>5. CASE ProofEnds \/ WakeUp
  BY <1>5 DEF ProofEnds, WakeUp, Begun, modemVars
<1>6. CASE SwitchesOn \/ Refuses \/ OtherAt
  BY <1>6 DEF SwitchesOn, Refuses, OtherAt, serviceVars, powerVars, pollVars
<1>7. CASE Tick
  BY <1>7 DEF Tick, serviceVars, powerVars, pollVars, modemVars
<1>8. CASE UNCHANGED vars
  BY <1>8 DEF vars, serviceVars, powerVars, pollVars, modemVars
<1>9. QED
  BY <1>1, <1>2, <1>3, <1>4, <1>5, <1>6, <1>7, <1>8 DEF Next, Task, Command

LEMMA NextRest ==
  ASSUME Rest, [Next]_vars
  PROVE  Rest'
<1>a. 0 \in 0..(Longest + 1) /\ 0 \in Clock /\ At(1) \in Clock
  BY Deadlines, TheClock DEF Rest
<1> USE <1>a DEF Rest
<1>1. CASE Runner
  <2>1. quiet' \in {0, quiet}
    BY <1>1 DEF Runner, RequestWaits, RequestEnds, FindsOff, Sees, PollsAgain, Polls,
                NothingDue
  <2>2. answer' \in {"none", answer}
    BY <1>1 DEF Runner, RequestWaits, RequestEnds, FindsOff, Requested, Sees, PollsAgain,
                NothingDue, NoRequest, modemVars
  <2>3. QED
    BY <1>1, <2>1, <2>2 DEF Runner
<1>2. CASE Command
  <2>1. quiet' \in {0, quiet}
    BY <1>2 DEF Command, GpsOn, GpsOff, GpsProve, GsmReset, GsmProve, Standby, Begun,
                Stopped
  <2>2. answer' \in {"none", answer}
    BY <1>2 DEF Command, GpsOn, GpsOff, GpsProve, GsmReset, GsmProve, Standby, NoRequest,
                SwitchedOff
  <2>3. UNCHANGED now /\ task' \in {task, "prove", "standby"}
    BY <1>2 DEF Command, GpsOn, GpsOff, GpsProve, GsmReset, GsmProve, Standby, Blocks
  <2>4. busy' \in 0..MaxBlock
    <3>1. 1..MaxBlock \subseteq 0..MaxBlock
      BY TheClock
    <3>2. QED
      BY <1>2, <3>1 DEF Command, GpsOn, GpsOff, GpsProve, GsmReset, GsmProve, Standby, Blocks
  <2>5. QED
    BY <2>1, <2>2, <2>3, <2>4
<1>3. CASE ProofEnds \/ WakeUp
  BY <1>3 DEF ProofEnds, WakeUp, Begun, modemVars
<1>4. CASE SwitchesOn \/ Refuses \/ OtherAt
  BY <1>4 DEF SwitchesOn, Refuses, OtherAt, Heard, taskVars
<1>5. CASE Tick
  <2>1. busy' \in 0..MaxBlock
    BY <1>5, TheClock DEF Tick
  <2>2. quiet' \in 0..(Longest + 1)
    <3>1. quiet' = quiet \/ (quiet <= Longest /\ quiet' = quiet + 1)
      BY <1>5, TheClock DEF Tick
    <3>2. QED
      BY <3>1, TheClock
  <2>3. QED
    BY <1>5, <2>1, <2>2 DEF Tick, modemVars
<1>6. CASE UNCHANGED vars
  BY <1>6 DEF vars, modemVars, taskVars
<1>7. QED
  BY <1>1, <1>2, <1>3, <1>4, <1>5, <1>6 DEF Next, Task

LEMMA NextTypes == Types /\ [Next]_vars => Types'
  BY NextFlags, NextTimes, NextRest DEF Types, Rest

\* Every variable has its type, and deadlines stay within the clock, whatever the
\* intervals (GpsBufferedService::runner).
THEOREM TypeCorrect == Spec => []TypeOK
<1>1. Spec => []Types
  BY InitTypes, NextTypes, PTL DEF Spec
<1>2. QED
  BY <1>1, TypesAreTypeOK, PTL

-----------------------------------------------------------------------------
(* The runner keeps time. *)

\* The deadline t lies ahead, and the silence that has been and is to come is bounded.
Ahead(t, bound) == \E a \in 1..bound : Apart(t, a) /\ a + quiet <= bound

\* The deadline t passed while the task was blocked, and the runner runs next.
Behind(t, bound) ==
  /\ ~ran /\ quiet <= bound
  /\ \E e \in 0..MaxBlock : Late(t, e) /\ e + busy <= MaxBlock

\* The deadline passed and an open request is looked after in every pass, until it times
\* out.
Waiting ==
  /\ active
  /\ \E e, s \in Ages :
       /\ Late(nextCheck, e) /\ (pending => Late(since, s))
       /\ e <= s + MaxBlock
       /\ \/ ran /\ s <= EnableTimeout /\ quiet = 0
          \/ ~ran /\ s + busy <= EnableTimeout + MaxBlock /\ quiet <= 1

Idle ==
  /\ ~started => quiet = 0 /\ ~powerSeen /\ nextCheck = 0
  /\ ~powerSeen => nextPoll = 0
  /\ started => task = "loop"

PollKept ==
  started /\ powerSeen /\ nextPoll # 0 =>
    Ahead(nextPoll, PollInterval) \/ Behind(nextPoll, PollInterval)

CheckKept ==
  started /\ ~powerSeen /\ nextCheck # 0 =>
    Ahead(nextCheck, EnableRetry) \/ Behind(nextCheck, EnableRetry) \/ Waiting

\* The inductive invariant.
TimeInv == Idle /\ PollKept /\ CheckKept

LEMMA InitTime == Init => TimeInv
  BY DEF Init, TimeInv, Idle, PollKept, CheckKept

\* A service that begins, and one that is stopped, has no deadline.
LEMMA BegunTime ==
  ASSUME TimeInv, Begun, UNCHANGED powerSeen, task' = "loop"
  PROVE  TimeInv'
  BY DEF TimeInv, Begun, Idle, PollKept, CheckKept

LEMMA StoppedTime ==
  ASSUME Stopped
  PROVE  TimeInv'
  BY DEF TimeInv, Stopped, PowerForgotten, Idle, PollKept, CheckKept

\* What leaves the service and the clock alone, and blocks the task only after a pass of
\* the runner, leaves the invariant.
LEMMA SameTime ==
  ASSUME TimeInv,
         UNCHANGED <<now, started, powerSeen, active, nextCheck, nextPoll, quiet, ran, task>>,
         pending' => pending /\ UNCHANGED since,
         busy' = busy \/ (started => ran)
  PROVE  TimeInv'
<1>1. Idle'
  BY DEF TimeInv, Idle
<1>2. PollKept'
  BY DEF TimeInv, PollKept, Ahead, Behind, Apart, Late
<1>3. CheckKept'
  <2> SUFFICES ASSUME started, ~powerSeen, nextCheck # 0
               PROVE  (Ahead(nextCheck, EnableRetry) \/ Behind(nextCheck, EnableRetry)
                         \/ Waiting)'
    BY DEF CheckKept
  <2>1. CASE Ahead(nextCheck, EnableRetry)
    BY <2>1 DEF Ahead, Apart
  <2>2. CASE Behind(nextCheck, EnableRetry)
    BY <2>2 DEF Behind, Late
  <2>3. CASE Waiting
    BY <2>3 DEF Waiting, Late
  <2>4. QED
    BY <2>1, <2>2, <2>3 DEF TimeInv, CheckKept
<1>4. QED
  BY <1>1, <1>2, <1>3 DEF TimeInv

\* A deadline that has been set to an interval ahead is ahead.
LEMMA SetAhead ==
  ASSUME now \in Clock, UNCHANGED now, quiet' = 0,
         NEW bound \in 1..(Half - 1), NEW a \in 1..bound, NEW t, t = At(a)
  PROVE  \E b \in 1..bound : (t = now' + b \/ t = now' + b - Wrap) /\ b + quiet' <= bound
<1>1. a \in 0..(Wrap - 1)
  BY TheClock
<1>2. Apart(t, a)
  BY <1>1, AtApart
<1>3. QED
  BY <1>2, TheClock DEF Apart

LEMMA PollsTime ==
  ASSUME Types, Polls, UNCHANGED now
  PROVE  Ahead(nextPoll, PollInterval)'
<1>1. now \in Clock /\ quiet' = 0 /\ nextPoll' = At(PollInterval)
  BY DEF Types, Rest, Polls
<1>2. PollInterval \in 1..(Half - 1) /\ PollInterval \in 1..PollInterval
  BY TheClock
<1>3. \E b \in 1..PollInterval :
        (nextPoll' = now' + b \/ nextPoll' = now' + b - Wrap) /\ b + quiet' <= PollInterval
  BY <1>1, <1>2, SetAhead
<1>4. QED
  BY <1>3 DEF Ahead, Apart

LEMMA SetCheckTime ==
  ASSUME Types, UNCHANGED now, quiet' = 0,
         NEW a \in 1..EnableRetry, nextCheck' = At(a)
  PROVE  Ahead(nextCheck, EnableRetry)'
<1>1. \E b \in 1..EnableRetry :
        (nextCheck' = now' + b \/ nextCheck' = now' + b - Wrap) /\ b + quiet' <= EnableRetry
  BY SetAhead, TheClock DEF Types, Rest
<1>2. QED
  BY <1>1 DEF Ahead, Apart

\* A deadline ahead is not due; the runner runs in time for one behind it.
LEMMA NotDueAhead ==
  ASSUME Types, NEW t \in Clock, NEW bound \in 1..(Half - 1), Ahead(t, bound)
  PROVE  ~Due(t)
<1>1. PICK a \in 1..bound : Apart(t, a)
  BY DEF Ahead
<1>2. a \in 1..(Half - 1)
  BY TheClock
<1>3. QED
  BY <1>1, <1>2, AheadNotDue DEF Types, Rest

LEMMA DueBehind ==
  ASSUME Types, NEW t \in Clock, NEW bound, Behind(t, bound)
  PROVE  Due(t)
<1>1. PICK e \in 0..MaxBlock : Late(t, e)
  BY DEF Behind
<1>2. e \in 0..(Half - 1)
  BY TheClock
<1>3. QED
  BY <1>1, <1>2, LateDue DEF Types, Rest

LEMMA DueWaiting ==
  ASSUME Types, Waiting, ~ran, busy = 0
  PROVE  Due(nextCheck)
<1>1. PICK e \in Ages, s \in Ages :
        Late(nextCheck, e) /\ e <= s + MaxBlock /\ s + busy <= EnableTimeout + MaxBlock
  BY DEF Waiting
<1>2. e \in 0..(Half - 1)
  BY <1>1, TheClock DEF Ages
<1>3. QED
  BY <1>1, <1>2, LateDue DEF Types, Times, Rest

\* A request the pass waits for is as old as its timeout allows.
LEMMA RequestWaitsTime ==
  ASSUME Types, TimeInv, Runner, RequestWaits, started, nextCheck # 0
  PROVE  Waiting'
<1>1. /\ ~powerSeen /\ Due(nextCheck) /\ active /\ pending
      /\ ~(Elapsed(since) > EnableTimeout)
  BY DEF RequestWaits, CheckDue, RequestOpen, RequestFailed, TimedOut
<1>2. /\ UNCHANGED <<now, active, nextCheck, pending, since>>
      /\ ~ran /\ ran' /\ quiet' = 0 /\ busy = 0
  BY DEF Runner, RequestWaits, InLoop, serviceVars, powerVars, modemVars
<1>t. now \in Clock /\ nextCheck \in Clock /\ since \in Clock
  BY DEF Types, Times, Rest
<1>3. /\ Elapsed(since) \in Ages /\ Late(since, Elapsed(since))
      /\ \A s \in Ages : Late(since, s) => Elapsed(since) = s
  BY <1>t, ElapsedLate
<1>4. \E e \in Ages : Late(nextCheck, e) /\ e <= Elapsed(since) + MaxBlock
  <2>1. CASE Ahead(nextCheck, EnableRetry)
    BY <2>1, <1>1, <1>t, NotDueAhead, TheClock
  <2>2. CASE Behind(nextCheck, EnableRetry)
    <3>1. PICK e \in 0..MaxBlock : Late(nextCheck, e)
      BY <2>2 DEF Behind
    <3>2. e \in Ages /\ e <= Elapsed(since) + MaxBlock
      BY <1>3, TheClock DEF Ages
    <3>3. QED
      BY <3>1, <3>2
  <2>3. CASE Waiting
    BY <2>3, <1>1, <1>3 DEF Waiting
  <2>4. QED
    BY <1>1, <2>1, <2>2, <2>3 DEF TimeInv, CheckKept
<1>5. Elapsed(since) <= EnableTimeout
  BY <1>1, <1>3, TheClock DEF Ages
<1> HIDE DEF Elapsed
<1>6. PICK e \in Ages : Late(nextCheck, e) /\ e <= Elapsed(since) + MaxBlock
  BY <1>4
<1>7. PICK s \in Ages : s = Elapsed(since)
  BY <1>3
<1>8. Late(nextCheck, e)' /\ Late(since, s)'
  BY <1>2, <1>3, <1>6, <1>7 DEF Late
<1>9. e <= s + MaxBlock /\ s <= EnableTimeout
  BY <1>5, <1>6, <1>7
<1>10. QED
  BY <1>1, <1>2, <1>8, <1>9 DEF Waiting

LEMMA RunnerTime ==
  ASSUME Types, TimeInv, Runner
  PROVE  TimeInv'
<1>t. now \in Clock /\ nextCheck \in Clock /\ nextPoll \in Clock
  BY DEF Types, Times, Rest
<1>a. started /\ ~ran /\ busy = 0 /\ UNCHANGED <<now, task, busy>>
  BY DEF Runner, InLoop
<1>1. CASE RequestWaits
  <2>1. UNCHANGED <<started, powerSeen, nextPoll, nextCheck>> /\ ~powerSeen
    BY <1>1 DEF RequestWaits, CheckDue, serviceVars, powerVars, pollVars
  <2>2. nextCheck # 0 => Waiting'
    BY <1>1, <1>a, RequestWaitsTime
  <2>3. QED
    BY <1>a, <2>1, <2>2 DEF TimeInv, Idle, PollKept, CheckKept
<1>2. CASE RequestEnds
  <2>1. UNCHANGED <<started, powerSeen, nextPoll>> /\ ~powerSeen
    BY <1>2 DEF RequestEnds, CheckDue, pollVars
  <2>2. EnableRetry \in 1..EnableRetry
    BY TheClock
  <2>3. Ahead(nextCheck, EnableRetry)'
    BY <1>2, <1>a, <2>2, SetCheckTime DEF RequestEnds
  <2>4. QED
    BY <1>a, <2>1, <2>3 DEF TimeInv, Idle, PollKept, CheckKept
<1>3. CASE FindsOff
  <2>1. UNCHANGED <<started, powerSeen, nextPoll>> /\ ~powerSeen
    BY <1>3 DEF FindsOff, CheckDue, pollVars
  <2>2. Recheck \in 1..EnableRetry
    BY TheClock
  <2>3. Ahead(nextCheck, EnableRetry)'
    BY <1>3, <1>a, <2>2, SetCheckTime DEF FindsOff
  <2>4. QED
    BY <1>a, <2>1, <2>3 DEF TimeInv, Idle, PollKept, CheckKept
<1>4. CASE Sees
  <2>1. UNCHANGED started /\ powerSeen' /\ ~powerSeen
    BY <1>4 DEF Sees, CheckDue
  <2>2. nextPoll' = 0 \/ Ahead(nextPoll, PollInterval)'
    BY <1>4, <1>a, <2>1, PollsTime DEF Sees, PollPart, pollVars, TimeInv, Idle
  <2>3. QED
    BY <1>a, <2>1, <2>2 DEF TimeInv, Idle, PollKept, CheckKept
<1>5. CASE PollsAgain
  <2>1. UNCHANGED <<started, powerSeen>> /\ powerSeen
    BY <1>5 DEF PollsAgain, powerVars
  <2>2. Ahead(nextPoll, PollInterval)'
    BY <1>5, <1>a, PollsTime DEF PollsAgain
  <2>3. QED
    BY <1>a, <2>1, <2>2 DEF TimeInv, Idle, PollKept, CheckKept
<1>6. CASE NothingDue
  <2>1. UNCHANGED <<started, powerSeen, nextPoll, nextCheck, quiet>>
    BY <1>6 DEF NothingDue, serviceVars, powerVars, pollVars
  <2>2. powerSeen /\ nextPoll # 0 => Ahead(nextPoll, PollInterval)
    BY <1>6, <1>a, <1>t, DueBehind DEF NothingDue, TimeInv, PollKept
  <2>3. ~powerSeen /\ nextCheck # 0 => Ahead(nextCheck, EnableRetry)
    BY <1>6, <1>a, <1>t, DueBehind, DueWaiting DEF NothingDue, CheckDue, TimeInv, CheckKept
  <2>4. PollKept' /\ CheckKept'
    BY <1>a, <2>1, <2>2, <2>3 DEF PollKept, CheckKept, Ahead, Apart
  <2>5. QED
    BY <1>a, <2>1, <2>4 DEF TimeInv, Idle
<1>7. QED
  BY <1>1, <1>2, <1>3, <1>4, <1>5, <1>6 DEF Runner

LEMMA CommandTime ==
  ASSUME TimeInv, Command
  PROVE  TimeInv'
<1>1. CASE GpsOn
  BY <1>1, BegunTime DEF GpsOn, Free, InLoop
<1>2. CASE GpsOff \/ GpsProve \/ Standby
  BY <1>2, StoppedTime DEF GpsOff, GpsProve, Standby
<1>3. CASE GsmReset \/ GsmProve
  <2>1. UNCHANGED <<now, started, powerSeen, active, nextCheck, nextPoll, quiet, ran, task>>
    BY <1>3 DEF GsmReset, GsmProve, Blocks, serviceVars, powerVars, pollVars
  <2>2. pending' => pending /\ UNCHANGED since
    BY <1>3 DEF GsmReset, GsmProve, NoRequest
  <2>3. started => ran
    BY <1>3 DEF GsmReset, GsmProve, Free
  <2>4. QED
    BY <2>1, <2>2, <2>3, SameTime
<1>4. QED
  BY <1>1, <1>2, <1>3 DEF Command

-----------------------------------------------------------------------------
(* Time passes. *)

\* A unit nearer: a deadline that is one unit ahead is reached.
LEMMA TickAhead ==
  ASSUME Types, Tick, started, NEW t \in Clock, NEW bound \in 1..(Half - 1), bound <= Longest,
         Ahead(t, bound)
  PROVE  \/ \E a \in 1..bound :
              (t = now' + a \/ t = now' + a - Wrap) /\ a + quiet' <= bound
         \/ /\ ~ran' /\ quiet' <= bound
            /\ \E e \in 0..MaxBlock :
                 (now' = t + e \/ now' = t + e - Wrap) /\ e + busy' <= MaxBlock
<1>1. PICK a \in 1..bound : Apart(t, a) /\ a + quiet <= bound
  BY DEF Ahead
<1>2. now \in Clock /\ quiet \in Nat /\ busy \in 0..MaxBlock
  BY TheClock DEF Types, Rest
<1>3. now' = IF now + 1 < Wrap THEN now + 1 ELSE 0
  BY <1>2, OneOn DEF Tick
<1>4. quiet' \in {quiet, quiet + 1} /\ ~ran'
  BY DEF Tick
<1>5. busy' \in 0..MaxBlock
  BY <1>2, TheClock DEF Tick
<1>6. CASE a = 1
  <2>1. now' = t
    BY <1>1, <1>2, <1>3, <1>6, TheClock DEF Apart, Clock
  <2>2. quiet' <= bound
    BY <1>1, <1>2, <1>4, <1>6
  <2>3. 0 \in 0..MaxBlock /\ 0 + busy' <= MaxBlock
    <3>1. 0 \in 0..MaxBlock /\ \A b \in 0..MaxBlock : 0 + b <= MaxBlock
      BY TheClock
    <3>2. QED
      BY <1>5, <3>1, Zenon
  <2>4. now' = t + 0
    BY <2>1, TheClock DEF Clock
  <2>5. QED
    BY <1>4, <2>2, <2>3, <2>4
<1>7. CASE a # 1
  <2>1. a - 1 \in 1..bound
    BY <1>7, TheClock
  <2>2. (a - 1) + quiet' <= bound
    <3>1. CASE quiet' = quiet
      BY <1>1, <1>2, <3>1, TheClock
    <3>2. CASE quiet' = quiet + 1
      BY <1>1, <1>2, <3>2, TheClock
    <3>3. QED
      BY <1>4, <3>1, <3>2
  <2>3. t = now' + (a - 1) \/ t = now' + (a - 1) - Wrap
    BY <1>1, <1>2, <1>3, TheClock DEF Apart, Clock
  <2>4. QED
    BY <2>1, <2>2, <2>3
<1>8. QED
  BY <1>6, <1>7

\* The task is still blocked behind a deadline that has passed.
LEMMA TickBehind ==
  ASSUME Types, Tick, started, NEW t \in Clock, NEW bound, Behind(t, bound)
  PROVE  /\ ~ran' /\ quiet' <= bound
         /\ \E e \in 0..MaxBlock :
              (now' = t + e \/ now' = t + e - Wrap) /\ e + busy' <= MaxBlock
<1>1. PICK e \in 0..MaxBlock : Late(t, e) /\ e + busy <= MaxBlock
  BY DEF Behind
<1>2. now \in Clock /\ busy \in 0..MaxBlock /\ busy > 0 /\ ~ran'
  BY TheClock DEF Types, Rest, Tick, Behind
<1>3. now' = IF now + 1 < Wrap THEN now + 1 ELSE 0
  BY <1>2, OneOn DEF Tick
<1>4. busy' = busy - 1 /\ quiet' = quiet
  BY <1>2 DEF Tick
<1>5. e + 1 \in 0..MaxBlock /\ (e + 1) + busy' <= MaxBlock
  BY <1>1, <1>2, <1>4, TheClock
<1>6. now' = t + (e + 1) \/ now' = t + (e + 1) - Wrap
  BY <1>1, <1>2, <1>3, <1>5, TheClock DEF Late, Clock
<1>7. QED
  BY <1>2, <1>4, <1>5, <1>6 DEF Behind

LEMMA TickWaiting ==
  ASSUME Types, Tick, started, Waiting
  PROVE  Waiting'
<1>1. PICK e \in Ages, s \in Ages :
        /\ Late(nextCheck, e) /\ (pending => Late(since, s))
        /\ e <= s + MaxBlock
        /\ \/ ran /\ s <= EnableTimeout /\ quiet = 0
           \/ ~ran /\ s + busy <= EnableTimeout + MaxBlock /\ quiet <= 1
  BY DEF Waiting
<1>2. /\ now \in Clock /\ nextCheck \in Clock /\ since \in Clock
      /\ busy \in 0..MaxBlock /\ quiet \in Nat
  BY TheClock DEF Types, Times, Rest
<1>3. now' = IF now + 1 < Wrap THEN now + 1 ELSE 0
  BY <1>2, OneOn DEF Tick
<1>4. /\ UNCHANGED <<active, pending, nextCheck, since>> /\ ~ran'
      /\ (busy > 0 /\ busy' = busy - 1 /\ quiet' = quiet)
           \/ (busy = 0 /\ ran /\ busy' = 0 /\ quiet' \in {quiet, quiet + 1})
  BY <1>2 DEF Tick, serviceVars, powerVars, modemVars
<1>5. /\ s + 1 \in Ages /\ e + 1 \in Ages /\ e + 1 <= (s + 1) + MaxBlock
      /\ (s + 1) + busy' <= EnableTimeout + MaxBlock /\ quiet' <= 1
  BY <1>1, <1>2, <1>4, TheClock DEF Ages
<1>6. now' = nextCheck + (e + 1) \/ now' = nextCheck + (e + 1) - Wrap
  BY <1>1, <1>2, <1>3, <1>5, TheClock DEF Late, Clock, Ages
<1>7. pending => now' = since + (s + 1) \/ now' = since + (s + 1) - Wrap
  BY <1>1, <1>2, <1>3, <1>5, TheClock DEF Late, Clock, Ages
<1>8. active'
  BY <1>4 DEF Waiting
<1>9. PICK f \in Ages, r \in Ages : f = e + 1 /\ r = s + 1
  BY <1>5
<1>10. Late(nextCheck, f)' /\ (pending => Late(since, r))'
  BY <1>4, <1>6, <1>7, <1>9 DEF Late
<1>11. f <= r + MaxBlock /\ r + busy' <= EnableTimeout + MaxBlock /\ quiet' <= 1
  BY <1>5, <1>9
<1>12. QED
  BY <1>4, <1>8, <1>10, <1>11 DEF Waiting

LEMMA TickTime ==
  ASSUME Types, TimeInv, Tick
  PROVE  TimeInv'
<1>1. UNCHANGED <<started, powerSeen, nextCheck, nextPoll, task>>
  BY DEF Tick, serviceVars, powerVars, pollVars
<1>t. nextCheck \in Clock /\ nextPoll \in Clock
  BY DEF Types, Times
<1>2. Idle'
  BY <1>1 DEF TimeInv, Idle, Tick
<1>3. PollKept'
  <2> SUFFICES ASSUME started, powerSeen, nextPoll # 0
               PROVE  (Ahead(nextPoll, PollInterval) \/ Behind(nextPoll, PollInterval))'
    BY <1>1 DEF PollKept
  <2>1. CASE Ahead(nextPoll, PollInterval)
    BY <2>1, <1>1, <1>t, TickAhead, TheClock DEF Ahead, Behind, Apart, Late
  <2>2. CASE Behind(nextPoll, PollInterval)
    BY <2>2, <1>1, <1>t, TickBehind DEF Behind, Late
  <2>3. QED
    BY <2>1, <2>2 DEF TimeInv, PollKept
<1>4. CheckKept'
  <2> SUFFICES ASSUME started, ~powerSeen, nextCheck # 0
               PROVE  (Ahead(nextCheck, EnableRetry) \/ Behind(nextCheck, EnableRetry)
                         \/ Waiting)'
    BY <1>1 DEF CheckKept
  <2>1. CASE Ahead(nextCheck, EnableRetry)
    BY <2>1, <1>1, <1>t, TickAhead, TheClock DEF Ahead, Behind, Apart, Late
  <2>2. CASE Behind(nextCheck, EnableRetry)
    BY <2>2, <1>1, <1>t, TickBehind DEF Behind, Late
  <2>3. CASE Waiting
    BY <2>3, TickWaiting
  <2>4. QED
    BY <2>1, <2>2, <2>3 DEF TimeInv, CheckKept
<1>5. QED
  BY <1>2, <1>3, <1>4 DEF TimeInv

LEMMA NextTime == Types /\ TimeInv /\ [Next]_vars => TimeInv'
<1> SUFFICES ASSUME Types, TimeInv, [Next]_vars PROVE TimeInv'
  OBVIOUS
<1>1. CASE Runner
  BY <1>1, RunnerTime
<1>2. CASE Command
  BY <1>2, CommandTime
<1>3. CASE ProofEnds
  BY <1>3, BegunTime DEF ProofEnds
<1>4. CASE WakeUp
  <2>1. CASE GpsAutostart
    BY <1>4, <2>1, BegunTime DEF WakeUp
  <2>2. CASE ~GpsAutostart
    BY <1>4, <2>2 DEF WakeUp, TimeInv, Idle, PollKept, CheckKept
  <2>3. QED
    BY <2>1, <2>2
<1>5. CASE SwitchesOn \/ Refuses \/ OtherAt
  BY <1>5, SameTime DEF SwitchesOn, Refuses, OtherAt, serviceVars, powerVars, pollVars, taskVars
<1>6. CASE Tick
  BY <1>6, TickTime
<1>7. CASE UNCHANGED vars
  BY <1>7, SameTime DEF vars, serviceVars, powerVars, pollVars, modemVars, taskVars
<1>8. QED
  BY <1>1, <1>2, <1>3, <1>4, <1>5, <1>6, <1>7 DEF Next, Task

LEMMA TimeKept == Types /\ TimeInv => RunnerKeepsTime
<1> SUFFICES ASSUME Types, TimeInv, quiet > Longest
             PROVE  IF powerSeen THEN nextPoll = 0 ELSE nextCheck = 0
  BY DEF RunnerKeepsTime
<1>1. quiet \in Nat
  BY TheClock DEF Types, Rest
<1>2. started
  BY <1>1, TheClock DEF TimeInv, Idle
<1>3. ~Ahead(nextPoll, PollInterval) /\ ~Ahead(nextCheck, EnableRetry)
  BY <1>1, TheClock DEF Ahead
<1>4. ~Behind(nextPoll, PollInterval) /\ ~Behind(nextCheck, EnableRetry)
  BY <1>1, TheClock DEF Behind
<1>5. ~Waiting
  BY <1>1, TheClock DEF Waiting
<1>6. QED
  BY <1>2, <1>3, <1>4, <1>5 DEF TimeInv, PollKept, CheckKept

\* Across the wrap of millis(), behind commands that block and requests the modem never
\* answers, the runner does something again within the longer of its intervals, as long
\* as it set its deadline itself (GpsBufferedService::runner, pollGpsEnableRequest).
THEOREM KeepsTime == Spec => []RunnerKeepsTime
<1>1. Init => Types /\ TimeInv
  BY InitTypes, InitTime
<1>2. (Types /\ TimeInv) /\ [Next]_vars => (Types /\ TimeInv)'
  BY NextTypes, NextTime
<1>3. QED
  BY <1>1, <1>2, TimeKept, PTL DEF Spec

=============================================================================
