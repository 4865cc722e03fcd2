------------------------------ MODULE GpsRunner ------------------------------
(***************************************************************************)
(* GpsBufferedService::runner, the enable request it has the modem driver  *)
(* carry out, and whatever happens to the receiver meanwhile: console      *)
(* commands, standby, resets of the modem, and AT commands of other parts  *)
(* that share its UART.                                                    *)
(*                                                                         *)
(* millis() wraps: now is a clock modulo Wrap, and deadlines are compared  *)
(* as the code does, by a signed difference.  Bound: a time that nothing   *)
(* reads before it is set again is kept at 0.                              *)
(***************************************************************************)
EXTENDS Integers

CONSTANTS
  Wrap,           \* 2^32 milliseconds
  EnableRetry,    \* enableRetryMs_
  PollInterval,   \* pollIntervalMs_
  Recheck,        \* 250 ms, after a request
  EnableTimeout,  \* 30 s, in pollGpsEnableRequest
  FirstColdStart, \* FIRST_COLD_START_AFTER_MS
  ColdStartRetry, \* COLD_START_RETRY_MS
  MaxBlock,       \* bound: longest command or sleep
  GpsAutostart    \* TCALL_GPS_AUTOSTART

Half == Wrap \div 2
Clock == 0..(Wrap - 1)

ASSUME ClockAssumption ==
  /\ Wrap \in Nat /\ Wrap % 2 = 0
  /\ {EnableRetry, PollInterval, Recheck} \subseteq 1..(Half - 1)
  /\ Recheck <= EnableRetry
  /\ {EnableTimeout, FirstColdStart, ColdStartRetry} \subseteq Nat
  /\ MaxBlock \in Nat \ {0} /\ EnableTimeout + 2 * MaxBlock < Half
  /\ EnableRetry + MaxBlock < Half /\ PollInterval + MaxBlock < Half
  /\ GpsAutostart \in BOOLEAN

VARIABLES
  now,         \* millis()
  \* GpsBufferedService
  started,
  powerSeen,   \* gpsPowerSeen_
  attempted,   \* enableAttempted_
  active,      \* enableRequestActive_
  startedMs,
  nextCheck,   \* nextEnableCheckMs_
  nextPoll,    \* nextPollMs_
  hot,         \* hotStartRequested_
  lastCold,    \* lastColdStartMs_
  hasFix,      \* gps_.hasFix
  \* TCallA7670Modem
  pending,     \* gpsEnablePending
  since,       \* gpsEnableStartMs
  \* the modem and its UART
  on,          \* the receiver is powered
  asked,       \* the modem is working on AT+CGNSSPWR=1
  answer,      \* what waits in the UART, or in gpsEnableResponse
  \* the loop task
  task,        \* in loop(), in "gps prove", or in standby
  busy,        \* units until the blocking call the task is in returns
  ran,         \* the runner ran in this unit
  \* history
  deceived,    \* since the last stop a command switched the receiver off behind the
               \* service, or the answer to another AT command was taken for its own
  quiet        \* units the started runner has had nothing to say to the modem

powerVars == <<powerSeen, attempted, active, nextCheck>>
pollVars == <<nextPoll, hot, lastCold, hasFix>>
serviceVars == <<started, startedMs, powerVars, pollVars>>
modemVars == <<pending, since, on, asked, answer>>
taskVars == <<task, busy, ran>>
vars == <<now, serviceVars, modemVars, taskVars, deceived, quiet>>

-----------------------------------------------------------------------------
(* The clock. *)

Elapsed(t) == (now - t) % Wrap

\* (Mutant: a deadline wider than the clock.)
MutAt(interval) == now + interval

At(interval) == (now + interval) % Wrap

\* (Mutant: deadlines are compared as they are.)
MutDue(t) == now >= t

\* static_cast<int32_t>(now - t) >= 0
Due(t) == Elapsed(t) < Half

-----------------------------------------------------------------------------
(* begin and stop. *)

\* begin leaves gpsPowerSeen_ and the cached fix alone, and sets the deadlines to 0.
Begun ==
  /\ started' = TRUE /\ startedMs' = now
  /\ nextPoll' = 0 /\ nextCheck' = 0 /\ lastCold' = 0
  /\ hot' = FALSE /\ attempted' = FALSE /\ active' = FALSE
  /\ quiet' = 0

\* (Mutant: the power flag survives.)
MutPowerForgotten == powerSeen

PowerForgotten == FALSE

Stopped ==
  /\ started' = FALSE /\ powerSeen' = PowerForgotten
  /\ attempted' = FALSE /\ active' = FALSE /\ hot' = FALSE /\ lastCold' = 0
  /\ startedMs' = 0 /\ nextPoll' = 0 /\ nextCheck' = 0
  /\ UNCHANGED hasFix
  /\ quiet' = 0

\* The driver forgets its request, and what the UART holds: the next request empties it.
NoRequest == pending' = FALSE /\ since' = 0 /\ answer' = "none"

Init ==
  /\ now \in 0..MaxBlock
  /\ started = GpsAutostart /\ startedMs = IF GpsAutostart THEN now ELSE 0
  /\ powerSeen = FALSE /\ attempted = FALSE /\ active = FALSE
  /\ nextCheck = 0 /\ nextPoll = 0 /\ hot = FALSE /\ lastCold = 0 /\ hasFix = FALSE
  /\ pending = FALSE /\ since = 0
  /\ on = FALSE /\ asked = FALSE /\ answer = "none"
  /\ task = "loop" /\ busy = 0 /\ ran = FALSE
  /\ deceived = FALSE /\ quiet = 0

-----------------------------------------------------------------------------
(* The modem. *)

Heard(a) == IF pending THEN a ELSE "none"

\* It obeys, and says so.
SwitchesOn ==
  /\ asked
  /\ on' = TRUE /\ asked' = FALSE /\ answer' = Heard("ok")
  /\ UNCHANGED <<now, serviceVars, pending, since, taskVars, deceived, quiet>>

Refuses ==
  /\ asked
  /\ asked' = FALSE /\ answer' = Heard("error")
  /\ UNCHANGED <<now, serviceVars, pending, since, on, taskVars, deceived, quiet>>

\* Any other AT command empties the UART, and its own answer may come late.
OtherAt ==
  /\ pending /\ busy = 0
  /\ answer' \in {"none", "ok", "error"}
  /\ deceived' = (deceived \/ (answer # "ok" /\ answer' = "ok"))
  /\ UNCHANGED <<now, serviceVars, pending, since, on, asked, taskVars, quiet>>

\* A query of the receiver's power may fail.
SaysOn == {on, FALSE}

-----------------------------------------------------------------------------
(* The runner. *)

InLoop == task = "loop" /\ busy = 0

CheckDue == ~powerSeen /\ Due(nextCheck)

TimedOut == pending /\ Elapsed(since) > EnableTimeout

\* (Mutant: a request that the modem never answers is never given up.)
MutRequestFailed == pending /\ answer = "error"

\* pollGpsEnableRequest: done, and refused.
RequestFailed == pending /\ answer # "ok" /\ (answer = "error" \/ TimedOut)

RequestOpen == pending /\ answer # "ok" /\ ~RequestFailed

\* The pass returns early.
RequestWaits ==
  /\ CheckDue /\ active /\ RequestOpen
  /\ quiet' = 0
  /\ UNCHANGED <<serviceVars, modemVars>>

\* Refused, too late, or no request is pending any more and the receiver is off.
RequestEnds ==
  /\ CheckDue /\ active
  /\ RequestFailed \/ (~pending /\ FALSE \in SaysOn)
  /\ active' = FALSE /\ attempted' = FALSE
  /\ nextCheck' = At(EnableRetry)
  /\ NoRequest
  /\ quiet' = 0
  /\ UNCHANGED <<started, startedMs, powerSeen, pollVars, on, asked>>

\* startGpsEnableRequest asks, unless it finds the receiver on.
Requested ==
  \/ TRUE \in SaysOn /\ UNCHANGED modemVars
  \/ /\ FALSE \in SaysOn
     /\ pending' = TRUE /\ since' = now
     /\ asked' = TRUE /\ answer' = "none"
     /\ UNCHANGED on

FindsOff ==
  /\ CheckDue /\ ~active /\ FALSE \in SaysOn
  /\ IF attempted THEN UNCHANGED <<attempted, active, modemVars>>
     ELSE attempted' = TRUE /\ active' = TRUE /\ Requested
  /\ nextCheck' = At(Recheck)
  /\ quiet' = 0
  /\ UNCHANGED <<started, startedMs, powerSeen, pollVars>>

\* (Mutant: the time of the last cold start is compared as a deadline of begin.)
MutColdStartDue ==
  /\ ~hasFix /\ Elapsed(startedMs) >= FirstColdStart
  /\ lastCold <= startedMs

ColdStartDue ==
  /\ ~hasFix /\ Elapsed(startedMs) >= FirstColdStart
  /\ lastCold = 0 \/ Elapsed(lastCold) >= ColdStartRetry

\* A receiver that is on answers with a fix, without one, or not at all.
Polls ==
  /\ Due(nextPoll)
  /\ hot' = TRUE
  /\ lastCold' \in IF ColdStartDue THEN {now, lastCold} ELSE {lastCold}
  /\ nextPoll' = At(PollInterval)
  /\ hasFix' \in IF on THEN BOOLEAN ELSE {hasFix}
  /\ quiet' = 0

\* The poll part of a pass, and the power it just saw.
PollPart == Polls \/ (~Due(nextPoll) /\ UNCHANGED pollVars)

\* The request is answered with OK, or a query finds the receiver on.
Sees ==
  /\ CheckDue
  /\ IF active THEN (pending /\ answer = "ok") \/ (~pending /\ TRUE \in SaysOn)
               ELSE TRUE \in SaysOn
  /\ powerSeen' = TRUE /\ active' = FALSE
  /\ IF active THEN NoRequest ELSE UNCHANGED <<pending, since, answer>>
  /\ nextCheck' = 0
  /\ PollPart /\ quiet' = 0
  /\ UNCHANGED <<started, startedMs, attempted, on, asked>>

PollsAgain ==
  /\ powerSeen /\ Polls
  /\ UNCHANGED <<started, startedMs, powerVars, modemVars>>

NothingDue ==
  /\ ~CheckDue /\ ~(powerSeen /\ Due(nextPoll))
  /\ UNCHANGED <<serviceVars, modemVars, quiet>>

Runner ==
  /\ InLoop /\ started /\ ~ran
  /\ RequestWaits \/ RequestEnds \/ FindsOff \/ Sees \/ PollsAgain \/ NothingDue
  /\ ran' = TRUE
  /\ UNCHANGED <<now, task, busy, deceived>>

-----------------------------------------------------------------------------
(* Commands and standby, which block the loop task. *)

\* Bound: the runner runs between two commands that take time.
Free == InLoop /\ (started => ran)

Blocks == busy' \in 0..MaxBlock /\ UNCHANGED <<now, ran>>

\* "gps on": begin, then enableGps, which may fail.
GpsOn ==
  /\ Free
  /\ Begun
  /\ on' \in {on, TRUE}
  /\ Blocks
  /\ UNCHANGED <<powerSeen, hasFix, pending, since, asked, answer, task, deceived>>

\* disableGps ends a request the modem is still working on.
SwitchedOff ==
  on' = FALSE /\ asked' = FALSE /\ answer' = "none"

\* "gps off": stop, then disableGps, which may fail.
GpsOff ==
  /\ Free
  /\ Stopped
  /\ SwitchedOff \/ UNCHANGED <<on, asked, answer>>
  /\ deceived' = FALSE
  /\ Blocks
  /\ UNCHANGED <<pending, since, task>>

\* "gps prove": stop and enableGps, the proof, begin.
GpsProve ==
  /\ Free
  /\ Stopped
  /\ on' \in {on, TRUE}
  /\ deceived' = FALSE
  /\ task' = "prove"
  /\ Blocks
  /\ UNCHANGED <<pending, since, asked, answer>>

ProofEnds ==
  /\ task = "prove" /\ busy = 0
  /\ Begun
  /\ task' = "loop"
  /\ UNCHANGED <<now, powerSeen, hasFix, modemVars, busy, ran, deceived>>

\* "gsm reset", or a "gsm prove" that restarts the modem.
GsmReset ==
  /\ Free
  /\ NoRequest /\ on' = FALSE /\ asked' = FALSE
  /\ deceived' = (deceived \/ powerSeen)
  /\ Blocks
  /\ UNCHANGED <<serviceVars, task, quiet>>

\* "gsm prove" switches the receiver off.
GsmProve ==
  /\ Free
  /\ SwitchedOff
  /\ deceived' = (deceived \/ powerSeen)
  /\ Blocks
  /\ UNCHANGED <<serviceVars, pending, since, task, quiet>>

\* enterTimedStandby; disableGps may fail here too.
Standby ==
  /\ Free
  /\ Stopped
  /\ NoRequest /\ on' \in {on, FALSE} /\ asked' = FALSE
  /\ deceived' = FALSE
  /\ task' = "standby" /\ busy' \in 1..MaxBlock
  /\ UNCHANGED <<now, ran>>

\* restoreAwakePeripherals.
WakeUp ==
  /\ task = "standby" /\ busy = 0
  /\ IF GpsAutostart THEN Begun ELSE UNCHANGED <<started, startedMs, nextPoll, nextCheck,
                                                lastCold, hot, attempted, active, quiet>>
  /\ task' = "loop"
  /\ UNCHANGED <<now, powerSeen, hasFix, modemVars, busy, ran, deceived>>

Command ==
  \/ GpsOn \/ GpsOff \/ GpsProve \/ GsmReset \/ GsmProve \/ Standby

-----------------------------------------------------------------------------

\* The bound the intervals set.
Longest == IF EnableRetry > PollInterval THEN EnableRetry ELSE PollInterval

\* A unit passes: the task is blocked, or the runner has run.
Tick ==
  /\ busy > 0 \/ (task = "loop" /\ (ran \/ ~started))
  /\ now' = At(1)
  /\ busy' = IF busy > 0 THEN busy - 1 ELSE 0
  /\ ran' = FALSE
  /\ quiet' = IF started /\ task = "loop" /\ busy = 0
                THEN IF quiet > Longest THEN quiet ELSE quiet + 1 ELSE quiet
  /\ UNCHANGED <<serviceVars, modemVars, task, deceived>>

Task == Runner \/ ProofEnds \/ WakeUp

Next == Task \/ Command \/ SwitchesOn \/ Refuses \/ OtherAt \/ Tick

Spec == Init /\ [][Next]_vars

\* The loop task goes on, time passes, and the modem, asked again and again, carries a
\* request out, has its answer read and does a cold start.
FairSpec ==
  /\ Spec
  /\ WF_vars(Task) /\ SF_vars(Tick) /\ SF_vars(SwitchesOn)
  /\ SF_vars(Runner /\ Sees) /\ SF_vars(Runner /\ lastCold' # lastCold)

-----------------------------------------------------------------------------
(* Properties. *)

\* Every variable has its type.
TypeOK ==
  /\ now \in Clock
  /\ {started, powerSeen, attempted, active, hot, hasFix} \subseteq BOOLEAN
  /\ {startedMs, nextCheck, nextPoll, lastCold, since} \subseteq Clock
  /\ {pending, on, asked, ran, deceived} \subseteq BOOLEAN
  /\ answer \in {"none", "ok", "error"}
  /\ task \in {"loop", "prove", "standby"} /\ busy \in 0..MaxBlock
  /\ quiet \in 0..(Longest + 1)

\* The service believes a receiver on that is off only after a command switched it off
\* behind its back or an answer was mixed up (gpsPowerSeen_).
SeenIsOn == powerSeen /\ ~on => deceived

\* A runner that has set its deadline itself is never silent for longer than its
\* intervals, across the wrap of the clock and behind blocking commands.  Only the 0 that
\* begin sets may lie half a clock ahead.
RunnerKeepsTime ==
  quiet > Longest => IF powerSeen THEN nextPoll = 0 ELSE nextCheck = 0

\* A receiver that stays without a fix is cold started again and again, although both
\* tests are differences that start over when the clock wraps.
ColdStartsGoOn ==
  <>[][~Command]_vars /\ <>[](started /\ powerSeen /\ ~hasFix)
    => []<><<lastCold' # lastCold>>_vars

\* A started service, once the commands stop and nothing deceived it, has the receiver
\* on and polls it again and again, after requests that fail, are refused or time out,
\* and across the wrap of the clock.
ReceiverComesUp ==
  <>[][~Command]_vars /\ <>[](started /\ ~deceived) => <>[](on /\ powerSeen)

=============================================================================
