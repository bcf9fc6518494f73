---------------------------- MODULE ReportDispatch ----------------------------
(***************************************************************************)
(* reporting-svc's scheduler.  Every minute a tick selects the schedules   *)
(* and, for each that is due, makes a report, mails it to one recipient    *)
(* after another and then advances last_run_at.  What throws there is      *)
(* caught and the loop goes on; a cron expression that does not parse      *)
(* throws before that and ends the tick.  The timer does not wait for the  *)
(* tick before.                                                            *)
(***************************************************************************)
EXTENDS Naturals, FiniteSets

CONSTANTS
    Schedules,
    Fires,       \* the minutes each cron expression fires at
    Unparsable,  \* the schedules whose cron_expr, which may be any text, does not parse
    Recipients,  \* how many recipients each schedule has; they are mailed in order
    Unset,
    MaxTime,     \* bound: the last minute
    MaxFaults,   \* bound: statements, generations and mails that fail
    MaxRestarts  \* bound: restarts of reporting-svc

ASSUME DispatchAssumption ==
    /\ MaxTime \in Nat /\ MaxFaults \in Nat /\ MaxRestarts \in Nat /\ Recipients \in Nat
    /\ Fires \in [Schedules -> SUBSET (1..MaxTime)]
    /\ Unparsable \subseteq Schedules /\ \A s \in Unparsable : Fires[s] = {}
    /\ Unset \notin Schedules \cup 0..MaxTime

Ticks == 1..MaxTime   \* a tick is named by its minute, its `now`

VARIABLES
    clock,
    lastRun,         \* last_run_at of each schedule
    reports,         \* the status of the report each tick made for each schedule
    mails,           \* <<s, i, t>>: recipient i of s was mailed the report of tick t
    tick,            \* where each tick stands
    faults, restarts,
    \* History:
    lastTick,        \* the minute of the last tick
    cutShort,        \* <<s, t>>: tick t was broken off when it had s in hand or still to handle
    ticksOverlapped  \* whether two ticks have been under way at once

dispatchVars ==
    <<clock, lastRun, reports, mails, tick, faults, restarts, lastTick, cutShort, ticksOverlapped>>

Status == {"none", "PENDING", "COMPLETE", "FAILED"}
NotRunning == [at |-> "none", todo |-> {}, schedule |-> Unset, to |-> 0]
Row == [schedule : Schedules, last : 0..MaxTime \cup {Unset}]

DispatchTypeOK ==
    /\ clock \in 0..MaxTime
    /\ lastRun \in [Schedules -> Ticks \cup {Unset}]
    /\ reports \in [Schedules \X Ticks -> Status]
    /\ mails \subseteq Schedules \X (1..Recipients) \X Ticks
    /\ tick \in [Ticks -> [at : {"none", "pick", "create", "generate", "deliver", "stamp"}, todo : SUBSET Row,
                           schedule : Schedules \cup {Unset}, to : 0..Recipients]]
    /\ faults \in 0..MaxFaults /\ restarts \in 0..MaxRestarts
    /\ lastTick \in 0..clock
    /\ cutShort \subseteq Schedules \X Ticks /\ ticksOverlapped \in BOOLEAN

DispatchInit ==
    /\ clock = 0
    /\ lastRun = [s \in Schedules |-> Unset]
    /\ reports = [st \in Schedules \X Ticks |-> "none"]
    /\ mails = {}
    /\ tick = [t \in Ticks |-> NotRunning]
    /\ faults = 0 /\ restarts = 0
    /\ lastTick = 0
    /\ cutShort = {} /\ ticksOverlapped = FALSE

Running == {t \in Ticks : tick[t] # NotRunning}

------------------------------------------------------------------------------
\* The timer: a minute passes, and a tick selects the active schedules.
Tick ==
    /\ clock < MaxTime
    /\ clock' = clock + 1
    /\ tick' = [tick EXCEPT ![clock + 1] =
          [NotRunning EXCEPT !.at = "pick",
             !.todo = {[schedule |-> s, last |-> lastRun[s]] : s \in Schedules}]]
    /\ lastTick' = clock + 1
    /\ ticksOverlapped' = (ticksOverlapped \/ Running # {})
    /\ UNCHANGED <<lastRun, reports, mails, faults, restarts, cutShort>>

\* A minute in which reporting-svc is not there to tick, or the SELECT throws.
Down ==
    /\ clock < MaxTime
    /\ \/ Running = {} /\ UNCHANGED faults
       \/ faults < MaxFaults /\ faults' = faults + 1
    /\ clock' = clock + 1
    /\ UNCHANGED <<lastRun, reports, mails, tick, restarts, lastTick, cutShort, ticksOverlapped>>

\* Bug: a fire at the last run counts again.
IsDueAgain(s, last, now) == last = Unset \/ \E f \in Fires[s] : last <= f /\ f <= now

\* The next fire after the last run has come.
IsDue(s, last, now) == last = Unset \/ \E f \in Fires[s] : last < f /\ f <= now

\* What is left of a tick once it is done with a schedule.
Rest(todo) == IF todo = {} THEN NotRunning ELSE [NotRunning EXCEPT !.at = "pick", !.todo = todo]
NextSchedule(t) == [tick EXCEPT ![t] = Rest(tick[t].todo)]

\* The loop takes a schedule as it was selected and skips it when it is not due.
Pick(t) ==
    /\ tick[t].at = "pick"
    /\ \E row \in {row \in tick[t].todo : row.schedule \notin Unparsable} :
          LET rest == tick[t].todo \ {row}
          IN  tick' = [tick EXCEPT ![t] =
                  IF IsDue(row.schedule, row.last, t)
                  THEN [NotRunning EXCEPT !.at = "create", !.todo = rest, !.schedule = row.schedule]
                  ELSE Rest(rest)]
    /\ UNCHANGED <<clock, lastRun, reports, mails, faults, restarts, lastTick, cutShort, ticksOverlapped>>

\* What a tick has in hand and has still to handle.
Pending(t) == ({tick[t].schedule} \ {Unset}) \cup {row.schedule : row \in tick[t].todo}

\* isDue is called before the try: parseExpression throws, and with it the tick.
PickThrows(t) ==
    /\ tick[t].at = "pick"
    /\ \E row \in tick[t].todo : row.schedule \in Unparsable
    /\ tick' = [tick EXCEPT ![t] = NotRunning]
    /\ cutShort' = cutShort \cup Pending(t) \X {t}
    /\ UNCHANGED <<clock, lastRun, reports, mails, faults, restarts, lastTick, ticksOverlapped>>

CreatePending(t) ==
    /\ tick[t].at = "create"
    /\ reports' = [reports EXCEPT ![<<tick[t].schedule, t>>] = "PENDING"]
    /\ tick' = [tick EXCEPT ![t].at = "generate"]
    /\ UNCHANGED <<clock, lastRun, mails, faults, restarts, lastTick, cutShort, ticksOverlapped>>

Generate(t) ==
    /\ tick[t].at = "generate"
    /\ reports' = [reports EXCEPT ![<<tick[t].schedule, t>>] = "COMPLETE"]
    /\ tick' = [tick EXCEPT ![t].at = IF Recipients = 0 THEN "stamp" ELSE "deliver",
                            ![t].to = IF Recipients = 0 THEN 0 ELSE 1]
    /\ UNCHANGED <<clock, lastRun, mails, faults, restarts, lastTick, cutShort, ticksOverlapped>>

Deliver(t) ==
    /\ tick[t].at = "deliver"
    /\ mails' = mails \cup {<<tick[t].schedule, tick[t].to, t>>}
    /\ tick' = IF tick[t].to = Recipients
               THEN [tick EXCEPT ![t].at = "stamp"]
               ELSE [tick EXCEPT ![t].to = @ + 1]
    /\ UNCHANGED <<clock, lastRun, reports, faults, restarts, lastTick, cutShort, ticksOverlapped>>

\* last_run_at is set to the minute the tick began at.
Stamp(t) ==
    /\ tick[t].at = "stamp"
    /\ lastRun' = [lastRun EXCEPT ![tick[t].schedule] = t]
    /\ tick' = NextSchedule(t)
    /\ UNCHANGED <<clock, reports, mails, faults, restarts, lastTick, cutShort, ticksOverlapped>>

\* Bug: the catch stamps the schedule as if it had been delivered.
FailAndStamp(t) ==
    /\ tick[t].at \in {"create", "generate", "deliver", "stamp"}
    /\ faults < MaxFaults
    /\ faults' = faults + 1
    /\ lastRun' = [lastRun EXCEPT ![tick[t].schedule] = t]
    /\ tick' = NextSchedule(t)
    /\ cutShort' = cutShort \cup {<<tick[t].schedule, t>>}
    /\ UNCHANGED <<clock, reports, mails, restarts, lastTick, ticksOverlapped>>

\* Anything throws: the error is reported and the loop goes on with the next
\* schedule.  generateReport marks the report FAILED first, if it can.
TickFails(t) ==
    /\ tick[t].at \in {"create", "generate", "deliver", "stamp"}
    /\ faults < MaxFaults
    /\ faults' = faults + 1
    /\ \/ /\ tick[t].at = "generate"
          /\ reports' = [reports EXCEPT ![<<tick[t].schedule, t>>] = "FAILED"]
       \/ UNCHANGED reports
    /\ tick' = NextSchedule(t)
    /\ cutShort' = cutShort \cup {<<tick[t].schedule, t>>}
    /\ UNCHANGED <<clock, lastRun, mails, restarts, lastTick, ticksOverlapped>>

Restart ==
    /\ Running # {}
    /\ restarts < MaxRestarts
    /\ restarts' = restarts + 1
    /\ tick' = [t \in Ticks |-> NotRunning]
    /\ cutShort' = cutShort \cup UNION {Pending(t) \X {t} : t \in Running}
    /\ UNCHANGED <<clock, lastRun, reports, mails, faults, lastTick, ticksOverlapped>>

HandleSchedule(t) ==
    Pick(t) \/ PickThrows(t) \/ CreatePending(t) \/ Generate(t) \/ Deliver(t) \/ Stamp(t) \/ TickFails(t)

DispatchNext == Tick \/ Down \/ Restart \/ \E t \in Ticks : HandleSchedule(t)

DispatchSpec == DispatchInit /\ [][DispatchNext]_dispatchVars

------------------------------------------------------------------------------
\* Every recipient of s has mail from minute f or later.
MailedSince(s, f) == \A i \in 1..Recipients : \E t \in f..MaxTime : <<s, i, t>> \in mails

\* Whatever fails, crashes or overlaps, a schedule whose last_run_at is past a
\* firing has mailed every recipient a finished report at that firing or after; and
\* no firing is left behind, those of the minutes the service was down included,
\* once the last tick is done with the schedule, unless that very tick was cut
\* short: what an earlier one failed at is made up for.  What throws in the try cuts
\* a tick short for its own schedule alone.  What the comment of
\* runScheduledDispatchTick says, "checks every active schedule and fires the ones
\* that are due", is not so of a schedule whose tick met an expression that does
\* not parse before it, and every tick may.
AtLeastOnce ==
    /\ \A s \in Schedules, f \in Ticks :
          (f \in Fires[s] /\ lastRun[s] # Unset /\ f <= lastRun[s]) => MailedSince(s, f)
    /\ \A s \in Schedules, f \in 1..lastTick :
          f \in Fires[s] =>
              MailedSince(s, f) \/ s \in Pending(lastTick) \/ <<s, lastTick>> \in cutShort
    /\ \A m \in mails : reports[<<m[1], m[3]>>] = "COMPLETE"

\* "Delivered on configured cron schedule": between two mails of a schedule to
\* one recipient the schedule has fired, as long as the tick of the first was not
\* cut short at it and ticks do not overlap.
OnePerFiring ==
    ~ticksOverlapped => \A m, n \in mails :
        (m[1] = n[1] /\ m[2] = n[2] /\ m[3] < n[3] /\ <<m[1], m[3]>> \notin cutShort) =>
            \E f \in Fires[m[1]] : m[3] < f /\ f <= n[3]
===============================================================================
