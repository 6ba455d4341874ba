---------------------------- MODULE WebSchedules ----------------------------
(***************************************************************************)
(* The schedules of the web interface: ScheduleStore in loro/webui/        *)
(* workspace.py and schedule_loop in server.py, a thread that wakes every  *)
(* ten seconds.  A tick reads the file, starts what is due and writes the  *)
(* file once, all under the store's lock.                                  *)
(***************************************************************************)
EXTENDS Integers, Sequences, FiniteSets

CONSTANTS
    Schedules,        \* records of the schedules' file
    Interval,         \* interval_minutes
    MaxMinutes,       \* bound on the clock
    MaxStops          \* bound on the restarts of the server and the failed writes

ASSUME WebSchedulesAssumption ==
    Interval \in Nat \ {0} /\ MaxMinutes \in Nat /\ MaxStops \in Nat

VARIABLES
    clock,
    nextRun,      \* schedule -> next_run_at in the file
    enabled,      \* schedule -> enabled in the file
    lastError,    \* schedule -> last_error in the file
    ticking,      \* the records the tick under way has read and changed
    looping,      \* the scheduler's thread is alive
    starts,       \* history: schedule -> the times it was tried
    stops

scheduleFile     == <<nextRun, enabled, lastError>>
webSchedulesVars == <<clock, scheduleFile, ticking, looping, starts, stops>>

NoTick == [open |-> FALSE, at |-> 0, done |-> {}, next |-> <<>>, error |-> <<>>]

WebSchedulesInit ==
    /\ clock = 0
    /\ nextRun = [s \in Schedules |-> Interval]
    /\ enabled = [s \in Schedules |-> TRUE]
    /\ lastError = [s \in Schedules |-> FALSE]
    /\ ticking = NoTick
    /\ looping = TRUE
    /\ starts = [s \in Schedules |-> <<>>]
    /\ stops = 0

Due(s, at) == enabled[s] /\ nextRun[s] <= at

MinutePasses ==
    /\ clock < MaxMinutes
    /\ clock' = clock + 1
    /\ UNCHANGED <<scheduleFile, ticking, looping, starts, stops>>

\* tick takes the lock and reads the file; what it reads is due or not by the
\* time it began.
BeginTick ==
    /\ looping /\ ~ticking.open
    /\ \E s \in Schedules : Due(s, clock)
    /\ ticking' = [open |-> TRUE, at |-> clock, done |-> {},
                   next |-> nextRun, error |-> lastError]
    /\ UNCHANGED <<clock, scheduleFile, looping, starts, stops>>

\* Faulty variant: a graph that could not be started is due at the next tick.
NextIfStarted(s, started) ==
    IF started THEN ticking.at + Interval ELSE ticking.next[s]

NextDue(s, started) == ticking.at + Interval

\* A due record: its graph is started, or the refusal is recorded.
TrySchedule(s) ==
    /\ ticking.open
    /\ Due(s, ticking.at) /\ s \notin ticking.done
    /\ \E started \in BOOLEAN :
          ticking' = [ticking EXCEPT !.done = @ \union {s},
                                     !.next[s] = NextDue(s, started),
                                     !.error[s] = ~started]
    /\ starts' = [starts EXCEPT ![s] = Append(@, ticking.at)]
    /\ UNCHANGED <<clock, scheduleFile, looping, stops>>

TickDone == ticking.open /\ \A s \in Schedules : Due(s, ticking.at) => s \in ticking.done

\* The file is replaced after the last due record, and the lock given back.
EndTick ==
    /\ TickDone
    /\ nextRun' = ticking.next
    /\ lastError' = ticking.error
    /\ ticking' = NoTick
    /\ UNCHANGED <<clock, enabled, looping, starts, stops>>

\* The write raises, and nothing in schedule_loop catches it: the thread ends.
TickRaises ==
    /\ TickDone /\ stops < MaxStops
    /\ stops' = stops + 1
    /\ ticking' = NoTick
    /\ looping' = FALSE
    /\ UNCHANGED <<clock, scheduleFile, starts>>

\* ScheduleStore.update waits for the lock; enabling starts a fresh interval.
UpdateSchedule(s) ==
    /\ ~ticking.open
    /\ enabled' = [enabled EXCEPT ![s] = ~@]
    /\ nextRun' = [nextRun EXCEPT ![s] = IF enabled[s] THEN @ ELSE clock + Interval]
    /\ UNCHANGED <<clock, lastError, ticking, looping, starts, stops>>

\* The server stops, perhaps in a tick, and starts again: the file is as it was.
RestartScheduler ==
    /\ stops < MaxStops
    /\ stops' = stops + 1
    /\ ticking' = NoTick
    /\ looping' = TRUE
    /\ UNCHANGED <<clock, scheduleFile, starts>>

Tick == BeginTick \/ EndTick \/ \E s \in Schedules : TrySchedule(s)

WebSchedulesNext ==
    \/ MinutePasses \/ Tick \/ TickRaises \/ RestartScheduler
    \/ \E s \in Schedules : UpdateSchedule(s)

\* The thread wakes every ten seconds.
WebSchedulesFairness == WF_webSchedulesVars(Tick)

WebSchedulesSpec ==
    WebSchedulesInit /\ [][WebSchedulesNext]_webSchedulesVars /\ WebSchedulesFairness

---------------------------------------------------------------------------
(* A schedule is tried at most once in an interval, refused or not, unless *)
(* the server or the write of a tick failed before the file said so.       *)
ScheduleSpacing ==
    \A s \in Schedules :
        Cardinality({i \in DOMAIN starts[s] :
                        i > 1 /\ starts[s][i] < starts[s][i - 1] + Interval}) <= stops
=============================================================================
