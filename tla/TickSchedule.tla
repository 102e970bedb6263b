---------------------------- MODULE TickSchedule ----------------------------
(***************************************************************************)
(* The cadence of the ticker thread: the timing skeleton of                 *)
(* ticker_thread_func in device_manager.cpp.  What a tick does is in other   *)
(* modules; here a tick takes any amount of time, the thread may be          *)
(* descheduled anywhere, and stop_physics may clear g_ticker_running at any  *)
(* moment.                                                                  *)
(***************************************************************************)
EXTENDS Integers, TickerFlag

CONSTANTS
    Period,  \* tick_duration; the schema keeps the rate in [0.1, 1000] Hz
    MaxNow   \* bound of the model: no tick begins later

ASSUME PeriodAssumption == Period \in Nat \ {0}
ASSUME MaxNowAssumption == MaxNow \in Nat

VARIABLES
    now,               \* steady_clock::now(), counted from thread_start
    pc,                \* where the thread stands
    next_tick,         \* the instant the next tick is due
    seen,              \* the clock reading the skip loop compares with
    tick_start,        \* when the current tick began
    due,               \* history: the instant the current tick was due
    previous_start     \* history: when the tick before it began (-1: none)

scheduleVars == <<now, pc, g_ticker_running, next_tick, seen, tick_start, due, previous_start>>

ScheduleLabels == {"test", "tick", "skip", "sleep", "done"}

ScheduleTypeOK ==
    /\ now \in Nat
    /\ pc \in ScheduleLabels
    /\ g_ticker_running \in BOOLEAN
    /\ next_tick \in Nat
    /\ seen \in Nat
    /\ tick_start \in Nat \cup {-1}
    /\ due \in Nat
    /\ previous_start \in Nat \cup {-1}

\* thread_start is the origin of time, and the first tick is due at once.
ScheduleInit ==
    /\ now = 0
    /\ pc = "test"
    /\ g_ticker_running = TRUE
    /\ next_tick = 0
    /\ seen = 0
    /\ tick_start = -1
    /\ due = 0
    /\ previous_start = -1

\* while (g_ticker_running.load()), and the clock reading at the loop's head.
BeginTick ==
    /\ pc = "test"
    /\ g_ticker_running
    /\ now <= MaxNow
    /\ pc' = "tick"
    /\ tick_start' = now
    /\ previous_start' = tick_start
    /\ due' = next_tick
    /\ UNCHANGED <<now, g_ticker_running, next_tick, seen>>

Leave ==
    /\ pc = "test"
    /\ ~g_ticker_running
    /\ pc' = "done"
    /\ UNCHANGED <<now, g_ticker_running, next_tick, seen, tick_start, due, previous_start>>

\* Mutant: the schedule restarts from the end of the tick.
MutantRestartFromNow ==
    /\ pc = "tick"
    /\ next_tick' = now + Period
    /\ seen' = now
    /\ pc' = "skip"
    /\ UNCHANGED <<now, g_ticker_running, tick_start, due, previous_start>>

\* The tick is over, successful or not: one period on, and look at the clock.
EndTick ==
    /\ pc = "tick"
    /\ next_tick' = next_tick + Period
    /\ seen' = now
    /\ pc' = "skip"
    /\ UNCHANGED <<now, g_ticker_running, tick_start, due, previous_start>>

\* Mutant: two periods are dropped for each missed one.
MutantSkipTwo ==
    /\ pc = "skip"
    /\ next_tick <= seen
    /\ g_ticker_running
    /\ next_tick' = next_tick + 2 * Period
    /\ UNCHANGED <<now, pc, g_ticker_running, seen, tick_start, due, previous_start>>

\* The loop fell behind: drop one more period.
Skip ==
    /\ pc = "skip"
    /\ next_tick <= seen
    /\ g_ticker_running
    /\ next_tick' = next_tick + Period
    /\ UNCHANGED <<now, pc, g_ticker_running, seen, tick_start, due, previous_start>>

\* Mutant: the skip loop may be left before it caught up.
MutantNoCatchUp ==
    /\ pc = "skip"
    /\ pc' = "sleep"
    /\ UNCHANGED <<now, g_ticker_running, next_tick, seen, tick_start, due, previous_start>>

FallAsleep ==
    /\ pc = "skip"
    /\ next_tick > seen \/ ~g_ticker_running
    /\ pc' = "sleep"
    /\ UNCHANGED <<now, g_ticker_running, next_tick, seen, tick_start, due, previous_start>>

\* Mutant: the thread must look at the clock at the exact instant.
MutantWakeExactly ==
    /\ pc = "sleep"
    /\ now = next_tick
    /\ pc' = "test"
    /\ UNCHANGED <<now, g_ticker_running, next_tick, seen, tick_start, due, previous_start>>

\* sleep_until returns at once when the instant has passed.
WakeUp ==
    /\ pc = "sleep"
    /\ now >= next_tick
    /\ pc' = "test"
    /\ UNCHANGED <<now, g_ticker_running, next_tick, seen, tick_start, due, previous_start>>

\* stop_physics, on the main thread.
Stop ==
    /\ g_ticker_running' = FALSE
    /\ UNCHANGED <<now, pc, next_tick, seen, tick_start, due, previous_start>>

\* Time passes; past the bound only to let a sleeper reach its instant.
AdvanceClock ==
    /\ now < MaxNow \/ (pc = "sleep" /\ now < next_tick)
    /\ now' = now + 1
    /\ UNCHANGED <<pc, g_ticker_running, next_tick, seen, tick_start, due, previous_start>>

Ticker == BeginTick \/ Leave \/ EndTick \/ Skip \/ FallAsleep \/ WakeUp

ScheduleNext == Ticker \/ Stop \/ AdvanceClock

\* The scheduler runs the thread and the clock does not stand still.
ScheduleFairness == WF_scheduleVars(Ticker) /\ WF_scheduleVars(AdvanceClock)

ScheduleSpec == ScheduleInit /\ [][ScheduleNext]_scheduleVars /\ ScheduleFairness

-----------------------------------------------------------------------------
(* Properties *)

\* Phase alignment survives every delay ("rather than fully resetting phase
\* alignment", device_manager.cpp:286): ticks stay due at whole periods.
PhaseAligned == next_tick % Period = 0

\* Between two ticks lies the instant the second was due, and the thread did
\* not start before it: however late a tick ended, the ticker never bursts to
\* catch up and never runs two ticks for one period.
NoBurst == previous_start # -1 =>
    previous_start < due /\ due <= tick_start

\* Skipping "only as needed" (device_manager.cpp:285): when the thread goes to
\* sleep, the period before the one it waits for had already begun or was the
\* one it just served.
SkipsOnlyMissed == pc = "sleep" =>
    next_tick - Period <= seen \/ next_tick - Period = due

\* After stop_physics cleared the flag the thread leaves its loop, from
\* wherever it is: mid-tick, skipping, or asleep (stop_physics joins it).
StopIsSeen == ~g_ticker_running ~> pc = "done"

\* Unless it is stopped, a tick that ends is followed by another one (up to
\* the bound of the model), however many periods it overran.
KeepsTicking == pc = "skip" ~> (pc = "tick" \/ ~g_ticker_running \/ now > MaxNow)
=============================================================================
