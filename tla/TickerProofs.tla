---------------------------- MODULE TickerProofs ----------------------------
(***************************************************************************)
(* The ticker thread: the safety of its life within the process, for every    *)
(* set of modes and any number of WaitReady requests, and of its cadence, for  *)
(* every period and every delay.                                              *)
(***************************************************************************)
EXTENDS PhysicsLifecycle, TickSchedule, FiniteSetTheorems, TLAPS

-----------------------------------------------------------------------------
(* The life of the process *)

Live(i) == ticker[i] \notin {"unborn", "done"}

\* The only thread inside ticker_thread_func is the one main can join.
Owned == \A i \in ThreadIds : Live(i) => g_ticker_thread = i

\* While main owns a thread, the objects the thread uses exist.
OwnerKeepsObjects == g_ticker_thread # 0 => g_signal_registry /\ g_simulation_engine

\* What main has built at each point of its life.
Built ==
    /\ main = "initialize_physics" => g_simulation_engine
    /\ main \in {"auto_start", "run_loop", "stop_flag", "join"}
          => g_signal_registry /\ g_simulation_engine

\* Outside the run loop and the two steps after it, main owns no thread.
NoThreadOutside == main \notin {"run_loop", "stop_flag", "join"} => g_ticker_thread = 0

\* The flag is up exactly when main owns a thread, until stop_physics lowers it.
FlagMeansOwned ==
    /\ main \in {"run_loop", "stop_flag"} => (g_ticker_running <=> g_ticker_thread # 0)
    /\ main \notin {"run_loop", "stop_flag"} => ~g_ticker_running

\* A thread leaves its loop only after the flag went down.
RunsWhileFlagged == g_ticker_running => g_ticker_thread # 0 /\ Live(g_ticker_thread)

\* The inductive invariant.
IInv ==
    /\ TypeOK
    /\ Owned
    /\ OwnerKeepsObjects
    /\ Built
    /\ NoThreadOutside
    /\ FlagMeansOwned
    /\ RunsWhileFlagged
    /\ OrderlyExit

\* IInv holds when main begins.
LEMMA InitIInv == Init => IInv
<1>1. 0 \in 0 .. MaxWaits
  BY MaxWaitsAssumption
<1> QED
  BY <1>1, Zenon
  DEF Init, IInv, TypeOK, Owned, OwnerKeepsObjects, Built, NoThreadOutside, FlagMeansOwned,
      RunsWhileFlagged, OrderlyExit, Live, MainLabels, TickerLabels

\* start_physics, wherever it is called from: either nothing changes, or a new
\* thread is the only one.
LEMMA StartPhysicsEffect ==
    ASSUME TypeOK, Owned, RunsWhileFlagged, StartPhysics,
           g_ticker_running <=> g_ticker_thread # 0
    PROVE  \/ UNCHANGED <<g_ticker_running, g_ticker_thread, ticker, exit_status>>
           \/ \E i \in ThreadIds :
                 /\ g_ticker_thread = 0
                 /\ g_ticker_running' = TRUE
                 /\ ticker' = [ticker EXCEPT ![i] = "test"]
                 /\ g_ticker_thread' = i
                 /\ exit_status' = exit_status
BY DEF StartPhysics

\* Every step of main, of the timer and of a ticker thread preserves IInv.
LEMMA NextIInv == IInv /\ [Next]_vars => IInv'
<1> SUFFICES ASSUME IInv, [Next]_vars
             PROVE  IInv'
  OBVIOUS
<1> USE DEF IInv, TypeOK, Owned, OwnerKeepsObjects, Built, NoThreadOutside, FlagMeansOwned,
            RunsWhileFlagged, OrderlyExit, Live, MainLabels, TickerLabels, Alive
<1>0. 0 \notin ThreadIds
  BY MaxWaitsAssumption DEF ThreadIds
<1>1. CASE CreateEngine
  BY <1>1 DEF CreateEngine
<1>2. CASE SetSimulationEngine
  <2>1. TypeOK'
    BY <1>2 DEF SetSimulationEngine
  <2> QED
    BY <1>2, <2>1 DEF SetSimulationEngine
<1>3. CASE InitializePhysics
  <2>1. TypeOK'
    BY <1>3 DEF InitializePhysics
  <2> QED
    BY <1>3, <2>1 DEF InitializePhysics
<1>4. CASE AutoStart
  <2>1. CASE g_sim_mode = "non_interacting"
    <3>1. \/ UNCHANGED <<g_ticker_running, g_ticker_thread, ticker, exit_status>>
          \/ \E i \in ThreadIds :
                /\ g_ticker_thread = 0
                /\ g_ticker_running' = TRUE
                /\ ticker' = [ticker EXCEPT ![i] = "test"]
                /\ g_ticker_thread' = i
                /\ exit_status' = exit_status
      BY <1>4, <2>1, StartPhysicsEffect DEF AutoStart
    <3> QED
      BY <1>0, <1>4, <3>1 DEF AutoStart
  <2>2. CASE g_sim_mode # "non_interacting"
    BY <1>4, <2>2 DEF AutoStart
  <2> QED
    BY <2>1, <2>2
<1>5. CASE OnWaitReady
  <2>1. \/ UNCHANGED <<g_ticker_running, g_ticker_thread, ticker, exit_status>>
        \/ \E i \in ThreadIds :
              /\ g_ticker_thread = 0
              /\ g_ticker_running' = TRUE
              /\ ticker' = [ticker EXCEPT ![i] = "test"]
              /\ g_ticker_thread' = i
              /\ exit_status' = exit_status
    BY <1>5, StartPhysicsEffect DEF OnWaitReady
  <2>2. waits' \in 0 .. MaxWaits
    BY <1>5, MaxWaitsAssumption DEF OnWaitReady
  <2>3. TypeOK'
    BY <1>5, <2>1, <2>2 DEF OnWaitReady
  <2>4. (Owned /\ OwnerKeepsObjects /\ Built /\ NoThreadOutside)'
    BY <1>0, <1>5, <2>1 DEF OnWaitReady
  <2>5. (FlagMeansOwned /\ RunsWhileFlagged /\ OrderlyExit)'
    BY <1>0, <1>5, <2>1 DEF OnWaitReady
  <2> QED
    BY <2>3, <2>4, <2>5
<1>6. CASE LoopEnds
  BY <1>6 DEF LoopEnds
<1>7. CASE StopFlag
  BY <1>7 DEF StopFlag
<1>8. CASE Join
  BY <1>8 DEF Join
<1>9. CASE Release
  BY <1>9 DEF Release
<1>10. CASE ReturnFromMain
  BY <1>10 DEF ReturnFromMain, ExitProcess
<1>11. CASE Crash
  BY <1>11 DEF Crash, ExitProcess
<1>12. ASSUME NEW i \in ThreadIds, TickerStep(i)
       PROVE  IInv'
  <2>1. ASSUME NEW from \in TickerLabels \ {"unborn", "done"}, NEW to \in TickerLabels,
               Move(i, from, to),
               to \in {"unborn", "done"} => ~g_ticker_running
        PROVE  IInv'
    BY <2>1 DEF Move
  <2>2. CASE TestFlag(i)
    BY <2>1, <2>2 DEF TestFlag
  <2>3. CASE UpdateControl(i)
    BY <2>1, <2>3 DEF UpdateControl
  <2>4. CASE CollectActuators(i)
    BY <2>1, <2>4 DEF CollectActuators
  <2>5. CASE EngineTick(i)
    <3>1. ticker[i] = "tick"
      BY <2>5 DEF EngineTick, Move
    <3>2. g_simulation_engine
      BY <1>0, <3>1
    <3>3. PICK to \in {"publish", "sleep"} : Move(i, "tick", to)
      BY <2>5, <3>2 DEF EngineTick
    <3> QED
      BY <2>1, <3>3
  <2>6. CASE PublishSensors(i)
    BY <2>1, <2>6 DEF PublishSensors
  <2>7. CASE ExecuteCommands(i)
    BY <2>1, <2>7 DEF ExecuteCommands
  <2>8. CASE SleepUntil(i)
    BY <2>1, <2>8 DEF SleepUntil
  <2> QED
    BY <1>12, <2>2, <2>3, <2>4, <2>5, <2>6, <2>7, <2>8 DEF TickerStep
<1>13. CASE UNCHANGED vars
  BY <1>13 DEF vars
<1> QED
  BY <1>1, <1>2, <1>3, <1>4, <1>5, <1>6, <1>7, <1>8, <1>9, <1>10, <1>11, <1>12, <1>13
  DEF Next, Main

\* The inductive invariant of the life cycle.
THEOREM Invariance == Spec => []IInv
BY InitIInv, NextIInv, PTL DEF Spec

\* No tick ever runs on a registry or an engine that stop_physics released
\* (device_manager.cpp:364-377 joins before it resets).
THEOREM ObjectsOutliveTicker == Spec => []TickerUsesLiveObjects
<1>1. IInv => TickerUsesLiveObjects
  <2> SUFFICES ASSUME IInv, NEW i \in ThreadIds,
                      ticker[i] \in {"control", "collect", "tick", "publish", "commands"}
               PROVE  g_signal_registry /\ g_simulation_engine
    BY DEF TickerUsesLiveObjects
  <2>1. g_ticker_thread = i /\ i # 0
    BY MaxWaitsAssumption DEF IInv, Owned, Live, ThreadIds
  <2> QED
    BY <2>1 DEF IInv, OwnerKeepsObjects
<1> QED
  BY <1>1, Invariance, PTL

\* However many WaitReady requests come, at most one ticker thread lives, and
\* it is the one main will join (start_physics, device_manager.cpp:353-360).
THEOREM SingleTicker == Spec => []OneTicker
<1>1. IInv => OneTicker
  <2> SUFFICES ASSUME IInv
               PROVE  OneTicker
    OBVIOUS
  <2>1. LiveTickers \subseteq {g_ticker_thread}
    BY DEF IInv, Owned, Live, LiveTickers
  <2>2. IsFiniteSet({g_ticker_thread}) /\ Cardinality({g_ticker_thread}) = 1
    BY FS_Singleton
  <2>3. Cardinality(LiveTickers) <= 1
    BY <2>1, <2>2, FS_Subset
  <2> QED
    BY <2>1, <2>3 DEF OneTicker
<1> QED
  BY <1>1, Invariance, PTL

\* In the run loop the flag is up exactly when a ticker is in its loop, so
\* "already running, skipping" is never wrong.
THEOREM FlagIsTruthful == Spec => []FlagMeansTicking
<1>1. IInv => FlagMeansTicking
  <2> SUFFICES ASSUME IInv, main = "run_loop"
               PROVE  g_ticker_running <=> LiveTickers # {}
    BY DEF FlagMeansTicking
  <2>1. ASSUME g_ticker_running
        PROVE  LiveTickers # {}
    <3>1. g_ticker_thread \in ThreadIds /\ Live(g_ticker_thread)
      BY <2>1 DEF IInv, RunsWhileFlagged, TypeOK
    <3> QED
      BY <3>1 DEF LiveTickers, Live
  <2>2. ASSUME NEW i \in LiveTickers
        PROVE  g_ticker_running
    <3>1. i \in ThreadIds /\ g_ticker_thread = i
      BY <2>2 DEF IInv, Owned, Live, LiveTickers
    <3>2. i # 0
      BY <3>1, MaxWaitsAssumption DEF ThreadIds
    <3> QED
      BY <3>1, <3>2 DEF IInv, FlagMeansOwned, TypeOK
  <2> QED
    BY <2>1, <2>2
<1> QED
  BY <1>1, Invariance, PTL

\* A process that returns from main exits with 0 or 1, never on a joinable
\* thread's std::terminate.
THEOREM ExitsOrderly == Spec => []OrderlyExit
<1>1. IInv => OrderlyExit
  BY DEF IInv
<1> QED
  BY <1>1, Invariance, PTL

\* The threads, the flag and the objects they share keep their types for any
\* number of WaitReady requests.
THEOREM TypeCorrect == Spec => []TypeOK
<1>1. IInv => TypeOK
  BY DEF IInv
<1> QED
  BY <1>1, Invariance, PTL

-----------------------------------------------------------------------------
(* The cadence *)

\* One more period keeps an aligned instant aligned.
LEMMA AlignedPlusPeriod ==
    ASSUME NEW x \in Nat, x % Period = 0
    PROVE  (x + Period) % Period = 0
<1> DEFINE q == x \div Period
           r == (x + Period) % Period
           k == (x + Period) \div Period
<1>1. q \in Int /\ x = Period * q
  BY PeriodAssumption
<1>2. k \in Int /\ r \in 0 .. (Period - 1) /\ x + Period = Period * k + r
  BY PeriodAssumption
<1> HIDE DEF q, r, k
<1>3. r = Period * (q + 1 - k)
  BY <1>1, <1>2, PeriodAssumption
<1> DEFINE m == q + 1 - k
<1>4. m \in Int /\ r = Period * m
  BY <1>1, <1>2, <1>3
<1> HIDE DEF m
<1>5. ~(m >= 1)
  BY <1>2, <1>4, PeriodAssumption
<1>6. ~(m <= -1)
  BY <1>2, <1>4, PeriodAssumption
<1>7. m = 0
  BY <1>4, <1>5, <1>6
<1> QED
  BY <1>4, <1>7, PeriodAssumption DEF r

\* The strengthening that makes the properties inductive.  Its heart is the
\* fourth conjunct: a thread that will run another tick waits for an instant
\* that lies after the tick it has just run.  It is only true while the flag
\* is up: a stop cuts the skip loop short.
ScheduleInv ==
    /\ ScheduleTypeOK
    /\ tick_start <= now
    /\ pc \in {"tick", "skip", "sleep"} => tick_start # -1
    /\ (pc \in {"sleep", "test"} /\ g_ticker_running) => tick_start < next_tick
    /\ pc = "test" => next_tick <= now
    /\ pc = "tick" => due = next_tick
    /\ pc = "skip" => tick_start <= seen
    /\ pc \in {"skip", "sleep"} =>
          next_tick - Period <= seen \/ next_tick - Period = due
    /\ PhaseAligned
    /\ NoBurst

\* ScheduleInv holds at thread start.
LEMMA ScheduleStarts == ScheduleInit => ScheduleInv
BY PeriodAssumption DEF ScheduleInit, ScheduleInv, ScheduleTypeOK, ScheduleLabels, PhaseAligned, NoBurst

\* Every step of the thread, of stop_physics and of the clock preserves ScheduleInv.
LEMMA ScheduleSteps == ScheduleInv /\ [ScheduleNext]_scheduleVars => ScheduleInv'
<1> SUFFICES ASSUME ScheduleInv, [ScheduleNext]_scheduleVars
             PROVE  ScheduleInv'
  OBVIOUS
<1> USE PeriodAssumption DEF ScheduleInv, ScheduleTypeOK, ScheduleLabels, NoBurst
<1>1. CASE BeginTick
  BY <1>1 DEF BeginTick, PhaseAligned
<1>2. CASE Leave
  BY <1>2 DEF Leave, PhaseAligned
<1>3. CASE EndTick
  <2>1. PhaseAligned'
    BY <1>3, AlignedPlusPeriod DEF EndTick, PhaseAligned
  <2> QED
    BY <1>3, <2>1 DEF EndTick
<1>4. CASE Skip
  <2>1. PhaseAligned'
    BY <1>4, AlignedPlusPeriod DEF Skip, PhaseAligned
  <2> QED
    BY <1>4, <2>1 DEF Skip
<1>5. CASE FallAsleep
  BY <1>5 DEF FallAsleep, PhaseAligned
<1>6. CASE WakeUp
  BY <1>6 DEF WakeUp, PhaseAligned
<1>7. CASE Stop
  BY <1>7 DEF Stop, PhaseAligned
<1>8. CASE AdvanceClock
  BY <1>8 DEF AdvanceClock, PhaseAligned
<1>9. CASE UNCHANGED scheduleVars
  BY <1>9 DEF scheduleVars, PhaseAligned
<1> QED
  BY <1>1, <1>2, <1>3, <1>4, <1>5, <1>6, <1>7, <1>8, <1>9 DEF ScheduleNext, Ticker

\* The strengthened invariant of ticker_thread_func.
THEOREM ScheduleInvariance == ScheduleSpec => []ScheduleInv
BY ScheduleStarts, ScheduleSteps, PTL DEF ScheduleSpec

\* Ticks stay due at whole periods of the thread's start, however late any
\* tick ends (device_manager.cpp:283-290).
THEOREM StaysAligned == ScheduleSpec => []PhaseAligned
<1>1. ScheduleInv => PhaseAligned
  BY DEF ScheduleInv
<1> QED
  BY <1>1, ScheduleInvariance, PTL

\* Two consecutive ticks are separated by the instant the second one was due:
\* no burst after an overrun, no second tick within a period.
THEOREM NeverBursts == ScheduleSpec => []NoBurst
<1>1. ScheduleInv => NoBurst
  BY DEF ScheduleInv
<1> QED
  BY <1>1, ScheduleInvariance, PTL

\* Only periods that have already begun are skipped (device_manager.cpp:285).
THEOREM SkipsAsNeeded == ScheduleSpec => []SkipsOnlyMissed
<1>1. ScheduleInv => SkipsOnlyMissed
  BY DEF ScheduleInv, SkipsOnlyMissed
<1> QED
  BY <1>1, ScheduleInvariance, PTL

\* The ticker's clock, deadline and label keep their types for every period.
THEOREM ScheduleTypeCorrect == ScheduleSpec => []ScheduleTypeOK
<1>1. ScheduleInv => ScheduleTypeOK
  BY DEF ScheduleInv
<1> QED
  BY <1>1, ScheduleInvariance, PTL
=============================================================================
