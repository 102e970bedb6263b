-------------------------- MODULE PhysicsLifecycle --------------------------
(***************************************************************************)
(* The life of the provider process: main(), the physics lifecycle of       *)
(* device_manager.cpp (set_simulation_engine, initialize_physics,           *)
(* start_physics, stop_physics) and the threads that live alongside: the    *)
(* ticker, which uses the registry and the engine that main owns, and the    *)
(* detached --crash-after timer, which may end the process at any moment.   *)
(*                                                                         *)
(* The SDK's run loop (external) calls on_wait_ready for every WaitReady    *)
(* request and on_shutdown once, when the loop ends.                        *)
(***************************************************************************)
EXTENDS Integers, FiniteSets, TickerFlag

CONSTANTS
    Modes,       \* simulation modes considered
    CrashAfter,  \* whether --crash-after is given
    MaxWaits     \* bound: WaitReady requests

ASSUME ModesAssumption == Modes \subseteq {"inert", "non_interacting", "sim"}
ASSUME CrashAfterAssumption == CrashAfter \in BOOLEAN
ASSUME MaxWaitsAssumption == MaxWaits \in Nat

VARIABLES
    g_sim_mode,
    main,               \* where main() stands
    g_simulation_engine, \* whether the engine object exists
    g_signal_registry,  \* whether the registry object exists
    g_ticker_thread,    \* the joinable thread main owns, or 0
    ticker,             \* spawned threads -> where each stands
    waits,              \* WaitReady requests handled so far
    exit_status         \* "running", an exit code, or "abort"

vars == <<g_sim_mode, main, g_simulation_engine, g_signal_registry,
          g_ticker_running, g_ticker_thread, ticker, waits, exit_status>>

\* start_physics runs at most once from main and once per WaitReady.
ThreadIds == 1 .. (MaxWaits + 1)

MainLabels == {"create_engine", "set_engine", "initialize_physics", "auto_start",
               "run_loop", "stop_flag", "join", "release", "return_0", "return_1", "ended"}
TickerLabels == {"unborn", "test", "control", "collect", "tick", "publish",
                 "commands", "sleep", "done"}

TypeOK ==
    /\ g_sim_mode \in Modes
    /\ main \in MainLabels
    /\ g_simulation_engine \in BOOLEAN
    /\ g_signal_registry \in BOOLEAN
    /\ g_ticker_running \in BOOLEAN
    /\ g_ticker_thread \in ThreadIds \cup {0}
    /\ ticker \in [ThreadIds -> TickerLabels]
    /\ waits \in 0 .. MaxWaits
    /\ exit_status \in {"running", "0", "1", "42", "abort"}

Init ==
    /\ g_sim_mode \in Modes
    /\ main = "create_engine"
    /\ g_simulation_engine = FALSE
    /\ g_signal_registry = FALSE
    /\ g_ticker_running = FALSE
    /\ g_ticker_thread = 0
    /\ ticker = [i \in ThreadIds |-> "unborn"]
    /\ waits = 0
    /\ exit_status = "running"

Alive == exit_status = "running"

-----------------------------------------------------------------------------
(* main() *)

\* create_engine, initialize and register_devices; each may throw.
CreateEngine ==
    /\ Alive /\ main = "create_engine"
    /\ main' \in {"set_engine", "return_1"}
    /\ UNCHANGED <<g_sim_mode, g_simulation_engine, g_signal_registry,
                   g_ticker_running, g_ticker_thread, ticker, waits, exit_status>>

SetSimulationEngine ==
    /\ Alive /\ main = "set_engine"
    /\ g_simulation_engine' = TRUE
    /\ main' = "initialize_physics"
    /\ UNCHANGED <<g_sim_mode, g_signal_registry, g_ticker_running,
                   g_ticker_thread, ticker, waits, exit_status>>

\* configure_simulation_inputs throws before the registry exists, in sim mode
\* only; list_signals may throw after.
InitializePhysics ==
    /\ Alive /\ main = "initialize_physics"
    /\ \/ g_signal_registry' = TRUE /\ main' = "auto_start"
       \/ g_sim_mode = "sim" /\ g_signal_registry' \in BOOLEAN /\ main' = "return_1"
    /\ UNCHANGED <<g_sim_mode, g_simulation_engine, g_ticker_running,
                   g_ticker_thread, ticker, waits, exit_status>>

\* Mutant: start_physics does not ask whether a ticker is running.
MutantStartTwice ==
    IF g_sim_mode = "inert" \/ ~g_simulation_engine
    THEN UNCHANGED <<g_ticker_running, g_ticker_thread, ticker, exit_status>>
    ELSE \E i \in ThreadIds :
           /\ ticker[i] = "unborn" /\ \A j \in 1 .. (i - 1) : ticker[j] # "unborn"
           /\ g_ticker_running' = TRUE
           /\ ticker' = [ticker EXCEPT ![i] = "test"]
           /\ g_ticker_thread' = i
           /\ UNCHANGED exit_status

\* Mutant: the flag is not raised.
MutantStartWithoutFlag ==
    IF g_sim_mode = "inert" \/ ~g_simulation_engine \/ g_ticker_thread # 0
    THEN UNCHANGED <<g_ticker_running, g_ticker_thread, ticker, exit_status>>
    ELSE \E i \in ThreadIds :
           /\ ticker[i] = "unborn" /\ \A j \in 1 .. (i - 1) : ticker[j] # "unborn"
           /\ ticker' = [ticker EXCEPT ![i] = "test"]
           /\ g_ticker_thread' = i
           /\ UNCHANGED <<g_ticker_running, exit_status>>

\* Mutant: the flag is raised before the mode is looked at.
MutantFlagFirst ==
    /\ g_ticker_running' = TRUE
    /\ IF g_sim_mode # "non_interacting" \/ ~g_simulation_engine \/ g_ticker_running
       THEN UNCHANGED <<g_ticker_thread, ticker, exit_status>>
       ELSE \E i \in ThreadIds :
              /\ ticker[i] = "unborn" /\ \A j \in 1 .. (i - 1) : ticker[j] # "unborn"
              /\ ticker' = [ticker EXCEPT ![i] = "test"]
              /\ g_ticker_thread' = i
              /\ UNCHANGED exit_status

\* The body of start_physics.  Assigning a new thread over one that is still
\* joinable would call std::terminate.
StartPhysics ==
    IF g_sim_mode = "inert" \/ ~g_simulation_engine \/ g_ticker_running
    THEN UNCHANGED <<g_ticker_running, g_ticker_thread, ticker, exit_status>>
    ELSE \E i \in ThreadIds :
           /\ ticker[i] = "unborn" /\ \A j \in 1 .. (i - 1) : ticker[j] # "unborn"
           /\ g_ticker_running' = TRUE
           /\ ticker' = [ticker EXCEPT ![i] = "test"]
           /\ g_ticker_thread' = i
           /\ exit_status' = IF g_ticker_thread = 0 THEN exit_status ELSE "abort"

AutoStart ==
    /\ Alive /\ main = "auto_start"
    /\ main' = "run_loop"
    /\ IF g_sim_mode = "non_interacting"
       THEN StartPhysics
       ELSE UNCHANGED <<g_ticker_running, g_ticker_thread, ticker, exit_status>>
    /\ UNCHANGED <<g_sim_mode, g_simulation_engine, g_signal_registry, waits>>

\* LifecycleHooks::on_wait_ready, as often as the client asks.
OnWaitReady ==
    /\ Alive /\ main = "run_loop"
    /\ waits < MaxWaits
    /\ waits' = waits + 1
    /\ StartPhysics
    /\ UNCHANGED <<g_sim_mode, main, g_simulation_engine, g_signal_registry>>

\* End of input or a transport error: the run loop calls on_shutdown.
LoopEnds ==
    /\ Alive /\ main = "run_loop"
    /\ main' = "stop_flag"
    /\ UNCHANGED <<g_sim_mode, g_simulation_engine, g_signal_registry,
                   g_ticker_running, g_ticker_thread, ticker, waits, exit_status>>

\* stop_physics, in its order: lower the flag, join, release what was shared.
StopFlag ==
    /\ Alive /\ main = "stop_flag"
    /\ g_ticker_running' = FALSE
    /\ main' = "join"
    /\ UNCHANGED <<g_sim_mode, g_simulation_engine, g_signal_registry,
                   g_ticker_thread, ticker, waits, exit_status>>

\* Mutant: the thread is detached instead of joined.
MutantDetach ==
    /\ Alive /\ main = "join"
    /\ g_ticker_thread' = 0
    /\ main' = "release"
    /\ UNCHANGED <<g_sim_mode, g_simulation_engine, g_signal_registry,
                   g_ticker_running, ticker, waits, exit_status>>

\* Mutant: nothing waits for the thread and nothing gives up the handle.
MutantForgetJoin ==
    /\ Alive /\ main = "join"
    /\ main' = "release"
    /\ UNCHANGED <<g_sim_mode, g_simulation_engine, g_signal_registry,
                   g_ticker_running, g_ticker_thread, ticker, waits, exit_status>>

Join ==
    /\ Alive /\ main = "join"
    /\ g_ticker_thread # 0 => ticker[g_ticker_thread] = "done"
    /\ g_ticker_thread' = 0
    /\ main' = "release"
    /\ UNCHANGED <<g_sim_mode, g_simulation_engine, g_signal_registry,
                   g_ticker_running, ticker, waits, exit_status>>

Release ==
    /\ Alive /\ main = "release"
    /\ g_signal_registry' = FALSE
    /\ g_simulation_engine' = FALSE
    /\ main' = "return_0"
    /\ UNCHANGED <<g_sim_mode, g_ticker_running, g_ticker_thread, ticker, waits,
                   exit_status>>

(***************************************************************************)
(* The end of the process, by return from main or by std::exit: static      *)
(* objects are destroyed, and a std::thread that is still joinable calls     *)
(* std::terminate before the exit status is delivered.                      *)
(***************************************************************************)
ExitProcess(status) ==
    exit_status' = IF g_ticker_thread # 0 THEN "abort" ELSE status

ReturnFromMain ==
    /\ Alive /\ main \in {"return_0", "return_1"}
    /\ ExitProcess(IF main = "return_0" THEN "0" ELSE "1")
    /\ main' = "ended"
    /\ UNCHANGED <<g_sim_mode, g_simulation_engine, g_signal_registry,
                   g_ticker_running, g_ticker_thread, ticker, waits>>

\* The detached timer thread, started just before the run loop.
Crash ==
    /\ Alive /\ CrashAfter
    /\ main \in {"run_loop", "stop_flag", "join", "release", "return_0"}
    /\ ExitProcess("42")
    /\ UNCHANGED <<g_sim_mode, main, g_simulation_engine, g_signal_registry,
                   g_ticker_running, g_ticker_thread, ticker, waits>>

Main == CreateEngine \/ SetSimulationEngine \/ InitializePhysics \/ AutoStart
        \/ StopFlag \/ Join \/ Release \/ ReturnFromMain

-----------------------------------------------------------------------------
(* ticker_thread_func *)

Move(i, from, to) ==
    /\ Alive /\ ticker[i] = from
    /\ ticker' = [ticker EXCEPT ![i] = to]
    /\ UNCHANGED <<g_sim_mode, main, g_simulation_engine, g_signal_registry,
                   g_ticker_running, g_ticker_thread, waits, exit_status>>

\* Mutant: the loop does not look at the flag.
MutantIgnoreFlag(i) == Move(i, "test", "control")

TestFlag(i) == Move(i, "test", IF g_ticker_running THEN "control" ELSE "done")
UpdateControl(i) == Move(i, "control", "collect")
CollectActuators(i) == Move(i, "collect", "tick")
\* A missing engine ends the thread with the flag still up.
EngineTick(i) ==
    \E to \in IF g_simulation_engine THEN {"publish", "sleep"} ELSE {"done"} :
        Move(i, "tick", to)
PublishSensors(i) == Move(i, "publish", "commands")
ExecuteCommands(i) == Move(i, "commands", "sleep")
SleepUntil(i) == Move(i, "sleep", "test")

TickerStep(i) ==
    \/ TestFlag(i) \/ UpdateControl(i) \/ CollectActuators(i) \/ EngineTick(i)
    \/ PublishSensors(i) \/ ExecuteCommands(i) \/ SleepUntil(i)

Next ==
    \/ Main \/ OnWaitReady \/ LoopEnds \/ Crash
    \/ \E i \in ThreadIds : TickerStep(i)

(***************************************************************************)
(* The operating system runs main and the ticker.  Nothing forces a client  *)
(* to close the connection, to send WaitReady, or the timer to fire.        *)
(***************************************************************************)
Fairness == WF_vars(Main) /\ \A i \in ThreadIds : WF_vars(TickerStep(i))

Spec == Init /\ [][Next]_vars /\ Fairness

-----------------------------------------------------------------------------
(* Properties *)

LiveTickers == {i \in ThreadIds : ticker[i] \notin {"unborn", "done"}}

\* The ticker reads the registry and the engine through plain globals; while
\* any of its threads is inside a tick, both objects exist.  stop_physics may
\* free them only because it joins first.
TickerUsesLiveObjects ==
    (Alive /\ \E i \in ThreadIds :
        ticker[i] \in {"control", "collect", "tick", "publish", "commands"})
    => g_signal_registry /\ g_simulation_engine

\* WaitReady may come any number of times, and main may have started the
\* ticker itself: there is never a second ticker, nor a thread that main has
\* lost track of.
OneTicker ==
    /\ Cardinality(LiveTickers) <= 1
    /\ \A i \in LiveTickers : Alive => g_ticker_thread = i

\* The flag "already running" does not lie: before shutdown it is up exactly
\* when a ticker is in its loop, so a WaitReady that is skipped loses nothing.
FlagMeansTicking == (Alive /\ main = "run_loop") =>
    (g_ticker_running <=> LiveTickers # {})

\* The process never dies on std::terminate when it shuts down by itself.
OrderlyExit == (main = "ended") => exit_status \in {"0", "1"}

\* Once the run loop ends the process ends, whatever the ticker is doing.
ShutdownCompletes == (main = "stop_flag") ~> ~Alive

\* After a WaitReady outside inert mode the ticker keeps ticking until the
\* shutdown.
TicksAfterWaitReady ==
    (waits > 0 /\ g_sim_mode # "inert" /\ main = "run_loop")
       ~> (\E i \in ThreadIds : ticker[i] = "tick") \/ main # "run_loop" \/ ~Alive

\* "Exit with code 42 after this many seconds, to simulate a provider crash"
\* (README.md:88).
CrashExitCode == exit_status # "abort"
=============================================================================
