# anolis-provider-sim in TLA+

A verification project for the simulated device provider under `src/`: TLA+
modules translated from its C++ code, TLC runs on small instances, and TLAPS
proofs of the results that matter most. Paths such as `core/main.cpp` are
relative to `src/src/`.

## 1. The system

The provider is one process. The SDK's run loop (external) reads requests from
its transport on the main thread and answers them one at a time. A second
thread, the ticker, runs the simulation at a fixed rate. An optional detached
thread ends the process after `--crash-after` seconds.

| Component | Code | State | Operations |
|---|---|---|---|
| Fault store | `chaos/fault_injection.*` | five maps of injected faults, one mutex | inject, query (erases what expired), clear |
| chaos_control | `chaos/chaos_control_device.cpp` | none of its own | six functions that check arguments and call the store |
| Request path | `core/sim_provider_runtime.cpp`, `devices/common/device_manager.cpp`, `device_adapter.cpp` | none, but it sleeps | has_device, read, call; engine commands on the ticker thread |
| Ticker | `device_manager.cpp:199-294` | `next_tick`, `g_ticker_running` | control, collect, tick, publish, commands, sleep |
| Lifecycle | `core/main.cpp`, `device_manager.cpp:300-377` | engine and registry objects, thread handle, flag | create, initialize, start (main and every WaitReady), stop, crash |
| Signal registry | `devices/common/signal_registry.*` | driven paths, published values, one mutex | read_signal, write_signal, is_physics_driven, mark |
| tempctl | `devices/tempctl/` | mode, setpoint, relays, temperatures | three functions, closed loop, physics |
| motorctl | `devices/motorctl/` | two duties, two speeds, top speed | one function, lagging physics |
| relayio | `devices/relayio/` | four relays, four inputs | four functions, loop-back |
| analogsensor | `devices/analogsensor/` | quality, its timer, drift, noise level | calibrate, switch noise, degrade |
| Device queries | `device_manager.cpp:383-471`, `sim_provider_runtime.cpp:67-97` | cache of function names | list, describe, resolve |
| Remote engine | `simulation/engines/remote_engine.*`, `simulation/adapters/fluxgraph/` | session, pending commands, reading cache | load, register, tick with retries and re-registration, destroy |
| Local and null engine | `simulation/engines/` | last update | run the devices' physics; nothing |
| Startup, factory, configuration | `core/main.cpp`, `devices/common/device_factory.cpp`, `config*.cpp`, `core/startup_report.hpp` | arguments, config, registry, report | parse, validate, initialize strictly or degraded, create the engine |
| Logger | `logging/` | an output stream | write |

How they interact: the request thread and the ticker share the fault store, the
devices' state (one mutex per device type) and the registry (one mutex); the
registry calls back into the devices through its device reader, and the devices
call the registry, so the locks nest both ways. The ticker uses the engine and
the registry, which main owns, through plain globals. The engine's commands
reach devices through the same `call_function` as the client's requests.

What is hard, and what makes each part correct:

- *Faults and requests.* Every check is its own critical section, a call may
  sleep between a check and its effect, faults expire meanwhile, and expired
  entries linger. Correct means: faults are in force until their deadline and
  no longer, a request admitted is served on an available device, and
  clear_faults leaves nothing behind.
- *Cadence.* Ticks overrun by any amount; correct means phase kept, no burst,
  no period skipped that was not missed, every stop seen.
- *Lifetime.* start_physics is reachable many times and stop_physics frees what
  the ticker uses; correct means one ticker, live objects, an end of shutdown.
- *Closed loop.* The control law reads between two locked halves; correct means
  open mode is the client's, decisions use the newest reading, the engine sees
  the pair of relays the control pass left, and the loop comes to rest.
- *Remote engine.* Retries nest and sessions get lost; correct means no stale
  sensor or command in a tick's result, a bounded number of RPCs, recovery.
- *Registry.* Locks nest and values are published path by path; correct means no
  circular wait, no stale read, no feedback of what the engine published.
- *Devices.* Requests land between two ticks, ticks come late, and each type writes
  its rules twice, as a declaration and as checks; correct means declarations are
  enforced, a sensor that reports GOOD is accurate and degrades no earlier than it
  should, speeds settle, inputs are what the mode says.
- *Startup.* Arguments, mode matrix, policies and engines multiply; correct means
  that exactly the documented configurations start, and that registry, report,
  engine and name cache agree on which devices there are.
- *Queries.* A list asks the fault store device by device while faults expire;
  correct means a list true of its request, and listed devices that can be described.

`PROJECT.json` lists every hazard at its line with the properties that would catch it
going wrong, and says why where there is none: engine commands to an unreachable
device, durations beyond the clock's word, the lock-out of chaos_control, NaN speeds,
a thread that cannot be created, a slash in a device id.

## 2. The modules

| Module | Models | Built on |
|---|---|---|
| `FaultStore` | the store's functions as actions, deadlines in a signed machine word | |
| `FaultContract` | *abstract*: what timed faults promise, with no trace of the lazy clean-up | |
| `FaultInjection` | the store called in any order; refines `FaultContract` | extends `FaultStore`, instantiates `FaultContract` |
| `DeviceCalls` | request path (list, describe, read, call, resolve), chaos_control and engine commands around the store | extends `FaultStore` |
| `TickerFlag` | `g_ticker_running`, which the next two share | |
| `TickSchedule` | the timing skeleton of the ticker loop | extends `TickerFlag` |
| `PhysicsLifecycle` | main, start, stop, crash timer, the phases of a tick | extends `TickerFlag` |
| `Thermostat` | *abstract*: the tempctl card of the documentation, with indivisible control actions | |
| `TempCtl` | a tempctl device between requests and ticks; refines `Thermostat` | instantiates `Thermostat` |
| `EngineContract` | *abstract*: what the ticker expects of an engine, a whole result of this tick or none | |
| `FluxGraphClient` | remote engine, adapter and client against a failing server; refines `EngineContract` | instantiates `EngineContract` |
| `SignalRegistry` | registry and device mutexes, both threads | |
| `DeviceFunctions` | capabilities against argument checks and reads, all five device types | |
| `AnalogSensor` | quality machine under the local engine's capped ticks | |
| `MotorCtl` | configured top speed, duties, lagging speeds | |
| `RelayIo` | relays and looped-back or driven inputs in the three modes | |
| `LocalDevices` | *composition*: registered devices, local engine, external simulation, requests | extends `AnalogSensor`, instantiates `MotorCtl` and `RelayIo` |
| `Startup` | command line, configuration, device factory, engine creation, initialize_physics | |
| `MCFaultInjection`, `MCDeviceCalls`, `MCTempCtl`, `MCDeviceFunctions`, `MCStartup` | instances for TLC | |
| `*Proofs` | theorems (section 4) | extend the modules they are about |

Correspondence with the code. Variables carry the names of the C++ objects
(`g_ticker_running`, `device_unavailable_faults`, `registered_`); `pc` says where
a thread stands. An action is the longest piece of code no other thread can see
the inside of: one function of the fault store, one locked section of a device,
one RPC with the handling of its answer. Variables marked *history* are read by
properties only. Definitions named `Mutant...` are deliberate errors that show a
property can fail; nothing uses them in the specification.

Data abstraction, module by module:

- `FaultStore`: one device's vector of signal faults is a set, since neither order
  nor duplicates are observed; a failure rate is never, maybe or always; a missing
  rule is the neutral value its getter returns. Deadlines wrap as the 64-bit
  nanosecond clock does, in a word of `2 * HalfRange` values. In C++ the overflow
  is that of a signed integer, formally undefined; two's-complement wrapping
  is the outcome modelled.
- `DeviceCalls`: a `function_id` string is its number and whether it is padded with
  zeros, which is what the validation and the comparison tell apart. A device's
  own function either accepts or rejects. Engine commands go to the provider's
  own devices ("for provider-owned devices", `fluxgraph_client.hpp:22`), so
  `EngineTargets` leaves chaos_control out; `AdmittedStaysAvailable`,
  `GateHolds` and `ListingIsHonest` rest on that. A list looks at the registered
  devices in any order; of a description only whether it is empty is kept, since
  `DeviceFunctions` has its content. The fault queries that the ticker's own reads make
  only erase expired entries, which `FaultInjection` shows to be invisible; they
  are left out here.
- `TickSchedule`: what a tick does is left out, it may last any time.
- `PhysicsLifecycle`: device initialization and config loading, which `Startup`
  models, are one step that may fail. A thread that cannot be created is not modelled.
- `TempCtl`: temperatures lie on a grid that contains a point in every band of the
  control law and every open-loop target; the response of the physics is any
  move towards the target. tc2 follows tc1 and is left out.
- `FluxGraphClient`: a reading or a command is tagged "this" tick or "earlier"; the
  server is healthy or not, and may lose sessions when it degrades. In this
  program the reading cache is never hit, because paths are deduplicated and the
  cache is emptied at each tick; the hit is modelled all the same.
- `SignalRegistry`: a value is the number of times its owner changed it. One device
  per type mutex, one actuator and one sensor each.
- `DeviceFunctions`: a value is its type, whether it is finite, and a number or a
  text, duties and rates in hundredths; which integers, doubles and texts clients
  send are parameters. A chain of early returns is a sequence of checks with the code each would return.
  Of a call's effects it keeps those that later checks depend on. Injected faults
  are left to `DeviceCalls`.
- `AnalogSensor`: time in units of the clock, with cap and thresholds as parameters;
  drift in units of what accumulates per unit of time. Durations saturate at
  `Horizon`, beyond every threshold. The bases of the four channels and the drawn
  noise are left out; the noise level is kept.
- `MotorCtl`: a speed moves any part of its way per tick, at least one unit.
- `RelayIo`: what the engine publishes is a level in hundredths, read as `>= 0.5`.
- `Startup`: an argument stands with its value; a configuration is a record of what
  the validation tells apart. The validator is the SDK's and is taken to enforce
  what `config_schema.cpp` declares. The FluxGraph server may refuse the graph or
  the registration. RPCs are in `FluxGraphClient`.
- `LocalDevices`: devices of one process share nothing but the tick, so the
  instance registers a sensor with a relayio, and a motorctl by itself. In modes
  inert and sim only the relayio is followed: the physics of the others stands still.

## 3. The runs

| Run | States | Shows |
|---|---|---|
| `fault_store` | 212k | `ImplementsContract`: `FaultInjection` refines `FaultContract` |
| `device_calls` | 3.8M | `AdmittedStaysAvailable`, `GateHolds`, `CleanRequestUntouched`, `ListingIsHonest`, `ListedIsDescribable` |
| `device_calls_live` | 340k | `EveryJobFinishes` |
| `tick_schedule` | 23k | `PhaseAligned`, `NoBurst`, `SkipsOnlyMissed`, `StopIsSeen`, `KeepsTicking` |
| `lifecycle` | 420 | `TickerUsesLiveObjects`, `OneTicker`, `FlagMeansTicking`, `OrderlyExit`, `ShutdownCompletes`, `TicksAfterWaitReady` |
| `tempctl` | 54k | `ImplementsThermostat`, `OpenModeIsManual`, `ClosedPairIsCoherent`, `ClosedLoopSettles` |
| `remote_engine` | 2.8k | `ImplementsEngineContract`, `TickResultIsFresh`, `SessionCoherent`, `RpcBudget`, `RecoversWhileRegistered`, `TickReturns` |
| `signal_registry` | 563k | `NoCircularWait`, `ReadsAreFresh`, `NotFedBack` |
| `local_devices` | 84k | `GoodIsAccurate`, `DegradesNoEarlier`, `InputsAsDocumented`, `NoiseEndsInFault`, `SpeedSettles` |
| `startup` | 50k | `ServesOnlyWhatStarted`, `AcceptsWhatIsDocumented` |
| `device_functions` | 45k | `DeclaredIsEnforced`, `RefusalNamesTheDefect` |
| `crash_exit_code` | | a counterexample to `CrashExitCode`, see Disagreements |

The type invariants are checked too, as the first conjunct of
`AdmittedStaysAvailable`, `ClosedPairIsCoherent`, `SessionCoherent`,
`NoCircularWait`, `InputsAsDocumented`, `ServesOnlyWhatStarted` and
`DeclaredIsEnforced` in their runs. Those of `FaultInjection`, `TickSchedule` and
`PhysicsLifecycle` are proved (section 4).

Bounds and why they are enough:

- `fault_store`: one device (maps of different devices do not meet), two signals
  (a query of one erases the other's expired entries), two durations (re-injection
  longer and shorter), time past both. Overflow cannot happen with these durations.
- `device_calls`: two registered devices, interchangeable, so that a fault can expire
  between the two looks of a list. Three requests are the shortest sequence that injects, clears (or
  waits) and observes; one engine command lands anywhere between them. The clock
  runs freely to `MaxNow`, the instant a fault injected at the start expires, and
  beyond it as long as a thread sleeps. Of the arguments that chaos_control rejects
  this run keeps a missing one and a rate out of range; `device_calls_live`, with two
  requests, has them all.
- `tick_schedule`: period 3 lets a tick end inside its period, on the boundary and
  several periods late; `MaxNow` covers four periods. The proofs drop both bounds'
  values.
- `lifecycle`: three WaitReady requests; a thread identifier is never reused, so a
  leaked thread would be seen.
- `tempctl`: unbounded time; setpoints inside and outside the legal range.
- `remote_engine`: two paths, so that a session can be lost between two reads; time
  is unbounded.
- `signal_registry`: two published values tell old from new; every subset of the
  paths is tried as the driven ones.
- `device_functions`: every function with every assignment of the tried values to
  its arguments, numbers at and next to every bound; requests follow each other
  without bound. The proofs drop the choice of values.
- `local_devices`: thresholds of two and four caps, ticks up to twice the cap late;
  requests and time are unbounded, and the proofs drop these values. Top speeds at
  and beyond both ends of their range, a NaN, and three duties, so that a motor can
  be turned back in mid course in both directions. One following and one inverting
  input stand for the four; levels on both sides of one half.
- `startup`: at most two devices out of thirteen entries, every set of simulation
  keys in every mode, three arguments: enough for an argument before and after the
  one that selects a path. In mode sim this has every optional key, devices with
  `physics_bindings` and both builds, with and without a server, so that a refused
  documented configuration is told from a refusal of its engine (`RefusedByEngine`).

Deadlock is checked where the system runs for ever. In `device_calls`,
`device_calls_live`, `tick_schedule`, `lifecycle`, `remote_engine` and `startup` the
modelled run ends: requests run out, or the thread, the process, the client or the
startup is finished.

Fairness. Weak fairness of the steps of each thread that is inside the program:
the operating system schedules runnable threads, mutexes are held for bounded
code, sleeps end because the clock advances, and each RPC has a deadline. The
devices' modules assume the ticker keeps ticking, which `KeepsTicking` shows. Nothing
is assumed of clients (no request, no WaitReady, no end of input is forced), of
the server, or of the crash timer.

### Disagreements

Between the code and its documentation. The first has a run that ends in a
counterexample:

- `crash_exit_code`: `README.md:88` says the process exits with code 42. With a
  ticker running, `std::exit` destroys the joinable `g_ticker_thread`, which calls
  `std::terminate`: the process aborts.

The others were met while translating the code. The modules do what the code does,
and no property claims otherwise:

- `chaos_control_device.cpp:5` says chaos_control is always addressable. Faults
  injected into it turn away requests to it, clear_faults too (`ApplyChaos` takes it
  as a target). It stays in the list meanwhile (`AnswerList`), although
  `README.md:128` says an unavailable device is left out.
- `README.md:137` says a rule's function_id must be 1 or more. `"00"` is accepted
  (`ValidArgs` compares with the one string `"0"`).
- A fault is said to last until its duration expires (`fault_injection.hpp:43`). A
  duration beyond the clock's word gives a deadline in the past (`ExpiresAt`), so
  `Refinement` needs `DurationsFit`.
- `CHANGELOG.md:108` says non-finite doubles are rejected, and `README.md:142` that a
  rate lies between 0 and 1. `inject_call_failure` takes a NaN (`ChaosChecks`).
- `docs/devices/device_analogsensor0.md:20` says the quality sets the noise level.
  After `inject_noise(false)` a GOOD sensor keeps the noise of its old quality until
  the next tick; the theorem `NoiseCatchesUp` shows that this is the only case.
- `motorctl_device.cpp:64` says the range of `max_speed` is validated. A NaN passes
  (`OutOfValidRange`), and `SpeedSettles` sets it aside.
- `README.md:90` says a malformed argument exits 1. `--crash-after 5s` does not
  (`ParseArg`).

Observed and in conflict with no statement of the repository: after a failed
re-registration the remote engine never tries again (`RecoversWhileRegistered`
states recovery up to that point), and the commands of an update whose answer was
lost are gone.

## 4. The proofs

Every safety property that a run checks, the three refinements among them, is proved
for every value of the constants. Each proof finds an inductive invariant, shows
that `Init` establishes it, one lemma per action that the action keeps it, and that
it implies the property. The constants' assumptions (`ASSUME` in the modules) say
what kind of values they are and, for the model values that stand for "nothing",
that they are not one of the values they are told from. Those that say more state
what the code fixes: the tick period and the local engine's cap are positive, the
sensor's thresholds are ordered, chaos_control is not a registered device, and a
device of `SignalRegistry` is of one kind.

- `DeviceCallsProofs`. On `FaultInjection`: `StoreTypeCorrect`, the store is well
  typed whatever is injected, overflowing durations included, and `Refinement`: under
  `DurationsFit` (every deadline up to the clock's bound fits the word), the store
  implements `FaultContract`. The mapping shows the entries that are still live; the
  type invariant is inductive and suffices. The lemma `DeadlineExact` says that the
  machine's deadline is the mathematical one; without the hypothesis it is not, and
  a fault may never be in force. The steps that matter are the queries: erasing an
  expired entry must be a stutter of the contract.
  On `DeviceCalls`: `TypeCorrect` needs no hypothesis. `AdmittedIsServed`,
  `GateIsNotRevoked`, `ClearedMeansUntouched`, `HonestList` and
  `ListedStaysDescribable` assume `EngineSparesChaos`, the assumption explained in
  section 2. The argument is that only an injection makes a device unavailable or
  unreachable, that every other step lets faults only run out (`StoreQuiet`), and
  that only the request thread injects (`TickerNeverInjects`), in the last step of
  its request. So what one look at the store finds stays true through sleeps and
  engine commands (`Gated`, `GoneCovers`, `VouchedAvailable`), a list can be
  followed device by device (`ListProgress`), and "no fault since the last clear" means
  five neutral maps (`CleanMeansNeutral`). Deadlines may overflow here: wrapped
  deadlines too can only run out.
- `TickerProofs`. On `TickSchedule`: `StaysAligned`, `NeverBursts`, `SkipsAsNeeded`
  and `ScheduleTypeCorrect` from one inductive invariant. Its heart: a thread that
  will run another tick waits for an instant after the start of the tick it has run.
  That holds only while the flag is up, since a stop cuts the skip loop short.
  On `PhysicsLifecycle`: `TypeCorrect`, `ObjectsOutliveTicker`, `SingleTicker`,
  `FlagIsTruthful`, `ExitsOrderly` from an inductive invariant that ties the flag,
  the thread handle and the place of main to each other: only the thread main
  can join is in its loop, main keeps the objects while it owns a thread, and a
  thread leaves its loop only after the flag went down.
- `TempCtlProofs`. `ReadingIsFresh`, `PairIsCoherent` and the action property
  `OpenModeManual`, for every grid of temperatures and every setpoint asked for.
  `ClosedPairIsCoherent` speaks of the end of the collection only; the invariant
  follows it from the first of the two reads (`CollectedIsCurrent`). `Refinement`: the
  device implements `Thermostat`. The mapping takes the temperature that the registry
  shows, not the one read in the first half of `update_control`; that the two agree
  when the second half decides (`DecidesOnFreshReading`, part of the invariant) is
  what makes the control action indivisible, and `DecideRefines` is where it is used.
  All other steps of a tick are stutters but the engine's, which moves the temperature.
- `FluxGraphClientProofs`. `ResultIsFresh`, `SessionStaysCoherent`, `BudgetHolds`,
  for every set of paths and whatever the server does. The invariant adds that cache
  and pending commands hold nothing old while sensors are read, a re-registration in
  between included (`NothingStale`), and that the RPCs sent are accounted for by the
  attempts of the loop that runs and at most one re-registration (`Spent`).
  `Refinement`: the client implements `EngineContract`. The mapping folds `pc` into
  four phases and shows the sensors of a tick that succeeded only; every RPC inside a
  tick is then a stutter (`RpcRefines`), for which nothing may be left of the last
  result (`Unfinished`), and the step that takes the commands returns readings and
  commands of this tick by `NothingStale`.
- `SignalRegistryProofs`. `DeadlockFree`, `ReadsStayFresh`, `NeverFedBack`, for any
  devices, driven paths and changes. The invariant is stated per thread: a thread
  owns the registry mutex exactly in the registry's two sections and a state mutex
  only inside read_signals; from there it asks the registry for driven paths only,
  so the registry never calls back into the device (`PathFits`), which is what breaks
  the circle. What a thread saw when it began is a lower bound ever after
  (`FloorHolds`). `Undisturbed` says what a step must leave alone for the other
  thread's half of the invariant to survive it.
- `LocalDevicesProofs`. On the sensor alone: `SensorTypeCorrect`, `GoodStaysAccurate`,
  `NeverEarly`, `NoiseCatchesUp`, for every cap, every pair of thresholds and ticks
  however late. None of these is inductive alone. The invariant adds that drift never
  exceeds the timer and is none without noise (`DriftBounded`), that a degraded
  sensor has noise and a timer past its threshold (`TimerExplains`), and that what was
  simulated plus what the next tick will simulate was lived through, but for one step
  (`TimeIsReal`): the last is where the cap is needed. On the devices together:
  `SensorIsImplemented` shows each step of `LocalDevices` to be a step of
  `AnalogSensor` or to leave it alone, `GoodStaysAccurateLocally` and
  `NeverEarlyLocally` carry the sensor's results over, and `InputsStayAsDocumented`
  covers the relayio in its three modes.
- `StartupProofs`. `OnlyStartedIsServed` and `DocumentedIsAccepted`, for command
  lines and device lists of any length and any set of configuration files. The
  invariant keeps every entry in exactly one of three places, served, failed or
  still to come, by id and by count (`Accounted`); distinct ids, which the schema
  enforces, are needed for both. `ValidIsDocumented` and `DocumentedIsValid`
  compare the validation's rules with the mode matrix of the documentation; that
  distinct ids are as many ids as entries (`DistinctIdsCounted`) rests on the
  library's facts about surjections between finite sets. `EndsForAReason` carries
  the verdict on the configuration to the end of the process: a valid and complete
  one ends it with code 1 in mode sim only, from `CreateEngine` on and never under
  `--check-config`.

- `DeviceFunctionsProofs`. `DeclarationsEnforced` and `RefusalsNameDefect`, for any
  integers, doubles and texts and any sequence of requests. The two properties are
  inductive together, since they speak of the recorded request; the work is in the
  operators. The code of a chain of early returns is that of the first check that does
  not hold (`FirstFailure`, `NoFailure`), spelled out for the lengths that occur
  (`Verdict1` to `Verdict6`). `PlainArg`, `BoundedArg` and `IntegerArg` say when a
  value conforms to a declaration; one lemma per function sets its checks against its
  declaration (`Agrees`), one per device type collects them, and `SignalsDeclared`
  does the same for the signals.

Model-checked only: every liveness property (`EveryJobFinishes`, `StopIsSeen`,
`KeepsTicking`, `ShutdownCompletes`, `TicksAfterWaitReady`, `ClosedLoopSettles`,
`RecoversWhileRegistered`, `TickReturns`, `NoiseEndsInFault`, `SpeedSettles`), which
needs fairness and ENABLED, beyond the prover used here.

## 5. Not modelled

- YAML parsing, the schema validator and the run loop: the SDK's and libraries'.
- Labels, descriptions, units, polling hints and policies of the capabilities, the
  conversion of command arguments: data without control.
- The response curves (exponentials) and the normal distribution of the noise: the
  modules keep direction, bounds and limits of the movement.
- Logger: output only.
- Functions with no caller in the program: the file variant of `load_config`,
  `clear_physics_overrides`, `get_cached_value`, `get_physics_driven_signals`, the
  factory's `reset`, and the local engine's path without a loaded config.
- A thread that cannot be created, and device ids with a slash: see the hazards.

## 6. Plan

Done, in order of importance: the fault store with its contract, the request path,
the ticker's cadence, the lifecycle, the closed loop, the remote engine, the
registry with its locks; then the three other devices composed under the local
engine, the device functions, startup with factory and configuration, and the
queries on the request path.

Every safety property is proved, and three components are shown to implement an
abstract specification: the fault store, tempctl and the remote engine.

Possible extensions: the local and the null engine against `EngineContract`, which
needs the results of their ticks in `LocalDevices`; the failure of the thread
constructor in `start_physics`.
