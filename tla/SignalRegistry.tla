--------------------------- MODULE SignalRegistry ---------------------------
(***************************************************************************)
(* The signal registry between the devices and the engine, at the grain of   *)
(* its locks: the registry mutex, one state mutex per device module, and the *)
(* request thread and the ticker thread that take them.  read_signal hands   *)
(* an undriven path to the device reader, that is, back to the device.       *)
(*                                                                         *)
(* tempctl, motorctl and relayio copy their state and drop their mutex       *)
(* before they consult the registry; analogsensor keeps it.                  *)
(*                                                                         *)
(* Data abstraction: a value is the number of changes its owner, device or   *)
(* engine, made to it.  One actuator and one sensor per device stand for     *)
(* all; the second kind of device has sensors only.                          *)
(***************************************************************************)
EXTENDS Integers

CONSTANTS
    SnapshotDevices,  \* devices of type tempctl, motorctl, relayio
    HoldingDevices,   \* devices of type analogsensor
    Engines,          \* engines considered: "local", "remote"
    MaxChanges,       \* bound: changes of one value
    None              \* no value, no owner

ASSUME DisjointAssumption == SnapshotDevices \cap HoldingDevices = {}
ASSUME EnginesAssumption == Engines \subseteq {"local", "remote"}
ASSUME MaxChangesAssumption == MaxChanges \in Nat
ASSUME NoneAssumption == None \notin Nat \cup {"request", "ticker"}

Devices == SnapshotDevices \cup HoldingDevices
ActuatorPaths == [device : SnapshotDevices, signal : {"actuator"}]
SensorPaths == [device : Devices, signal : {"sensor"}]
Paths == ActuatorPaths \cup SensorPaths

\* What functions set: the actuators, and the drift of an analogsensor.
CallTargets == ActuatorPaths \cup [device : HoldingDevices, signal : {"sensor"}]

VARIABLES
    engine,
    physics_driven_signals_,
    signal_cache_,    \* path -> value published by the engine, or None
    value,            \* path -> value in the device's own state
    registry_mutex_,  \* owner, or None
    g_state_mutex,    \* device -> owner, or None
    pc, job,          \* thread -> where it stands, and in what
    inDevice,         \* thread -> inside the device's read_signals
    own,              \* thread -> the device's own value, as read_signals saw it
    result,           \* thread -> what the read yields, and from where
    floor             \* history: thread -> published and own value at its start

dataVars == <<engine, physics_driven_signals_, signal_cache_, value>>
lockVars == <<registry_mutex_, g_state_mutex>>
threadVars == <<job, inDevice, own, result, floor>>
vars == <<dataVars, lockVars, pc, threadVars>>

Threads == {"request", "ticker"}
Labels == {"idle", "state_lock", "driven_lock", "driven_test", "read_lock",
           "read_look", "write_lock", "finish"}
Kinds == {"read", "call", "collect", "control", "publish", "physics"}
Results == [from : {"device", "cache", "nothing"}, v : 0 .. MaxChanges]
Nothing == [from |-> "nothing", v |-> 0]
Floors == [cache : (1 .. MaxChanges) \cup {None}, own : 0 .. MaxChanges]
NoFloor == [cache |-> None, own |-> 0]
Published(p) == IF signal_cache_[p] = None THEN 0 ELSE signal_cache_[p]
Jobs == [kind : Kinds, path : Paths]
NoJob == [kind |-> "read", path |-> CHOOSE p \in SensorPaths : TRUE]

TypeOK ==
    /\ engine \in Engines
    /\ physics_driven_signals_ \subseteq Paths
    /\ signal_cache_ \in [Paths -> (1 .. MaxChanges) \cup {None}]
    /\ value \in [Paths -> 0 .. MaxChanges]
    /\ registry_mutex_ \in Threads \cup {None}
    /\ g_state_mutex \in [Devices -> Threads \cup {None}]
    /\ pc \in [Threads -> Labels]
    /\ job \in [Threads -> Jobs \cup {NoJob}]
    /\ \A t \in Threads : pc[t] # "idle" => job[t] \in Jobs
    /\ inDevice \in [Threads -> BOOLEAN]
    /\ own \in [Threads -> 0 .. MaxChanges]
    /\ result \in [Threads -> Results]
    /\ floor \in [Threads -> Floors]

\* mark_physics_driven runs before the ticker: the paths the graph drives.
Init ==
    /\ engine \in Engines
    /\ physics_driven_signals_ \in (IF engine = "remote" THEN SUBSET Paths ELSE {{}})
    /\ signal_cache_ = [p \in Paths |-> None]
    /\ value = [p \in Paths |-> 0]
    /\ registry_mutex_ = None
    /\ g_state_mutex = [d \in Devices |-> None]
    /\ pc = [t \in Threads |-> "idle"]
    /\ job = [t \in Threads |-> NoJob]
    /\ inDevice = [t \in Threads |-> FALSE]
    /\ own = [t \in Threads |-> 0]
    /\ result = [t \in Threads |-> Nothing]
    /\ floor = [t \in Threads |-> NoFloor]

Goto(t, label) == pc' = [pc EXCEPT ![t] = label]
Path(t) == job[t].path
Device(t) == job[t].path.device
Driven(t) == Path(t) \in physics_driven_signals_

\* Back in the run loop or the ticker loop: nothing of the job is left.
Return(t) ==
    /\ Goto(t, "idle")
    /\ job' = [job EXCEPT ![t] = NoJob]
    /\ inDevice' = [inDevice EXCEPT ![t] = FALSE]
    /\ own' = [own EXCEPT ![t] = 0]
    /\ result' = [result EXCEPT ![t] = Nothing]
    /\ floor' = [floor EXCEPT ![t] = NoFloor]

-----------------------------------------------------------------------------
(* The threads' work *)

Begin(t, kind, p, label) ==
    /\ pc[t] = "idle"
    /\ Goto(t, label)
    /\ job' = [job EXCEPT ![t] = [kind |-> kind, path |-> p]]
    /\ floor' = [floor EXCEPT ![t] = [cache |-> signal_cache_[p], own |-> value[p]]]
    /\ UNCHANGED <<dataVars, lockVars, inDevice, own, result>>

\* A ReadSignals request.
BeginRead == \E p \in Paths : Begin("request", "read", p, "state_lock")

\* A CallFunction request, or a command of the engine.
BeginCall == \E t \in Threads, p \in CallTargets :
    /\ t = "ticker" => engine = "remote"
    /\ value[p] < MaxChanges
    /\ Begin(t, "call", p, "state_lock")

\* The phases of a tick, path by path: update_control's reading,
\* maybe_collect_signal, the local engine's update_physics, write_signal of a
\* published sensor.
BeginControl == \E p \in SensorPaths :
    p.device \in SnapshotDevices /\ Begin("ticker", "control", p, "read_lock")
BeginCollect == \E p \in ActuatorPaths : Begin("ticker", "collect", p, "driven_lock")
BeginPhysics == \E p \in SensorPaths :
    engine = "local" /\ value[p] < MaxChanges /\ Begin("ticker", "physics", p, "state_lock")
BeginPublish == \E p \in physics_driven_signals_ :
    Published(p) < MaxChanges /\ Begin("ticker", "publish", p, "write_lock")

-----------------------------------------------------------------------------
(* The devices *)

ChangeValue(t) ==
    /\ pc[t] = "state_lock"
    /\ g_state_mutex[Device(t)] = None
    /\ value' = [value EXCEPT ![Path(t)] = IF @ < MaxChanges THEN @ + 1 ELSE @]
    /\ Return(t)
    /\ UNCHANGED <<engine, physics_driven_signals_, signal_cache_, lockVars>>

\* call_function and update_physics: one critical section each.
CallFunction(t) == job[t].kind = "call" /\ ChangeValue(t)
UpdatePhysics(t) == job[t].kind = "physics" /\ ChangeValue(t)

\* read_signals: lock, look at the own state, and ask the registry.
EnterReadSignals(t, owner) ==
    /\ pc[t] = "state_lock" /\ job[t].kind \in {"read", "collect", "control"}
    /\ g_state_mutex[Device(t)] = None
    /\ g_state_mutex' = [g_state_mutex EXCEPT ![Device(t)] = owner]
    /\ own' = [own EXCEPT ![t] = value[Path(t)]]
    /\ inDevice' = [inDevice EXCEPT ![t] = TRUE]
    /\ Goto(t, "driven_lock")
    /\ UNCHANGED <<dataVars, registry_mutex_, job, result, floor>>

\* tempctl, motorctl and relayio unlock once they have their copy; analogsensor
\* stays locked to its end.
CopyState(t) == Device(t) \in SnapshotDevices /\ EnterReadSignals(t, None)
KeepMutex(t) == Device(t) \in HoldingDevices /\ EnterReadSignals(t, t)

FromDevice(t) == [from |-> "device", v |-> own[t]]
FromCache(t) == [from |-> "cache", v |-> signal_cache_[Path(t)]]

Answer(t, r) ==
    /\ result' = [result EXCEPT ![t] = r]
    /\ Goto(t, "finish")

\* The end of read_signals, of a collection or of a reading.
Finish(t) ==
    /\ pc[t] = "finish"
    /\ g_state_mutex' = [d \in Devices |->
           IF g_state_mutex[d] = t THEN None ELSE g_state_mutex[d]]
    /\ Return(t)
    /\ UNCHANGED <<dataVars, registry_mutex_>>

-----------------------------------------------------------------------------
(* The registry *)

LockRegistry(t) ==
    /\ registry_mutex_ = None
    /\ registry_mutex_' = t
    /\ \/ pc[t] = "driven_lock" /\ Goto(t, "driven_test")
       \/ pc[t] = "read_lock" /\ Goto(t, "read_look")
    /\ UNCHANGED <<dataVars, g_state_mutex, threadVars>>

\* Mutant: maybe_collect_signal does not ask.
MutantCollectAll(t) ==
    /\ pc[t] = "driven_test"
    /\ registry_mutex_' = None
    /\ \/ /\ ~inDevice[t] \/ Driven(t)
          /\ Goto(t, "read_lock")
          /\ UNCHANGED result
       \/ /\ inDevice[t] /\ ~Driven(t)
          /\ Answer(t, FromDevice(t))
    /\ UNCHANGED <<dataVars, g_state_mutex, job, inDevice, own, floor>>

\* is_physics_driven, for maybe_collect_signal (a driven path is not fed back)
\* and for a device's read_signals (an undriven path is its own).
IsPhysicsDriven(t) ==
    /\ pc[t] = "driven_test"
    /\ registry_mutex_' = None
    /\ \/ /\ inDevice[t] = Driven(t)
          /\ Goto(t, "read_lock")
          /\ UNCHANGED result
       \/ /\ inDevice[t] /\ ~Driven(t)
          /\ Answer(t, FromDevice(t))
       \/ /\ ~inDevice[t] /\ Driven(t)
          /\ Answer(t, Nothing)
    /\ UNCHANGED <<dataVars, g_state_mutex, job, inDevice, own, floor>>

\* Mutant: the device's own value wins over the published one.
MutantOwnWins(t) ==
    CASE inDevice[t] -> FromDevice(t)
      [] ~inDevice[t] /\ signal_cache_[Path(t)] # None -> FromCache(t)
      [] ~inDevice[t] /\ signal_cache_[Path(t)] = None -> Nothing

\* value_or: a published value, else the device's own; a driven path that was
\* not published yet has none for the other readers.
DrivenValue(t) ==
    CASE signal_cache_[Path(t)] # None -> FromCache(t)
      [] signal_cache_[Path(t)] = None /\ inDevice[t] -> FromDevice(t)
      [] signal_cache_[Path(t)] = None /\ ~inDevice[t] -> Nothing

\* The device reader: read_signals of the path's device, unless a fault makes
\* the device unavailable.
DeviceReader(t) ==
    \/ Goto(t, "state_lock") /\ UNCHANGED result
    \/ Answer(t, Nothing)

\* Mutant: the registry mutex is held across the call of the device reader.
MutantHoldAcrossReader(t) ==
    /\ pc[t] = "read_look"
    /\ \/ /\ Driven(t)
          /\ registry_mutex_' = None
          /\ Answer(t, DrivenValue(t))
       \/ /\ ~Driven(t)
          /\ DeviceReader(t)
          /\ UNCHANGED registry_mutex_
    /\ UNCHANGED <<dataVars, g_state_mutex, job, inDevice, own, floor>>

\* read_signal: the cached value of a driven path, else the device reader,
\* "WITHOUT holding mutex".
ReadSignal(t) ==
    /\ pc[t] = "read_look"
    /\ registry_mutex_' = None
    /\ \/ /\ Driven(t)
          /\ Answer(t, DrivenValue(t))
       \/ /\ ~Driven(t)
          /\ DeviceReader(t)
    /\ UNCHANGED <<dataVars, g_state_mutex, job, inDevice, own, floor>>

\* write_signal: one critical section.
WriteSignal(t) ==
    /\ pc[t] = "write_lock"
    /\ registry_mutex_ = None
    /\ physics_driven_signals_' = physics_driven_signals_ \cup {Path(t)}
    /\ signal_cache_' = [signal_cache_ EXCEPT ![Path(t)] = Published(Path(t)) + 1]
    /\ Return(t)
    /\ UNCHANGED <<engine, value, lockVars>>

-----------------------------------------------------------------------------

Step(t) ==
    \/ CallFunction(t) \/ UpdatePhysics(t)
    \/ CopyState(t) \/ KeepMutex(t) \/ Finish(t)
    \/ LockRegistry(t) \/ IsPhysicsDriven(t) \/ ReadSignal(t) \/ WriteSignal(t)

Next ==
    \/ BeginRead \/ BeginCall
    \/ BeginControl \/ BeginCollect \/ BeginPhysics \/ BeginPublish
    \/ \E t \in Threads : Step(t)

Spec == Init /\ [][Next]_vars

-----------------------------------------------------------------------------
(* Properties *)

\* The thread that must give way before t can go on, or None.
WaitsFor(t) ==
    CASE pc[t] = "state_lock" -> g_state_mutex[Device(t)]
      [] pc[t] \in {"driven_lock", "read_lock", "write_lock"} -> registry_mutex_
      [] OTHER -> None

\* "Call device_reader WITHOUT holding mutex to avoid deadlock"
\* (signal_registry.cpp:29): no thread waits for itself, although a read
\* re-enters the registry and the device through the reader, and the two
\* threads never wait for each other, although analogsensor nests its mutex
\* outside the registry's.
NoCircularWait ==
    /\ TypeOK
    /\ \A t \in Threads :
          WaitsFor(t) # None => WaitsFor(t) # t /\ WaitsFor(WaitsFor(t)) # t

\* A request sees what the engine published last before it began, or newer,
\* and never the device's own value of a driven path again once one was
\* published; of an undriven path it sees the device's latest state.
ReadsAreFresh ==
    LET r == result["request"]  f == floor["request"] IN
    (pc["request"] = "finish" /\ job["request"].kind = "read") =>
       IF f.cache # None
       THEN r.from = "cache" /\ r.v >= f.cache
       ELSE r.from # "nothing" /\ (r.from = "device" => r.v >= f.own)

\* "the provider must not feed them back in here" (device_manager.cpp:113): a
\* collected actuator is live state of its device, at most as old as the
\* collection, never a value the engine published.
NotFedBack ==
    LET r == result["ticker"] IN
    (pc["ticker"] = "finish" /\ job["ticker"].kind = "collect") =>
       r.from # "cache" /\ (r.from = "device" => r.v >= floor["ticker"].own)
=============================================================================
