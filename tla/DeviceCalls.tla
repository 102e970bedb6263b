---------------------------- MODULE DeviceCalls ----------------------------
(***************************************************************************)
(* The request path of the provider and the faults on it: how a list, a     *)
(* description, a read or a call travels through SimProviderRuntime and the *)
(* device manager, one locked section of the fault store at a time, while   *)
(* the ticker thread sends engine commands down the same path and the clock *)
(* moves.                                                                   *)
(*                                                                         *)
(* Threads.  "request" is the SDK's run loop, which handles one request at  *)
(* a time.  "ticker" runs execute_engine_command.  A call to chaos_control  *)
(* is a call like any other: the faults it injects can hit chaos_control    *)
(* itself.                                                                  *)
(***************************************************************************)
EXTENDS FaultStore

CONSTANTS
    Chaos,          \* the id "chaos_control"
    Registered,     \* devices in the DeviceFactory registry
    EngineTargets,  \* devices the simulation backend sends commands to
    DeviceFunctions, \* function ids of the registered devices
    DurationArgs,   \* duration_ms arguments that clients send
    LatencyArgs,    \* latency_ms arguments that clients send
    Malformed,      \* functions that clients call with an argument missing
    MaxRequests,    \* bound: requests the client sends
    MaxCommands,    \* bound: commands the engine sends
    MaxNow          \* bound: from here on only a sleeping thread moves the clock

ASSUME ChaosAssumption == Chaos \in Devices /\ Chaos \notin Registered
ASSUME RegisteredAssumption == Registered \subseteq Devices
ASSUME EngineTargetsAssumption == EngineTargets \subseteq Devices
ASSUME ArgsAssumption ==
    /\ DurationArgs \subseteq Int
    /\ LatencyArgs \subseteq Int
ASSUME BoundsAssumption == {MaxRequests, MaxCommands, MaxNow} \subseteq Nat

VARIABLES
    pc,         \* thread -> where it stands in the path
    job,        \* thread -> the request or command it handles
    wake,       \* thread -> end of its latency sleep
    reply,      \* thread -> status of its last finished job
    started,    \* thread -> jobs begun so far
    faultFree,  \* history: no fault was injected since the start or clear_faults
    vouched     \* history: devices of the last list, if no fault was injected since

historyVars == <<faultFree, vouched>>
callVars == <<pc, job, wake, reply, started, historyVars>>
vars == <<now, storeVars, callVars>>

Threads == {"request", "ticker"}

-----------------------------------------------------------------------------
(* Jobs *)

\* A function_id string: its number, and whether it has leading zeros.  A
\* string that is not numeric fails the same way as a missing one.
FunctionString == [value : Nat, padded : BOOLEAN]
FunctionIdString(function_id) == [value |-> function_id, padded |-> FALSE]
ASSUME FunctionStringsAssumption == FunctionStrings \subseteq FunctionString

kFnInjectDeviceUnavailable == 1
kFnInjectSignalFault == 2
kFnInjectCallLatency == 3
kFnInjectCallFailure == 4
kFnClearFaults == 5
kFnInjectDeviceUnreachable == 6

Injections == {kFnInjectDeviceUnavailable, kFnInjectSignalFault, kFnInjectCallLatency,
               kFnInjectCallFailure, kFnInjectDeviceUnreachable}
ASSUME MalformedAssumption == Malformed \subseteq Injections

\* What clients send to chaos_control.  In a missing call one of the required
\* arguments is absent, has the wrong type or is a non-numeric function_id.
ChaosArgs ==
    [fn : {kFnInjectDeviceUnavailable, kFnInjectDeviceUnreachable},
     target : Devices, duration_ms : DurationArgs]
    \cup
    [fn : {kFnInjectSignalFault}, target : Devices, signal_id : Signals,
     duration_ms : DurationArgs]
    \cup
    [fn : {kFnInjectCallLatency}, target : Devices, latency_ms : LatencyArgs]
    \cup
    [fn : {kFnInjectCallFailure}, target : Devices, function_id : FunctionStrings,
     rate : Rates \cup {"out_of_range"}]
    \cup
    [fn : Malformed, missing : {TRUE}]
    \cup
    [fn : {kFnClearFaults, 0}]  \* 0 stands for any unknown function

\* chaos_control checks its arguments before it touches the store.
ValidArgs(a) ==
    /\ "missing" \notin DOMAIN a
    /\ a.fn \in {kFnInjectDeviceUnavailable, kFnInjectDeviceUnreachable,
                 kFnInjectSignalFault} => a.duration_ms > 0
    /\ a.fn = kFnInjectCallLatency => a.latency_ms >= 0
    /\ a.fn = kFnInjectCallFailure =>
          a.function_id # FunctionIdString(0) /\ a.rate \in Rates

ArgsFor(d) == IF d = Chaos THEN ChaosArgs ELSE [fn : DeviceFunctions]

\* Two history fields: clean, the store held no fault when the job began; gone,
\* the devices that were unavailable then.
Gone == {d \in Devices : DeviceUnavailable(d)}

\* A list has the registered devices still to be looked at in todo and the ones
\* it answers with in listed.
ListJob == [kind |-> "list", todo |-> Registered, listed |-> {}, gone |-> Gone,
            clean |-> faultFree]
DescribeJob(d) == [kind |-> "describe", device |-> d, gone |-> Gone, clean |-> faultFree]
ReadJob(d, s) == [kind |-> "read", device |-> d, signal |-> s, gone |-> Gone,
                  clean |-> faultFree]
CallJob(d, a) == [kind |-> "call", device |-> d, args |-> a, clean |-> faultFree]
ResolveJob(d) == [kind |-> "resolve", device |-> d, clean |-> faultFree]
NoJob == [kind |-> "none"]

Jobs ==
    [kind : {"list"}, todo : SUBSET Registered, listed : SUBSET Devices,
     gone : SUBSET Devices, clean : BOOLEAN]
    \cup
    [kind : {"describe"}, device : Devices, gone : SUBSET Devices, clean : BOOLEAN]
    \cup
    [kind : {"read"}, device : Devices, signal : Signals, gone : SUBSET Devices,
     clean : BOOLEAN]
    \cup
    (UNION {[kind : {"call"}, device : {d}, args : ArgsFor(d), clean : BOOLEAN] : d \in Devices})
    \cup
    [kind : {"resolve"}, device : Devices, clean : BOOLEAN]

-----------------------------------------------------------------------------
(* The path *)

\* adapter_by_id finds the built-in chaos device and the registered ones.
HasAdapter(d) == d = Chaos \/ d \in Registered

Goto(t, label) == pc' = [pc EXCEPT ![t] = label] /\ UNCHANGED reply
Finish(t, status) ==
    /\ pc' = [pc EXCEPT ![t] = "idle"]
    /\ reply' = [reply EXCEPT ![t] = status]

Begin(t, label, j) ==
    /\ pc[t] = "idle"
    /\ pc' = [pc EXCEPT ![t] = label]
    /\ job' = [job EXCEPT ![t] = j]
    /\ reply' = [reply EXCEPT ![t] = "pending"]
    /\ started' = [started EXCEPT ![t] = @ + 1]
    /\ UNCHANGED <<now, storeVars, wake, historyVars>>

BeginList ==
    /\ started["request"] < MaxRequests
    /\ Begin("request", "list_devices", ListJob)

BeginDescribe ==
    /\ started["request"] < MaxRequests
    /\ \E d \in Devices : Begin("request", "has_device", DescribeJob(d))

BeginRead ==
    /\ started["request"] < MaxRequests
    /\ \E d \in Devices, s \in Signals : Begin("request", "has_device", ReadJob(d, s))

BeginCall ==
    /\ started["request"] < MaxRequests
    /\ \E d \in Devices : \E a \in ArgsFor(d) :
          Begin("request", "is_device_unreachable", CallJob(d, a))

\* A call by name.  The names a served device declares are in the cache since
\* the start and cost no look at the store: such a call goes on as BeginCall.
\* Any other name is looked up in the description.
BeginCallByName ==
    /\ started["request"] < MaxRequests
    /\ \E d \in Devices : Begin("request", "resolve_function_id", ResolveJob(d))

\* execute_engine_command calls the device manager directly, past the
\* unreachable check of the runtime.
BeginCommand ==
    /\ started["ticker"] < MaxCommands
    /\ \E d \in EngineTargets : \E a \in ArgsFor(d) :
          Begin("ticker", "is_device_unavailable", CallJob(d, a))

\* Mutant: a device that cannot be reached is left out too.
MutantListReachable(t) ==
    /\ pc[t] = "list_devices" /\ job[t].todo # {}
    /\ \E d \in job[t].todo :
          /\ IsDeviceUnavailable(d)
          /\ job' = [job EXCEPT ![t].todo = @ \ {d},
                                ![t].listed = IF DeviceUnavailable(d) \/ DeviceUnreachable(d)
                                              THEN @ ELSE @ \cup {d}]
    /\ UNCHANGED <<now, pc, reply, wake, started, historyVars>>

\* One turn of the loop of list_devices, which asks the store about each
\* registered device in turn.
ListDevice(t) ==
    /\ pc[t] = "list_devices" /\ job[t].todo # {}
    /\ \E d \in job[t].todo :
          /\ IsDeviceUnavailable(d)
          /\ job' = [job EXCEPT ![t].todo = @ \ {d},
                                ![t].listed = IF DeviceUnavailable(d) THEN @ ELSE @ \cup {d}]
    /\ UNCHANGED <<now, pc, reply, wake, started, historyVars>>

\* chaos_control is added at the end, whatever the store says of it.
AnswerList(t) ==
    /\ pc[t] = "list_devices" /\ job[t].todo = {}
    /\ job' = [job EXCEPT ![t].listed = @ \cup {Chaos}]
    /\ vouched' = job[t].listed
    /\ Finish(t, "listed")
    /\ UNCHANGED <<now, storeVars, wake, started, faultFree>>

\* Where the SDK's handler goes on from has_device.
AfterGate(t) == IF job[t].kind = "describe" THEN "describe_device" ELSE "is_device_unreachable"

\* Mutant: has_device only looks for the adapter.
MutantHasAdapterOnly(t) ==
    /\ pc[t] = "has_device"
    /\ IF HasAdapter(job[t].device) THEN Goto(t, AfterGate(t)) ELSE Finish(t, "not_found")
    /\ UNCHANGED <<now, storeVars, job, wake, started, historyVars>>

\* Mutant: has_device takes an unreachable device for an unavailable one.
MutantHasReachableDevice(t) ==
    /\ pc[t] = "has_device"
    /\ LET d == job[t].device IN
       /\ IsDeviceUnavailable(d)
       /\ IF DeviceUnavailable(d) \/ DeviceUnreachable(d) \/ ~HasAdapter(d)
          THEN Finish(t, "not_found")
          ELSE Goto(t, AfterGate(t))
    /\ UNCHANGED <<now, job, wake, started, historyVars>>

\* The SDK gates descriptions and reads on has_device.
CheckHasDevice(t) ==
    /\ pc[t] = "has_device"
    /\ LET d == job[t].device IN
       /\ IsDeviceUnavailable(d)
       /\ IF DeviceUnavailable(d) \/ ~HasAdapter(d)
          THEN Finish(t, "not_found")
          ELSE Goto(t, AfterGate(t))
    /\ UNCHANGED <<now, job, wake, started, historyVars>>

\* describe_device asks again; an unavailable device has an empty description.
DescribeDevice(t) ==
    /\ pc[t] = "describe_device"
    /\ LET d == job[t].device IN
       /\ IsDeviceUnavailable(d)
       /\ Finish(t, IF DeviceUnavailable(d) \/ ~HasAdapter(d) THEN "empty" ELSE "described")
    /\ UNCHANGED <<now, job, wake, started, historyVars>>

\* resolve_function_id through describe_device, for a name not declared.
ResolveFunctionId(t) ==
    /\ pc[t] = "resolve_function_id"
    /\ IsDeviceUnavailable(job[t].device)
    /\ Finish(t, "not_found")
    /\ UNCHANGED <<now, job, wake, started, historyVars>>

\* Mutant: calls skip the unreachable test, only reads make it.
MutantCallsSkipUnreachable(t) ==
    /\ pc[t] = "is_device_unreachable"
    /\ LET d == job[t].device IN
       /\ IsDeviceUnreachable(d)
       /\ IF job[t].kind = "read" /\ DeviceUnreachable(d)
          THEN Finish(t, "unreachable")
          ELSE Goto(t, "is_device_unavailable")
    /\ UNCHANGED <<now, job, wake, started, historyVars>>

\* SimProviderRuntime::read and ::call.
CheckUnreachable(t) ==
    /\ pc[t] = "is_device_unreachable"
    /\ LET d == job[t].device IN
       /\ IsDeviceUnreachable(d)
       /\ IF DeviceUnreachable(d)
          THEN Finish(t, "unreachable")
          ELSE Goto(t, "is_device_unavailable")
    /\ UNCHANGED <<now, job, wake, started, historyVars>>

\* First test of the device manager's read_signals and call_function.  A read
\* of an unavailable device yields an empty answer.
CheckUnavailable(t) ==
    /\ pc[t] = "is_device_unavailable"
    /\ LET d == job[t].device IN
       /\ IsDeviceUnavailable(d)
       /\ \/ /\ job[t].kind = "call"
             /\ IF DeviceUnavailable(d) THEN Finish(t, "unavailable")
                                        ELSE Goto(t, "get_call_latency")
          \/ /\ job[t].kind = "read"
             /\ IF DeviceUnavailable(d) \/ ~HasAdapter(d)
                THEN Finish(t, "empty")
                ELSE Goto(t, "is_signal_faulted")
    /\ UNCHANGED <<now, job, wake, started, historyVars>>

\* The device produced a value; an injected signal fault degrades its quality.
\* chaos_control has no signals, so nothing is looked up for it.
MarkQuality(t) ==
    /\ pc[t] = "is_signal_faulted"
    /\ LET d == job[t].device  s == job[t].signal IN
       \/ /\ d = Chaos
          /\ Finish(t, "good")
          /\ UNCHANGED storeVars
       \/ /\ d # Chaos
          /\ IsSignalFaulted(d, s)
          /\ Finish(t, IF SignalFaulted(d, s) THEN "fault" ELSE "good")
    /\ UNCHANGED <<now, job, wake, started, historyVars>>

ReadLatency(t) ==
    /\ pc[t] = "get_call_latency"
    /\ LET latency_ms == CallLatency(job[t].device) IN
       IF latency_ms > 0
       THEN /\ wake' = [wake EXCEPT ![t] = now + latency_ms * TicksPerMs]
            /\ Goto(t, "sleep_for")
       ELSE /\ Goto(t, "should_call_fail")
            /\ UNCHANGED wake
    /\ UNCHANGED <<now, storeVars, job, started, historyVars>>

\* Mutant: the sleep ends only if the thread looks at the exact instant.
MutantWakeExactly(t) ==
    /\ pc[t] = "sleep_for"
    /\ now = wake[t]
    /\ Goto(t, "should_call_fail")
    /\ UNCHANGED <<now, storeVars, job, wake, started, historyVars>>

WakeUp(t) ==
    /\ pc[t] = "sleep_for"
    /\ now >= wake[t]
    /\ Goto(t, "should_call_fail")
    /\ UNCHANGED <<now, storeVars, job, wake, started, historyVars>>

\* No rule for the function: no failure.
FailureSamples(d, f) ==
    IF f \in FunctionStrings THEN ShouldCallFail(d, f) ELSE {FALSE}

SampleFailure(t) ==
    /\ pc[t] = "should_call_fail"
    /\ LET d == job[t].device IN
       \E fails \in FailureSamples(d, FunctionIdString(job[t].args.fn)) :
          IF fails THEN Finish(t, "failed")
          ELSE IF ~HasAdapter(d) THEN Finish(t, "not_found")
          ELSE Goto(t, "apply")
    /\ UNCHANGED <<now, storeVars, job, wake, started, historyVars>>

\* The device's own call_function: accepts or rejects, no fault is involved.
ApplyDevice(t) ==
    /\ pc[t] = "apply" /\ job[t].device # Chaos
    /\ \E status \in {"ok", "rejected"} : Finish(t, status)
    /\ UNCHANGED <<now, storeVars, job, wake, started, historyVars>>

\* chaos_control::call_function.
ApplyChaos(t) ==
    /\ pc[t] = "apply" /\ job[t].device = Chaos
    /\ LET a == job[t].args IN
       \/ /\ ~ValidArgs(a)
          /\ Finish(t, "rejected")
          /\ UNCHANGED <<storeVars, historyVars>>
       \/ /\ ValidArgs(a)
          /\ \/ /\ a.fn = kFnInjectDeviceUnavailable
                /\ InjectDeviceUnavailable(a.target, a.duration_ms)
             \/ /\ a.fn = kFnInjectSignalFault
                /\ InjectSignalFault(a.target, a.signal_id, a.duration_ms)
             \/ /\ a.fn = kFnInjectCallLatency
                /\ InjectCallLatency(a.target, a.latency_ms)
             \/ /\ a.fn = kFnInjectCallFailure
                /\ InjectCallFailure(a.target, a.function_id, a.rate)
             \/ /\ a.fn = kFnInjectDeviceUnreachable
                /\ InjectDeviceUnreachable(a.target, a.duration_ms)
          /\ Finish(t, "ok")
          /\ faultFree' = FALSE /\ vouched' = {}
       \/ /\ a.fn = kFnClearFaults
          /\ ClearAllFaults
          /\ Finish(t, "ok")
          /\ faultFree' = TRUE /\ UNCHANGED vouched
       \/ /\ a.fn = 0
          /\ Finish(t, "not_found")
          /\ UNCHANGED <<storeVars, historyVars>>
    /\ UNCHANGED <<now, job, wake, started>>

Step(t) ==
    \/ ListDevice(t)
    \/ AnswerList(t)
    \/ CheckHasDevice(t)
    \/ DescribeDevice(t)
    \/ ResolveFunctionId(t)
    \/ CheckUnreachable(t)
    \/ CheckUnavailable(t)
    \/ MarkQuality(t)
    \/ ReadLatency(t)
    \/ WakeUp(t)
    \/ SampleFailure(t)
    \/ ApplyDevice(t)
    \/ ApplyChaos(t)

AdvanceClock ==
    /\ now < MaxNow \/ \E t \in Threads : pc[t] = "sleep_for" /\ now < wake[t]
    /\ now' = now + 1
    /\ UNCHANGED <<storeVars, callVars>>

Init ==
    /\ StoreInit
    /\ pc = [t \in Threads |-> "idle"]
    /\ job = [t \in Threads |-> NoJob]
    /\ wake = [t \in Threads |-> 0]
    /\ reply = [t \in Threads |-> "none"]
    /\ started = [t \in Threads |-> 0]
    /\ faultFree = TRUE /\ vouched = {}

Next ==
    \/ BeginList \/ BeginDescribe \/ BeginRead
    \/ BeginCall \/ BeginCallByName \/ BeginCommand
    \/ \E t \in Threads : Step(t)
    \/ AdvanceClock

(***************************************************************************)
(* Fairness: a thread inside the path keeps running, and time passes.       *)
(***************************************************************************)
Fairness == (\A t \in Threads : WF_vars(Step(t))) /\ WF_vars(AdvanceClock)

Spec == Init /\ [][Next]_vars /\ Fairness

-----------------------------------------------------------------------------
(* Properties *)

Labels == {"idle", "list_devices", "has_device", "describe_device",
           "resolve_function_id", "is_device_unreachable", "is_device_unavailable",
           "is_signal_faulted", "get_call_latency", "sleep_for", "should_call_fail", "apply"}
Replies == {"none", "pending", "not_found", "unreachable", "unavailable", "empty",
            "listed", "described", "good", "fault", "failed", "rejected", "ok"}

\* The kinds of job that can stand at a label.
KindsAt(label) ==
    CASE label = "list_devices" -> {"list"}
      [] label = "has_device" -> {"describe", "read"}
      [] label = "describe_device" -> {"describe"}
      [] label = "resolve_function_id" -> {"resolve"}
      [] label \in {"is_device_unreachable", "is_device_unavailable"} -> {"read", "call"}
      [] label = "is_signal_faulted" -> {"read"}
      [] OTHER -> {"call"}

TypeOK ==
    /\ StoreTypeOK
    /\ pc \in [Threads -> Labels]
    /\ reply \in [Threads -> Replies]
    /\ wake \in [Threads -> Nat]
    /\ started \in [Threads -> Nat]
    /\ faultFree \in BOOLEAN /\ vouched \subseteq Registered
    /\ job \in [Threads -> Jobs \cup {NoJob}]
    /\ \A t \in Threads : pc[t] # "idle" =>
          /\ job[t] \in Jobs /\ job[t].kind \in KindsAt(pc[t])
          /\ job[t].kind = "list" => job[t].listed \subseteq Registered \ job[t].todo

\* Where the availability of the device has been established.
PastUnavailable == {"is_signal_faulted", "get_call_latency", "sleep_for",
                    "should_call_fail", "apply"}

\* A request admitted by the availability tests of call_function, read and
\* read_signals is served on a device that is still available and reachable,
\* however long the injected latency held it: faults only expire meanwhile,
\* because the single request thread is also the only one that injects them.
AdmittedStaysAvailable ==
    LET d == job["request"].device IN
    /\ TypeOK
    /\ pc["request"] \in PastUnavailable =>
          ~DeviceUnavailable(d) /\ ~DeviceUnreachable(d)
    /\ pc["request"] = "is_device_unavailable" => ~DeviceUnreachable(d)

\* A read or a description that the SDK let through because has_device said yes
\* never comes back empty: read_signals and describe_device repeat the test
\* later and, again, a fault can only have expired in between.
GateHolds == reply["request"] # "empty"

\* clear_faults "Removes every active fault" (README.md:132): a request begun
\* when nothing was injected since is not failed, delayed or degraded by any
\* of the five kinds of fault, and a list is complete.
CleanRequestUntouched == job["request"] # NoJob /\ job["request"].clean =>
    /\ reply["request"] \notin {"unreachable", "unavailable", "failed", "fault"}
    /\ reply["request"] = "listed" => Registered \subseteq job["request"].listed
    /\ pc["request"] # "sleep_for"

\* Faults may expire while a list is put together device by device; still a
\* registered device that is left out was unavailable when the request came, and
\* one that is listed is available when it is answered (device_manager.cpp:389).
ListingIsHonest == reply["request"] = "listed" =>
    LET listed == job["request"].listed IN
    /\ Registered \ listed \subseteq job["request"].gone
    /\ \A d \in Registered \cap listed : ~DeviceUnavailable(d)

\* A client that lists the devices and then asks about one of them is not told
\* NOT_FOUND, unless a fault was injected in between; an unreachable device
\* "stays listed and DescribeDevice still answers" (README.md:133).  NOT_FOUND
\* tells the truth about the moment the request came.
ListedIsDescribable ==
    reply["request"] = "not_found" /\ job["request"].kind \in {"describe", "read"} =>
        LET d == job["request"].device IN
        d \notin vouched /\ (HasAdapter(d) => d \in job["request"].gone)

\* Every request and every engine command is answered, whatever latency is
\* in force and whatever is injected while it sleeps.
EveryJobFinishes == \A t \in Threads : pc[t] # "idle" ~> pc[t] = "idle"
=============================================================================
