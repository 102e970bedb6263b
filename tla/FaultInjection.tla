--------------------------- MODULE FaultInjection ---------------------------
(***************************************************************************)
(* The fault store driven by arbitrary callers: any sequence of the public  *)
(* functions of chaos/fault_injection.hpp, in any order, by any thread (one *)
(* mutex makes them atomic), while the steady clock advances.  The entries   *)
(* of the store outlive their deadline until somebody asks about them; this *)
(* module says what a caller can see of that.                               *)
(***************************************************************************)
EXTENDS FaultStore

CONSTANTS
    Durations,  \* the duration_ms values chaos_control lets through
    Latencies,  \* the latency_ms values chaos_control lets through
    LastTick    \* bound of the model: the last clock tick considered

ASSUME DurationsAssumption == Durations \subseteq Nat \ {0}
ASSUME LatenciesAssumption == Latencies \subseteq Nat
ASSUME LastTickAssumption == LastTick \in Nat /\ LastTick < HalfRange

VARIABLE answer  \* the last query and what it returned

injectionVars == <<now, storeVars, answer>>

Answers ==
    [query : {"none"}]
    \cup [query : {"unavailable", "unreachable"}, device : Devices, result : BOOLEAN]
    \cup [query : {"signal"}, device : Devices, signal : Signals, result : BOOLEAN]

InjectionTypeOK ==
    /\ StoreTypeOK
    /\ now <= LastTick
    /\ answer \in Answers

InjectionInit ==
    /\ StoreInit
    /\ answer = [query |-> "none"]

Inject ==
    /\ \E d \in Devices :
          \/ \E duration_ms \in Durations :
                \/ InjectDeviceUnavailable(d, duration_ms)
                \/ InjectDeviceUnreachable(d, duration_ms)
                \/ \E s \in Signals : InjectSignalFault(d, s, duration_ms)
          \/ \E latency_ms \in Latencies : InjectCallLatency(d, latency_ms)
          \/ \E f \in FunctionStrings, r \in Rates : InjectCallFailure(d, f, r)
    /\ UNCHANGED <<now, answer>>

QueryUnavailable(d) ==
    /\ IsDeviceUnavailable(d)
    /\ answer' = [query |-> "unavailable", device |-> d, result |-> DeviceUnavailable(d)]
    /\ UNCHANGED now

QueryUnreachable(d) ==
    /\ IsDeviceUnreachable(d)
    /\ answer' = [query |-> "unreachable", device |-> d, result |-> DeviceUnreachable(d)]
    /\ UNCHANGED now

QuerySignal(d, s) ==
    /\ IsSignalFaulted(d, s)
    /\ answer' = [query |-> "signal", device |-> d, signal |-> s,
                  result |-> SignalFaulted(d, s)]
    /\ UNCHANGED now

Query == \E d \in Devices :
    \/ QueryUnavailable(d)
    \/ QueryUnreachable(d)
    \/ \E s \in Signals : QuerySignal(d, s)

Clear ==
    /\ ClearAllFaults
    /\ UNCHANGED <<now, answer>>

PassTime ==
    /\ now < LastTick
    /\ now' = now + 1
    /\ UNCHANGED <<storeVars, answer>>

InjectionNext == Inject \/ Query \/ Clear \/ PassTime

InjectionSpec == InjectionInit /\ [][InjectionNext]_injectionVars

-----------------------------------------------------------------------------
(***************************************************************************)
(* Durations for which the 64-bit deadline cannot overflow.  The code never *)
(* checks this: 9223372036854 ms (292 years) is the largest safe one.       *)
(***************************************************************************)
DurationsFit == \A duration_ms \in Durations :
    LastTick + duration_ms * TicksPerMs < HalfRange

\* The caller's view of the store: entries past their deadline do not exist.
InForce(faults) ==
    [d \in Devices |-> IF faults[d] # NoFault /\ now < faults[d]
                       THEN faults[d] ELSE NoFault]
SignalsInForce ==
    [d \in Devices |-> {f \in signal_faults[d] : now < f.expires_at}]

Contract == INSTANCE FaultContract WITH
    MaxNow <- LastTick,
    unavailable <- InForce(device_unavailable_faults),
    unreachable <- InForce(device_unreachable_faults),
    faulted <- SignalsInForce

\* The store implements the contract: whatever was injected, re-injected,
\* queried (and so erased) or left to rot in the maps before, a query answers
\* true exactly from the injection to the deadline of a fault in force.
ImplementsContract == Contract!Spec
=============================================================================
