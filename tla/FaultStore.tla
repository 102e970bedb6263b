----------------------------- MODULE FaultStore -----------------------------
(***************************************************************************)
(* The process-wide fault store of chaos/fault_injection.cpp.  Every        *)
(* function of that file takes the one mutex for its whole body, so each is *)
(* one atomic action here.  The store is shared by the request thread and   *)
(* the ticker thread; the modules that extend this one say who calls what.  *)
(*                                                                         *)
(* Data abstraction: the vector of SignalFaults of one device is a set      *)
(* (order and duplicates are never observed); a failure rate is "never"     *)
(* (0.0), "maybe" (strictly between) or "always" (1.0, since the sample is   *)
(* drawn from [0, 1)); a missing latency or failure rule is the neutral     *)
(* value 0 or "never", which is what the getters return for it.             *)
(***************************************************************************)
EXTENDS Integers

CONSTANTS
    Devices,          \* device ids that requests may name (registered or not)
    Signals,          \* signal ids
    FunctionStrings,  \* the function_id strings a failure rule may carry
    TicksPerMs,       \* clock ticks (nanoseconds) in one millisecond
    HalfRange,        \* 2^63 for the real clock: ticks are a signed word
    NoFault           \* "no entry in the map"

ASSUME NoFaultAssumption == NoFault \notin Int
ASSUME TicksPerMsAssumption == TicksPerMs \in Nat \ {0}
ASSUME HalfRangeAssumption == HalfRange \in Nat \ {0}

VARIABLES
    now,                        \* steady_clock::now(), in ticks
    device_unavailable_faults,  \* device -> expires_at or NoFault
    device_unreachable_faults,  \* device -> expires_at or NoFault
    signal_faults,              \* device -> set of [signal_id, expires_at]
    call_latency_faults,        \* device -> latency_ms
    call_failure_faults         \* device -> function string -> rate

storeVars == <<device_unavailable_faults, device_unreachable_faults,
               signal_faults, call_latency_faults, call_failure_faults>>

Rates == {"never", "maybe", "always"}

Time == -HalfRange .. (HalfRange - 1)
SignalFault == [signal_id : Signals, expires_at : Time]

StoreTypeOK ==
    /\ now \in Nat
    /\ device_unavailable_faults \in [Devices -> Time \cup {NoFault}]
    /\ device_unreachable_faults \in [Devices -> Time \cup {NoFault}]
    /\ signal_faults \in [Devices -> SUBSET SignalFault]
    /\ call_latency_faults \in [Devices -> Nat]
    /\ call_failure_faults \in [Devices -> [FunctionStrings -> Rates]]

NoTimedFaults == [d \in Devices |-> NoFault]
NoSignalFaults == [d \in Devices |-> {}]
NoLatencies == [d \in Devices |-> 0]
NoFailureRules == [d \in Devices |-> [f \in FunctionStrings |-> "never"]]

StoreInit ==
    /\ now = 0
    /\ device_unavailable_faults = NoTimedFaults
    /\ device_unreachable_faults = NoTimedFaults
    /\ signal_faults = NoSignalFaults
    /\ call_latency_faults = NoLatencies
    /\ call_failure_faults = NoFailureRules

(***************************************************************************)
(* now() + milliseconds(d): both the conversion to the clock's tick and the *)
(* addition are done in a signed 64-bit word, with no check.                *)
(***************************************************************************)
Wrap(x) == ((x + HalfRange) % (2 * HalfRange)) - HalfRange

ExpiresAt(duration_ms) == Wrap(now + duration_ms * TicksPerMs)

\* Mutant: the entry still counts at the instant of its deadline.
MutantLiveAtDeadline(expires_at) == expires_at # NoFault /\ now <= expires_at

\* An entry counts until the clock reaches its deadline.
Live(expires_at) == expires_at # NoFault /\ now < expires_at

InjectDeviceUnavailable(d, duration_ms) ==
    /\ device_unavailable_faults' =
           [device_unavailable_faults EXCEPT ![d] = ExpiresAt(duration_ms)]
    /\ UNCHANGED <<device_unreachable_faults, signal_faults,
                   call_latency_faults, call_failure_faults>>

\* The answer of is_device_unavailable, and the erasure it performs on the way.
DeviceUnavailable(d) == Live(device_unavailable_faults[d])

IsDeviceUnavailable(d) ==
    /\ device_unavailable_faults' =
           [device_unavailable_faults EXCEPT ![d] = IF Live(@) THEN @ ELSE NoFault]
    /\ UNCHANGED <<device_unreachable_faults, signal_faults,
                   call_latency_faults, call_failure_faults>>

InjectDeviceUnreachable(d, duration_ms) ==
    /\ device_unreachable_faults' =
           [device_unreachable_faults EXCEPT ![d] = ExpiresAt(duration_ms)]
    /\ UNCHANGED <<device_unavailable_faults, signal_faults,
                   call_latency_faults, call_failure_faults>>

DeviceUnreachable(d) == Live(device_unreachable_faults[d])

IsDeviceUnreachable(d) ==
    /\ device_unreachable_faults' =
           [device_unreachable_faults EXCEPT ![d] = IF Live(@) THEN @ ELSE NoFault]
    /\ UNCHANGED <<device_unavailable_faults, signal_faults,
                   call_latency_faults, call_failure_faults>>

\* Signal faults stack: a second injection does not replace the first.
InjectSignalFault(d, s, duration_ms) ==
    /\ signal_faults' =
           [signal_faults EXCEPT
              ![d] = @ \cup {[signal_id |-> s, expires_at |-> ExpiresAt(duration_ms)]}]
    /\ UNCHANGED <<device_unavailable_faults, device_unreachable_faults,
                   call_latency_faults, call_failure_faults>>

SignalFaulted(d, s) ==
    \E f \in signal_faults[d] : f.signal_id = s /\ Live(f.expires_at)

\* A query about any signal of d drops every expired entry of d.
IsSignalFaulted(d, s) ==
    /\ signal_faults' =
           [signal_faults EXCEPT ![d] = {f \in @ : Live(f.expires_at)}]
    /\ UNCHANGED <<device_unavailable_faults, device_unreachable_faults,
                   call_latency_faults, call_failure_faults>>

InjectCallLatency(d, latency_ms) ==
    /\ call_latency_faults' = [call_latency_faults EXCEPT ![d] = latency_ms]
    /\ UNCHANGED <<device_unavailable_faults, device_unreachable_faults,
                   signal_faults, call_failure_faults>>

CallLatency(d) == call_latency_faults[d]

\* One rule per device and function: a new rate replaces the old one.
InjectCallFailure(d, f, rate) ==
    /\ call_failure_faults' = [call_failure_faults EXCEPT ![d][f] = rate]
    /\ UNCHANGED <<device_unavailable_faults, device_unreachable_faults,
                   signal_faults, call_latency_faults>>

\* The possible samples of should_call_fail.
ShouldCallFail(d, f) ==
    CASE call_failure_faults[d][f] = "never"  -> {FALSE}
      [] call_failure_faults[d][f] = "maybe"  -> {FALSE, TRUE}
      [] call_failure_faults[d][f] = "always" -> {TRUE}

\* Mutant: clear_all_faults forgets the map that was added last.
MutantClearForgetsUnreachable ==
    /\ device_unavailable_faults' = NoTimedFaults
    /\ signal_faults' = NoSignalFaults
    /\ call_latency_faults' = NoLatencies
    /\ call_failure_faults' = NoFailureRules
    /\ UNCHANGED device_unreachable_faults

ClearAllFaults ==
    /\ device_unavailable_faults' = NoTimedFaults
    /\ device_unreachable_faults' = NoTimedFaults
    /\ signal_faults' = NoSignalFaults
    /\ call_latency_faults' = NoLatencies
    /\ call_failure_faults' = NoFailureRules
=============================================================================
