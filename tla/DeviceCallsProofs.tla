------------------------- MODULE DeviceCallsProofs -------------------------
(***************************************************************************)
(* The fault store by itself, for every set of devices, signals and durations *)
(* and every clock bound, and the guarantees of the request path around it,    *)
(* for any devices, requests, arguments, clock and number of engine commands   *)
(* between any two steps.  The latter rest on one thread being the only one    *)
(* that injects faults, hence on the engine leaving chaos_control alone.      *)
(***************************************************************************)
EXTENDS DeviceCalls, FaultInjection, TLAPS

-----------------------------------------------------------------------------
(* The store: deadlines *)

\* Whatever is added, the 64-bit word of the clock holds the result.
LEMMA WrapType == \A x \in Int : Wrap(x) \in Time
BY HalfRangeAssumption DEF Wrap, Time

\* A sum that fits in the word is not changed by the word.
LEMMA WrapFits == \A x \in Time : Wrap(x) = x
BY HalfRangeAssumption DEF Wrap, Time

\* The deadline of any duration is a value of the clock's word.
LEMMA ExpiresAtType ==
    ASSUME now \in Nat, NEW duration_ms \in Int
    PROVE  ExpiresAt(duration_ms) \in Time
<1>1. now + duration_ms * TicksPerMs \in Int
  BY TicksPerMsAssumption
<1> QED
  BY <1>1, WrapType DEF ExpiresAt

-----------------------------------------------------------------------------
(* The store: type correctness *)

\* Every reachable state of the store is well typed: in particular the maps
\* only ever hold deadlines that fit the clock's word, and one failure rule
\* per device and function (fault_injection.cpp:163).
THEOREM StoreTypeCorrect == InjectionSpec => []InjectionTypeOK
<1>1. InjectionInit => InjectionTypeOK
  BY LastTickAssumption
  DEF InjectionInit, StoreInit, InjectionTypeOK, StoreTypeOK, Answers, Rates, NoTimedFaults,
      NoSignalFaults, NoLatencies, NoFailureRules
<1>2. InjectionTypeOK /\ [InjectionNext]_injectionVars => InjectionTypeOK'
  <2> SUFFICES ASSUME InjectionTypeOK, [InjectionNext]_injectionVars
               PROVE  InjectionTypeOK'
    OBVIOUS
  <2> USE DEF InjectionTypeOK, StoreTypeOK
  <2>1. CASE Inject
    <3>1. PICK d \in Devices :
             \/ \E duration_ms \in Durations :
                   \/ InjectDeviceUnavailable(d, duration_ms)
                   \/ InjectDeviceUnreachable(d, duration_ms)
                   \/ \E s \in Signals : InjectSignalFault(d, s, duration_ms)
             \/ \E latency_ms \in Latencies : InjectCallLatency(d, latency_ms)
             \/ \E f \in FunctionStrings, r \in Rates : InjectCallFailure(d, f, r)
      BY <2>1 DEF Inject
    <3>2. UNCHANGED <<now, answer>>
      BY <2>1 DEF Inject
    <3>3. ASSUME NEW duration_ms \in Durations,
                 InjectDeviceUnavailable(d, duration_ms)
          PROVE  InjectionTypeOK'
      BY <3>2, <3>3, DurationsAssumption, ExpiresAtType DEF InjectDeviceUnavailable
    <3>4. ASSUME NEW duration_ms \in Durations,
                 InjectDeviceUnreachable(d, duration_ms)
          PROVE  InjectionTypeOK'
      BY <3>2, <3>4, DurationsAssumption, ExpiresAtType DEF InjectDeviceUnreachable
    <3>5. ASSUME NEW duration_ms \in Durations, NEW s \in Signals,
                 InjectSignalFault(d, s, duration_ms)
          PROVE  InjectionTypeOK'
      BY <3>2, <3>5, DurationsAssumption, ExpiresAtType DEF InjectSignalFault, SignalFault
    <3>6. ASSUME NEW latency_ms \in Latencies, InjectCallLatency(d, latency_ms)
          PROVE  InjectionTypeOK'
      BY <3>2, <3>6, LatenciesAssumption DEF InjectCallLatency
    <3>7. ASSUME NEW f \in FunctionStrings, NEW r \in Rates,
                 InjectCallFailure(d, f, r)
          PROVE  InjectionTypeOK'
      BY <3>2, <3>7 DEF InjectCallFailure
    <3> QED
      BY <3>1, <3>3, <3>4, <3>5, <3>6, <3>7
  <2>2. ASSUME NEW d \in Devices, QueryUnavailable(d)
        PROVE  InjectionTypeOK'
    <3>1. DeviceUnavailable(d) \in BOOLEAN
      BY DEF DeviceUnavailable, Live
    <3> QED
      BY <2>2, <3>1 DEF QueryUnavailable, IsDeviceUnavailable, Answers
  <2>3. ASSUME NEW d \in Devices, QueryUnreachable(d)
        PROVE  InjectionTypeOK'
    <3>1. DeviceUnreachable(d) \in BOOLEAN
      BY DEF DeviceUnreachable, Live
    <3> QED
      BY <2>3, <3>1 DEF QueryUnreachable, IsDeviceUnreachable, Answers
  <2>4. ASSUME NEW d \in Devices, NEW s \in Signals, QuerySignal(d, s)
        PROVE  InjectionTypeOK'
    <3>1. SignalFaulted(d, s) \in BOOLEAN
      BY DEF SignalFaulted
    <3> QED
      BY <2>4, <3>1 DEF QuerySignal, IsSignalFaulted, Answers
  <2>5. CASE Clear
    BY <2>5 DEF Clear, ClearAllFaults, Rates, NoTimedFaults, NoSignalFaults,
                NoLatencies, NoFailureRules
  <2>6. CASE PassTime
    BY <2>6, LastTickAssumption DEF PassTime, storeVars
  <2>7. CASE UNCHANGED injectionVars
    BY <2>7 DEF injectionVars, storeVars
  <2> QED
    BY <2>1, <2>2, <2>3, <2>4, <2>5, <2>6, <2>7 DEF InjectionNext, Query
<1> QED
  BY <1>1, <1>2, PTL DEF InjectionSpec

-----------------------------------------------------------------------------
(* The store: refinement *)

\* Without overflow a deadline is the exact sum, and lies in the future.
LEMMA DeadlineExact ==
    ASSUME InjectionTypeOK, DurationsFit, NEW duration_ms \in Durations
    PROVE  /\ ExpiresAt(duration_ms) = now + duration_ms * TicksPerMs
           /\ ExpiresAt(duration_ms) \in Time
           /\ now < ExpiresAt(duration_ms)
<1> DEFINE p == duration_ms * TicksPerMs
<1>1. p \in Nat /\ p > 0
  BY TicksPerMsAssumption, DurationsAssumption
<1>2. now \in Nat /\ now <= LastTick /\ LastTick + p < HalfRange
  BY DEF InjectionTypeOK, StoreTypeOK, DurationsFit
<1> HIDE DEF p
<1>3. now + p \in Time
  BY <1>1, <1>2, LastTickAssumption, HalfRangeAssumption DEF Time
<1>4. ExpiresAt(duration_ms) = now + p
  BY <1>3, WrapFits DEF ExpiresAt, p
<1>5. now + p = now + duration_ms * TicksPerMs
  BY DEF p
<1> QED
  BY <1>1, <1>2, <1>3, <1>4, <1>5

\* The store implements its contract: when no deadline can overflow, lazily
\* erased entries are invisible, and every query answers from the faults
\* whose deadline has not come (is_device_unavailable, is_device_unreachable
\* and is_signal_faulted of fault_injection.cpp).
THEOREM Refinement ==
    ASSUME DurationsFit
    PROVE  InjectionSpec => ImplementsContract
<1>1. InjectionInit => Contract!Init
  BY DEF InjectionInit, StoreInit, Contract!Init, InForce, SignalsInForce, Live,
         NoTimedFaults, NoSignalFaults
<1>2. InjectionTypeOK /\ [InjectionNext]_injectionVars => [Contract!Next]_(Contract!vars)
  <2> SUFFICES ASSUME InjectionTypeOK, [InjectionNext]_injectionVars
               PROVE  Contract!Next \/ UNCHANGED Contract!vars
    OBVIOUS
  <2> USE DEF InjectionTypeOK, StoreTypeOK, InForce, SignalsInForce, Live
  <2>1. ASSUME NEW d \in Devices, NEW duration_ms \in Durations,
               InjectDeviceUnavailable(d, duration_ms), UNCHANGED <<now, answer>>
        PROVE  Contract!MakeUnavailable(d, duration_ms)
    BY <2>1, DeadlineExact, NoFaultAssumption
    DEF InjectDeviceUnavailable, Contract!MakeUnavailable, Contract!Deadline, Time
  <2>2. ASSUME NEW d \in Devices, NEW duration_ms \in Durations,
               InjectDeviceUnreachable(d, duration_ms), UNCHANGED <<now, answer>>
        PROVE  Contract!MakeUnreachable(d, duration_ms)
    BY <2>2, DeadlineExact, NoFaultAssumption
    DEF InjectDeviceUnreachable, Contract!MakeUnreachable, Contract!Deadline, Time
  <2>3. ASSUME NEW d \in Devices, NEW duration_ms \in Durations, NEW s \in Signals,
               InjectSignalFault(d, s, duration_ms), UNCHANGED <<now, answer>>
        PROVE  Contract!FaultSignal(d, s, duration_ms)
    <3> DEFINE e == [signal_id |-> s, expires_at |-> ExpiresAt(duration_ms)]
               live(F) == {f \in F : now < f.expires_at}
    <3>1. e = [signal_id |-> s, expires_at |-> Contract!Deadline(duration_ms)]
      BY DeadlineExact DEF Contract!Deadline
    <3>2. now < e.expires_at
      BY DeadlineExact, NoFaultAssumption DEF Time
    <3> HIDE DEF e
    <3>3. live(signal_faults[d] \cup {e}) = live(signal_faults[d]) \cup {e}
      BY <3>2
    <3>4. signal_faults' = [signal_faults EXCEPT ![d] = @ \cup {e}]
      BY <2>3 DEF InjectSignalFault, e
    <3>5. SignalsInForce = [c \in Devices |-> live(signal_faults[c])]
      OBVIOUS
    <3>6. SignalsInForce' = [c \in Devices |-> live(signal_faults'[c])]
      BY <2>3
    <3> HIDE DEF live
    <3>7. SignalsInForce' = [SignalsInForce EXCEPT ![d] = @ \cup {e}]
      BY <3>3, <3>4, <3>5, <3>6
    <3> QED
      BY <2>3, <3>1, <3>7 DEF InjectSignalFault, Contract!FaultSignal
  <2>4. ASSUME NEW d \in Devices, NEW latency_ms \in Latencies,
               InjectCallLatency(d, latency_ms), UNCHANGED <<now, answer>>
        PROVE  UNCHANGED Contract!vars
    BY <2>4 DEF InjectCallLatency, Contract!vars
  <2>5. ASSUME NEW d \in Devices, NEW f \in FunctionStrings, NEW r \in Rates,
               InjectCallFailure(d, f, r), UNCHANGED <<now, answer>>
        PROVE  UNCHANGED Contract!vars
    BY <2>5 DEF InjectCallFailure, Contract!vars
  <2>6. ASSUME NEW d \in Devices, QueryUnavailable(d)
        PROVE  Contract!AskUnavailable(d)
    BY <2>6, NoFaultAssumption
    DEF QueryUnavailable, IsDeviceUnavailable, DeviceUnavailable, Contract!AskUnavailable
  <2>7. ASSUME NEW d \in Devices, QueryUnreachable(d)
        PROVE  Contract!AskUnreachable(d)
    BY <2>7, NoFaultAssumption
    DEF QueryUnreachable, IsDeviceUnreachable, DeviceUnreachable, Contract!AskUnreachable
  <2>8. ASSUME NEW d \in Devices, NEW s \in Signals, QuerySignal(d, s)
        PROVE  Contract!AskSignal(d, s)
    <3>1. \A c \in Devices : \A f \in signal_faults[c] : f.expires_at # NoFault
      BY NoFaultAssumption DEF SignalFault, Time
    <3>2. signal_faults' = [signal_faults EXCEPT ![d] = {f \in @ : now < f.expires_at}]
      BY <2>8, <3>1 DEF QuerySignal, IsSignalFaulted
    <3>3. UNCHANGED <<now, SignalsInForce>>
      BY <2>8, <3>2 DEF QuerySignal
    <3>4. SignalFaulted(d, s) = \E f \in SignalsInForce[d] : f.signal_id = s
      BY <3>1 DEF SignalFaulted
    <3> QED
      BY <2>8, <3>3, <3>4 DEF QuerySignal, IsSignalFaulted, Contract!AskSignal
  <2>9. CASE Clear
    BY <2>9 DEF Clear, ClearAllFaults, NoTimedFaults, NoSignalFaults, Contract!Clear,
                Contract!Next
  <2>10. CASE PassTime
    BY <2>10, NoFaultAssumption
    DEF PassTime, storeVars, Contract!Pass, Contract!Next, Time, SignalFault
  <2>11. CASE UNCHANGED injectionVars
    BY <2>11 DEF injectionVars, storeVars, Contract!vars
  <2>12. CASE Inject
    BY <2>12, <2>1, <2>2, <2>3, <2>4, <2>5 DEF Inject, Contract!Next
  <2>13. CASE Query
    BY <2>13, <2>6, <2>7, <2>8 DEF Query, Contract!Next
  <2> QED
    BY <2>9, <2>10, <2>11, <2>12, <2>13 DEF InjectionNext
<1> QED
  BY <1>1, <1>2, StoreTypeCorrect, PTL DEF InjectionSpec, ImplementsContract, Contract!Spec

-----------------------------------------------------------------------------
(* The request path *)

\* Engine commands are "for provider-owned devices" (fluxgraph_client.hpp:22).
EngineSparesChaos == Chaos \notin EngineTargets

Req == "request"

\* The ticker runs calls only, and none of them injects.
TickerNeverInjects == pc["ticker"] # "idle" =>
    job["ticker"].kind = "call" /\ job["ticker"].device # Chaos

\* A request has no status before it is finished.
AnsweredAtTheEnd == pc[Req] # "idle" => reply[Req] = "pending"

\* What has_device established still holds at every later look.
Gated ==
    \/ pc[Req] = "describe_device"
    \/ /\ pc[Req] \in {"is_device_unreachable", "is_device_unavailable", "is_signal_faulted"}
       /\ job[Req].kind = "read"
    => ~DeviceUnavailable(job[Req].device) /\ HasAdapter(job[Req].device)

\* Devices do not become unavailable while a request is under way.
GoneCovers == pc[Req] # "idle" /\ job[Req].kind \in {"list", "describe", "read"} =>
    \A d \in Devices : DeviceUnavailable(d) => d \in job[Req].gone

\* No fault since the last clear means that all five maps are neutral.
Neutral ==
    /\ device_unavailable_faults = NoTimedFaults
    /\ device_unreachable_faults = NoTimedFaults
    /\ signal_faults = NoSignalFaults
    /\ call_latency_faults = NoLatencies
    /\ call_failure_faults = NoFailureRules

CleanMeansNeutral ==
    /\ faultFree => Neutral
    /\ pc[Req] # "idle" /\ job[Req].clean => faultFree

\* A list under way: whoever was looked at and left out was gone, and whoever is
\* on it is available.
ListProgress == pc[Req] = "list_devices" =>
    /\ \A d \in Registered \ (job[Req].todo \cup job[Req].listed) :
          d \in job[Req].gone /\ ~job[Req].clean
    /\ \A d \in job[Req].listed : ~DeviceUnavailable(d)

ListedIsList == reply[Req] = "listed" => job[Req].kind = "list"

\* The devices the last list vouched for are still available.
VouchedAvailable == \A d \in vouched : ~DeviceUnavailable(d)

\* What holds of the request thread, whatever the ticker does.
RequestInv ==
    /\ AnsweredAtTheEnd
    /\ AdmittedStaysAvailable
    /\ Gated
    /\ GateHolds
    /\ GoneCovers
    /\ CleanMeansNeutral
    /\ CleanRequestUntouched
    /\ ListProgress
    /\ ListedIsList
    /\ ListingIsHonest
    /\ VouchedAvailable
    /\ ListedIsDescribable

\* The inductive invariant.
IInv == TypeOK /\ TickerNeverInjects /\ RequestInv

-----------------------------------------------------------------------------
(* The store *)

\* What every step but an injection does to the store: faults only run out.
StoreQuiet ==
    /\ \A d \in Devices : DeviceUnavailable(d)' => DeviceUnavailable(d)
    /\ \A d \in Devices : DeviceUnreachable(d)' => DeviceUnreachable(d)
    /\ Neutral => Neutral'

\* is_device_unavailable erases an expired entry and nothing else.
LEMMA QuietUnavailable ==
    ASSUME StoreTypeOK, NEW d \in Devices, IsDeviceUnavailable(d), UNCHANGED now
    PROVE  StoreTypeOK' /\ StoreQuiet
<1>1. StoreTypeOK'
  BY DEF StoreTypeOK, IsDeviceUnavailable
<1>2. \A c \in Devices : DeviceUnavailable(c)' => DeviceUnavailable(c)
  BY DEF StoreTypeOK, IsDeviceUnavailable, DeviceUnavailable, Live
<1>3. \A c \in Devices : DeviceUnreachable(c)' => DeviceUnreachable(c)
  BY DEF IsDeviceUnavailable, DeviceUnreachable, Live
<1>4. Neutral => Neutral'
  BY DEF Neutral, IsDeviceUnavailable, NoTimedFaults, Live
<1> QED
  BY <1>1, <1>2, <1>3, <1>4 DEF StoreQuiet

\* So does is_device_unreachable.
LEMMA QuietUnreachable ==
    ASSUME StoreTypeOK, NEW d \in Devices, IsDeviceUnreachable(d), UNCHANGED now
    PROVE  StoreTypeOK' /\ StoreQuiet
<1>1. StoreTypeOK'
  BY DEF StoreTypeOK, IsDeviceUnreachable
<1>2. \A c \in Devices : DeviceUnreachable(c)' => DeviceUnreachable(c)
  BY DEF StoreTypeOK, IsDeviceUnreachable, DeviceUnreachable, Live
<1>3. \A c \in Devices : DeviceUnavailable(c)' => DeviceUnavailable(c)
  BY DEF IsDeviceUnreachable, DeviceUnavailable, Live
<1>4. Neutral => Neutral'
  BY DEF Neutral, IsDeviceUnreachable, NoTimedFaults, Live
<1> QED
  BY <1>1, <1>2, <1>3, <1>4 DEF StoreQuiet

\* And is_signal_faulted, for the signal faults of its device.
LEMMA QuietSignal ==
    ASSUME StoreTypeOK, NEW d \in Devices, NEW s \in Signals, IsSignalFaulted(d, s),
           UNCHANGED now
    PROVE  StoreTypeOK' /\ StoreQuiet
<1>1. StoreTypeOK'
  BY DEF StoreTypeOK, IsSignalFaulted
<1>2. \A c \in Devices : DeviceUnreachable(c)' => DeviceUnreachable(c)
  BY DEF IsSignalFaulted, DeviceUnreachable, Live
<1>3. \A c \in Devices : DeviceUnavailable(c)' => DeviceUnavailable(c)
  BY DEF IsSignalFaulted, DeviceUnavailable, Live
<1>4. Neutral => Neutral'
  BY DEF Neutral, IsSignalFaulted, NoSignalFaults, StoreTypeOK
<1> QED
  BY <1>1, <1>2, <1>3, <1>4 DEF StoreQuiet

\* Time lets faults run out.
LEMMA QuietTime ==
    ASSUME StoreTypeOK, UNCHANGED storeVars, now' \in {now, now + 1}
    PROVE  StoreTypeOK' /\ StoreQuiet
<1>1. StoreTypeOK'
  BY DEF StoreTypeOK, storeVars
<1>2. \A c \in Devices : DeviceUnreachable(c)' => DeviceUnreachable(c)
  BY NoFaultAssumption DEF storeVars, DeviceUnreachable, Live, StoreTypeOK, Time
<1>3. \A c \in Devices : DeviceUnavailable(c)' => DeviceUnavailable(c)
  BY NoFaultAssumption DEF storeVars, DeviceUnavailable, Live, StoreTypeOK, Time
<1>4. Neutral => Neutral'
  BY DEF Neutral, storeVars
<1> QED
  BY <1>1, <1>2, <1>3, <1>4 DEF StoreQuiet

\* A neutral store has no fault in force, delays nothing and fails nothing.
LEMMA NeutralFacts ==
    ASSUME Neutral
    PROVE  /\ \A d \in Devices : ~DeviceUnavailable(d) /\ ~DeviceUnreachable(d)
           /\ \A d \in Devices, s \in Signals : ~SignalFaulted(d, s)
           /\ \A d \in Devices : CallLatency(d) = 0
           /\ \A d \in Devices : \A f : FailureSamples(d, f) = {FALSE}
<1>1. \A d \in Devices : ~DeviceUnavailable(d) /\ ~DeviceUnreachable(d)
  BY DEF Neutral, NoTimedFaults, DeviceUnavailable, DeviceUnreachable, Live
<1>2. \A d \in Devices, s \in Signals : ~SignalFaulted(d, s)
  BY DEF Neutral, NoSignalFaults, SignalFaulted
<1>3. \A d \in Devices : CallLatency(d) = 0
  BY DEF Neutral, NoLatencies, CallLatency
<1>4. ASSUME NEW d \in Devices, NEW f PROVE FailureSamples(d, f) = {FALSE}
  <2>1. f \in FunctionStrings => call_failure_faults[d][f] = "never"
    BY DEF Neutral, NoFailureRules
  <2> QED
    BY <2>1 DEF FailureSamples, ShouldCallFail
<1> QED
  BY <1>1, <1>2, <1>3, <1>4

-----------------------------------------------------------------------------
(* Jobs *)

\* The arguments that get past chaos_control's checks.
LEMMA ValidArgFields ==
    ASSUME NEW a \in ChaosArgs, ValidArgs(a)
    PROVE  /\ a.fn \in {kFnInjectDeviceUnavailable, kFnInjectDeviceUnreachable,
                        kFnInjectSignalFault} =>
                 a.target \in Devices /\ a.duration_ms \in Int
           /\ a.fn = kFnInjectSignalFault => a.signal_id \in Signals
           /\ a.fn = kFnInjectCallLatency => a.target \in Devices /\ a.latency_ms \in Nat
           /\ a.fn = kFnInjectCallFailure =>
                 a.target \in Devices /\ a.function_id \in FunctionStrings /\ a.rate \in Rates
<1> USE DEF kFnInjectDeviceUnavailable, kFnInjectDeviceUnreachable, kFnInjectSignalFault,
            kFnInjectCallLatency, kFnInjectCallFailure, kFnClearFaults
<1>1. CASE a \in [fn : {kFnInjectDeviceUnavailable, kFnInjectDeviceUnreachable},
                  target : Devices, duration_ms : DurationArgs]
  <2>1. /\ a.fn \in {kFnInjectDeviceUnavailable, kFnInjectDeviceUnreachable}
        /\ a.target \in Devices
        /\ a.duration_ms \in DurationArgs
    BY <1>1
  <2>2. a.duration_ms \in Int
    BY <2>1, ArgsAssumption
  <2> QED
    BY <2>1, <2>2
<1>2. CASE a \in [fn : {kFnInjectSignalFault}, target : Devices, signal_id : Signals,
                  duration_ms : DurationArgs]
  <2>1. /\ a.fn = kFnInjectSignalFault
        /\ a.target \in Devices /\ a.signal_id \in Signals
        /\ a.duration_ms \in DurationArgs
    BY <1>2
  <2>2. a.duration_ms \in Int
    BY <2>1, ArgsAssumption
  <2> QED
    BY <2>1, <2>2
<1>3. CASE a \in [fn : {kFnInjectCallLatency}, target : Devices, latency_ms : LatencyArgs]
  <2>1. a.fn = kFnInjectCallLatency /\ a.target \in Devices /\ a.latency_ms \in LatencyArgs
    BY <1>3
  <2>2. a.latency_ms >= 0
    BY <2>1 DEF ValidArgs
  <2>3. a.latency_ms \in Nat
    <3>1. a.latency_ms \in Int
      BY <2>1, ArgsAssumption
    <3> QED
      BY <2>2, <3>1
  <2> QED
    BY <2>1, <2>3
<1>4. CASE a \in [fn : {kFnInjectCallFailure}, target : Devices,
                  function_id : FunctionStrings, rate : Rates \cup {"out_of_range"}]
  <2>1. /\ a.fn = kFnInjectCallFailure
        /\ a.target \in Devices
        /\ a.function_id \in FunctionStrings
    BY <1>4
  <2>2. a.rate \in Rates
    BY <2>1 DEF ValidArgs
  <2> QED
    BY <2>1, <2>2
<1>5. CASE a \in [fn : Malformed, missing : {TRUE}]
  <2>1. "missing" \in DOMAIN a
    BY <1>5
  <2> QED
    BY <2>1, Zenon DEF ValidArgs
<1>6. CASE a \in [fn : {kFnClearFaults, 0}]
  <2>1. a.fn \in {kFnClearFaults, 0}
    BY <1>6
  <2> QED
    BY <2>1
<1> QED
  BY <1>1, <1>2, <1>3, <1>4, <1>5, <1>6, Zenon DEF ChaosArgs

\* The fields of a job, by its kind.
LEMMA JobFields ==
    ASSUME NEW j \in Jobs
    PROVE  /\ j.clean \in BOOLEAN
           /\ j.kind \in {"list", "describe", "read", "call", "resolve"}
           /\ j.kind # "list" => j.device \in Devices
           /\ j.kind \in {"list", "describe", "read"} => j.gone \subseteq Devices
           /\ j.kind = "read" => j.signal \in Signals
           /\ j.kind = "call" => j.args \in ArgsFor(j.device)
           /\ j.kind = "list" =>
                 j \in [kind : {"list"}, todo : SUBSET Registered, listed : SUBSET Devices,
                        gone : SUBSET Devices, clean : BOOLEAN]
<1>1. CASE j \in [kind : {"list"}, todo : SUBSET Registered, listed : SUBSET Devices,
                  gone : SUBSET Devices, clean : BOOLEAN]
  BY <1>1
<1>2. CASE j \in [kind : {"describe"}, device : Devices, gone : SUBSET Devices,
                  clean : BOOLEAN]
  BY <1>2
<1>3. CASE j \in [kind : {"read"}, device : Devices, signal : Signals,
                  gone : SUBSET Devices, clean : BOOLEAN]
  BY <1>3
<1>4. ASSUME NEW d \in Devices,
             j \in [kind : {"call"}, device : {d}, args : ArgsFor(d), clean : BOOLEAN]
      PROVE  /\ j.clean \in BOOLEAN /\ j.kind = "call" /\ j.device \in Devices
             /\ j.args \in ArgsFor(j.device)
  BY <1>4
<1>5. CASE j \in [kind : {"resolve"}, device : Devices, clean : BOOLEAN]
  BY <1>5
<1>6. CASE j \in UNION {[kind : {"call"}, device : {d}, args : ArgsFor(d),
                         clean : BOOLEAN] : d \in Devices}
  <2>1. PICK d \in Devices :
           j \in [kind : {"call"}, device : {d}, args : ArgsFor(d), clean : BOOLEAN]
    BY <1>6
  <2> QED
    BY <1>4, <2>1
<1> QED
  BY <1>1, <1>2, <1>3, <1>5, <1>6, Zenon DEF Jobs

-----------------------------------------------------------------------------
(* Types *)

\* A thread that moves on within the path.
LEMMA GotoTyped ==
    ASSUME TypeOK, NEW t \in Threads, NEW label \in Labels, Goto(t, label), StoreTypeOK',
           UNCHANGED <<job, started, historyVars>>, wake' \in [Threads -> Nat],
           pc[t] # "idle", job[t].kind \in KindsAt(label)
    PROVE  TypeOK'
<1>1. pc' \in [Threads -> Labels] /\ reply' \in [Threads -> Replies]
  BY DEF TypeOK, Goto
<1>2. /\ started' \in [Threads -> Nat]
      /\ faultFree' \in BOOLEAN /\ vouched' \subseteq Registered
      /\ job' \in [Threads -> Jobs \cup {NoJob}]
  BY DEF TypeOK, historyVars
<1>3. ASSUME NEW u \in Threads, pc'[u] # "idle"
      PROVE  /\ job'[u] \in Jobs /\ job'[u].kind \in KindsAt(pc'[u])
             /\ job'[u].kind = "list" => job'[u].listed \subseteq Registered \ job'[u].todo
  <2>1. job' = job /\ pc[u] # "idle"
    BY <1>3 DEF TypeOK, Goto
  <2>2. pc'[u] = pc[u] \/ (u = t /\ pc'[u] = label)
    BY DEF TypeOK, Goto
  <2> QED
    BY <2>1, <2>2 DEF TypeOK
<1> QED
  BY <1>1, <1>2, <1>3 DEF TypeOK

\* A thread that answers.
LEMMA FinishTyped ==
    ASSUME TypeOK, NEW t \in Threads, NEW status \in Replies, Finish(t, status), StoreTypeOK',
           UNCHANGED <<job, wake, started>>, faultFree' \in BOOLEAN, vouched' \subseteq Registered
    PROVE  TypeOK'
<1>1. pc' \in [Threads -> Labels] /\ reply' \in [Threads -> Replies]
  BY DEF TypeOK, Finish, Labels
<1>2. /\ started' \in [Threads -> Nat] /\ wake' \in [Threads -> Nat]
      /\ job' \in [Threads -> Jobs \cup {NoJob}]
  BY DEF TypeOK
<1>3. ASSUME NEW u \in Threads, pc'[u] # "idle"
      PROVE  /\ job'[u] \in Jobs /\ job'[u].kind \in KindsAt(pc'[u])
             /\ job'[u].kind = "list" => job'[u].listed \subseteq Registered \ job'[u].todo
  <2>1. job' = job /\ pc'[u] = pc[u]
    BY <1>3 DEF TypeOK, Finish
  <2> QED
    BY <1>3, <2>1 DEF TypeOK
<1> QED
  BY <1>1, <1>2, <1>3 DEF TypeOK

\* A thread that takes up a job.
LEMMA BeginTyped ==
    ASSUME TypeOK, NEW t \in Threads, NEW label \in Labels, NEW j \in Jobs,
           Begin(t, label, j), j.kind \in KindsAt(label),
           j.kind = "list" => j.listed \subseteq Registered \ j.todo
    PROVE  TypeOK'
<1>1. pc' \in [Threads -> Labels] /\ reply' \in [Threads -> Replies]
  BY DEF TypeOK, Begin, Replies
<1>2. /\ started' \in [Threads -> Nat] /\ wake' \in [Threads -> Nat]
      /\ faultFree' \in BOOLEAN /\ vouched' \subseteq Registered
  BY DEF TypeOK, Begin, historyVars
<1>3. job' \in [Threads -> Jobs \cup {NoJob}]
  BY DEF TypeOK, Begin
<1>4. StoreTypeOK'
  BY DEF TypeOK, Begin, StoreTypeOK, storeVars
<1>5. ASSUME NEW u \in Threads, pc'[u] # "idle"
      PROVE  /\ job'[u] \in Jobs /\ job'[u].kind \in KindsAt(pc'[u])
             /\ job'[u].kind = "list" => job'[u].listed \subseteq Registered \ job'[u].todo
  <2>1. \/ u = t /\ pc'[u] = label /\ job'[u] = j
        \/ pc'[u] = pc[u] /\ job'[u] = job[u]
    BY DEF TypeOK, Begin
  <2> QED
    BY <1>5, <2>1 DEF TypeOK
<1> QED
  BY <1>1, <1>2, <1>3, <1>4, <1>5 DEF TypeOK

-----------------------------------------------------------------------------
(* The request thread *)

\* What is known of the job of a thread that is under way.
LEMMA AtLabel ==
    ASSUME TypeOK, NEW t \in Threads, pc[t] # "idle"
    PROVE  /\ job[t] \in Jobs /\ job[t] # NoJob
           /\ job[t].clean \in BOOLEAN
           /\ pc[t] = "list_devices" <=> job[t].kind = "list"
           /\ pc[t] # "list_devices" => job[t].device \in Devices
           /\ pc[t] \in {"has_device", "describe_device"} =>
                 job[t].kind \in {"describe", "read"}
           /\ pc[t] = "describe_device" => job[t].kind = "describe"
           /\ pc[t] = "resolve_function_id" => job[t].kind = "resolve"
           /\ pc[t] \in {"is_device_unreachable", "is_device_unavailable"} =>
                 job[t].kind \in {"read", "call"}
           /\ pc[t] = "is_signal_faulted" => job[t].kind = "read" /\ job[t].signal \in Signals
           /\ pc[t] \in {"get_call_latency", "sleep_for", "should_call_fail", "apply"} =>
                 job[t].kind = "call" /\ job[t].args \in ArgsFor(job[t].device)
<1>1. job[t] \in Jobs /\ job[t].kind \in KindsAt(pc[t]) /\ pc[t] \in Labels
  BY DEF TypeOK
<1>2. /\ pc[t] = "list_devices" => job[t].kind = "list"
      /\ pc[t] = "has_device" => job[t].kind \in {"describe", "read"}
      /\ pc[t] = "describe_device" => job[t].kind = "describe"
      /\ pc[t] = "resolve_function_id" => job[t].kind = "resolve"
      /\ pc[t] \in {"is_device_unreachable", "is_device_unavailable"} =>
            job[t].kind \in {"read", "call"}
      /\ pc[t] = "is_signal_faulted" => job[t].kind = "read"
      /\ pc[t] \in {"get_call_latency", "sleep_for", "should_call_fail", "apply"} =>
            job[t].kind = "call"
  BY <1>1 DEF KindsAt
<1>3. job[t].kind = "list" => pc[t] = "list_devices"
  BY <1>1, <1>2 DEF Labels
<1>4. /\ job[t].clean \in BOOLEAN
      /\ job[t].kind \in {"list", "describe", "read", "call", "resolve"}
      /\ job[t].kind # "list" => job[t].device \in Devices
      /\ job[t].kind = "read" => job[t].signal \in Signals
      /\ job[t].kind = "call" => job[t].args \in ArgsFor(job[t].device)
  BY <1>1, JobFields, Zenon
<1>5. job[t] # NoJob
  BY <1>4 DEF NoJob
<1> QED
  BY <1>1, <1>2, <1>3, <1>4, <1>5

\* A step that leaves the request thread alone and lets faults run out.
LEMMA QuietStep ==
    ASSUME TypeOK, RequestInv, TypeOK', StoreQuiet, UNCHANGED historyVars,
           pc'[Req] = pc[Req], job'[Req] = job[Req], reply'[Req] = reply[Req]
    PROVE  RequestInv'
<1> DEFINE d == job[Req].device
<1>0. Req \in Threads
  BY DEF Req, Threads
<1>1. pc[Req] # "idle" /\ pc[Req] # "list_devices" => d \in Devices
  BY <1>0, AtLabel
<1>2. AnsweredAtTheEnd' /\ GateHolds' /\ ListedIsList' /\ ListedIsDescribable'
  BY DEF RequestInv, AnsweredAtTheEnd, GateHolds, ListedIsList, ListedIsDescribable, Req,
         historyVars, HasAdapter
<1>3. AdmittedStaysAvailable'
  <2>1. pc[Req] \in PastUnavailable => pc[Req] # "idle" /\ pc[Req] # "list_devices"
    BY DEF PastUnavailable
  <2>2. /\ pc'[Req] \in PastUnavailable => ~DeviceUnavailable(d)' /\ ~DeviceUnreachable(d)'
        /\ pc'[Req] = "is_device_unavailable" => ~DeviceUnreachable(d)'
    BY <1>1, <2>1 DEF RequestInv, AdmittedStaysAvailable, StoreQuiet, Req
  <2> QED
    BY <2>2 DEF AdmittedStaysAvailable, Req
<1>4. Gated'
  BY <1>1 DEF RequestInv, Gated, StoreQuiet, Req, HasAdapter
<1>5. GoneCovers'
  BY DEF RequestInv, GoneCovers, StoreQuiet
<1>6. CleanMeansNeutral'
  BY DEF RequestInv, CleanMeansNeutral, StoreQuiet, historyVars
<1>7. CleanRequestUntouched'
  BY DEF RequestInv, CleanRequestUntouched, Req
<1>8. ListProgress'
  <2>1. pc[Req] = "list_devices" => job[Req].listed \subseteq Devices
    <3>1. pc[Req] = "list_devices" => job[Req].kind = "list"
      BY <1>0, AtLabel
    <3> QED
      BY <1>0, <3>1, RegisteredAssumption DEF TypeOK
  <2> QED
    BY <2>1 DEF RequestInv, ListProgress, StoreQuiet
<1>9. ListingIsHonest'
  BY RegisteredAssumption DEF RequestInv, ListingIsHonest, StoreQuiet, Req
<1>10. VouchedAvailable'
  BY RegisteredAssumption DEF RequestInv, VouchedAvailable, StoreQuiet, historyVars, TypeOK
<1> QED
  BY <1>2, <1>3, <1>4, <1>5, <1>6, <1>7, <1>8, <1>9, <1>10 DEF RequestInv

\* A request that moves on within the path.
LEMMA GotoInv ==
    ASSUME TypeOK, RequestInv, TypeOK', StoreQuiet, UNCHANGED <<job, historyVars>>,
           NEW label \in Labels \ {"idle", "list_devices", "has_device"}, Goto(Req, label),
           pc[Req] # "idle",
           label \in PastUnavailable =>
              ~DeviceUnavailable(job[Req].device)' /\ ~DeviceUnreachable(job[Req].device)',
           label = "is_device_unavailable" => ~DeviceUnreachable(job[Req].device)',
           label = "describe_device" \/ job[Req].kind = "read" =>
              ~DeviceUnavailable(job[Req].device)' /\ HasAdapter(job[Req].device),
           label = "sleep_for" => ~job[Req].clean
    PROVE  RequestInv'
<1> DEFINE d == job[Req].device
<1>0. pc'[Req] = label /\ reply' = reply /\ job' = job
  BY DEF Goto, TypeOK, Req, Threads
<1>2. AnsweredAtTheEnd' /\ GateHolds' /\ ListedIsList' /\ ListedIsDescribable'
  BY <1>0 DEF RequestInv, AnsweredAtTheEnd, GateHolds, ListedIsList, ListedIsDescribable, Req,
         historyVars, HasAdapter
<1>3. AdmittedStaysAvailable'
  <2>1. /\ pc'[Req] \in PastUnavailable => ~DeviceUnavailable(d)' /\ ~DeviceUnreachable(d)'
        /\ pc'[Req] = "is_device_unavailable" => ~DeviceUnreachable(d)'
    BY <1>0
  <2> QED
    BY <1>0, <2>1 DEF AdmittedStaysAvailable, Req
<1>4. Gated'
  BY <1>0 DEF Gated, Req, HasAdapter
<1>5. GoneCovers'
  BY <1>0 DEF RequestInv, GoneCovers, StoreQuiet
<1>6. CleanMeansNeutral'
  BY <1>0 DEF RequestInv, CleanMeansNeutral, StoreQuiet, historyVars
<1>7. CleanRequestUntouched'
  BY <1>0 DEF RequestInv, CleanRequestUntouched, Req
<1>8. ListProgress'
  BY <1>0 DEF ListProgress
<1>9. ListingIsHonest'
  BY <1>0 DEF RequestInv, ListingIsHonest, AnsweredAtTheEnd, Req
<1>10. VouchedAvailable'
  BY RegisteredAssumption DEF RequestInv, VouchedAvailable, StoreQuiet, historyVars, TypeOK
<1> QED
  BY <1>2, <1>3, <1>4, <1>5, <1>6, <1>7, <1>8, <1>9, <1>10 DEF RequestInv

\* A request that is answered.
LEMMA FinishInv ==
    ASSUME TypeOK, RequestInv, TypeOK', job' = job,
           NEW status \in Replies \ {"empty", "listed"}, Finish(Req, status),
           faultFree' => Neutral', VouchedAvailable',
           job[Req].clean => status \notin {"unreachable", "unavailable", "failed", "fault"},
           status = "not_found" /\ job[Req].kind \in {"describe", "read"} =>
              /\ job[Req].device \notin vouched'
              /\ HasAdapter(job[Req].device) => job[Req].device \in job[Req].gone
    PROVE  RequestInv'
<1>1. pc'[Req] = "idle" /\ reply'[Req] = status
  BY DEF Finish, TypeOK, Req, Threads
<1>2. AnsweredAtTheEnd' /\ GateHolds' /\ ListedIsList' /\ ListingIsHonest'
  BY <1>1 DEF AnsweredAtTheEnd, GateHolds, ListedIsList, ListingIsHonest, Req
<1>3. AdmittedStaysAvailable'
  BY <1>1 DEF AdmittedStaysAvailable, Req, PastUnavailable
<1>4. Gated' /\ GoneCovers' /\ ListProgress'
  BY <1>1 DEF Gated, GoneCovers, ListProgress
<1>5. CleanMeansNeutral'
  BY <1>1 DEF CleanMeansNeutral
<1>6. CleanRequestUntouched'
  BY <1>1 DEF CleanRequestUntouched, Req
<1>7. ListedIsDescribable'
  BY <1>1 DEF ListedIsDescribable, Req, HasAdapter
<1> QED
  BY <1>2, <1>3, <1>4, <1>5, <1>6, <1>7 DEF RequestInv

-----------------------------------------------------------------------------
(* The steps keep the types *)

\* One turn of the list moves a registered device from todo to listed, or drops it.
LEMMA ListDeviceJob ==
    ASSUME TypeOK, NEW t \in Threads, ListDevice(t)
    PROVE  \E d \in Registered :
              /\ IsDeviceUnavailable(d) /\ d \in job[t].todo
              /\ \A u \in Threads \ {t} : job'[u] = job[u]
              /\ job[t].kind = "list" /\ job'[t] \in Jobs /\ job'[t].kind = "list"
              /\ job'[t].todo = job[t].todo \ {d}
              /\ job'[t].listed = IF DeviceUnavailable(d) THEN job[t].listed
                                  ELSE job[t].listed \cup {d}
              /\ job'[t].gone = job[t].gone /\ job'[t].clean = job[t].clean
              /\ job' \in [Threads -> Jobs \cup {NoJob}]
<1>1. pc[t] = "list_devices" /\ pc[t] # "idle"
  BY DEF ListDevice
<1>2. job[t] \in Jobs /\ job[t].kind = "list"
  BY <1>1, AtLabel
<1>3. job[t] \in [kind : {"list"}, todo : SUBSET Registered, listed : SUBSET Devices,
                  gone : SUBSET Devices, clean : BOOLEAN]
  BY <1>2, JobFields, Zenon
<1>4. PICK d \in job[t].todo :
         /\ IsDeviceUnavailable(d)
         /\ job' = [job EXCEPT ![t].todo = @ \ {d},
                               ![t].listed = IF DeviceUnavailable(d) THEN @ ELSE @ \cup {d}]
  BY DEF ListDevice
<1>5. d \in Registered /\ d \in Devices
  BY <1>3, RegisteredAssumption
<1> DEFINE j == [job[t] EXCEPT !.todo = @ \ {d},
                               !.listed = IF DeviceUnavailable(d) THEN @ ELSE @ \cup {d}]
<1>6. job' = [job EXCEPT ![t] = j]
  BY <1>4, <1>2 DEF TypeOK
<1>7. /\ j \in [kind : {"list"}, todo : SUBSET Registered, listed : SUBSET Devices,
                gone : SUBSET Devices, clean : BOOLEAN]
      /\ j.kind = "list" /\ j.todo = job[t].todo \ {d}
      /\ j.listed = IF DeviceUnavailable(d) THEN job[t].listed ELSE job[t].listed \cup {d}
      /\ j.gone = job[t].gone /\ j.clean = job[t].clean
  BY <1>3, <1>5
<1>8. j \in Jobs
  BY <1>7, Zenon DEF Jobs
<1> HIDE DEF j
<1>9. job'[t] = j /\ \A u \in Threads \ {t} : job'[u] = job[u]
  BY <1>6 DEF TypeOK
<1>10. job' \in [Threads -> Jobs \cup {NoJob}]
  BY <1>6, <1>8 DEF TypeOK
<1> QED
  BY <1>2, <1>4, <1>5, <1>7, <1>8, <1>9, <1>10

LEMMA ListDeviceTyped ==
    ASSUME TypeOK, NEW t \in Threads, ListDevice(t)
    PROVE  TypeOK' /\ StoreQuiet
<1>1. PICK d \in Registered :
         /\ IsDeviceUnavailable(d) /\ d \in job[t].todo
         /\ \A u \in Threads \ {t} : job'[u] = job[u]
         /\ job[t].kind = "list" /\ job'[t] \in Jobs /\ job'[t].kind = "list"
         /\ job'[t].todo = job[t].todo \ {d}
         /\ job'[t].listed = IF DeviceUnavailable(d) THEN job[t].listed
                             ELSE job[t].listed \cup {d}
         /\ job'[t].gone = job[t].gone /\ job'[t].clean = job[t].clean
         /\ job' \in [Threads -> Jobs \cup {NoJob}]
  BY ListDeviceJob
<1>2. StoreTypeOK' /\ StoreQuiet
  BY <1>1, QuietUnavailable, RegisteredAssumption DEF TypeOK, ListDevice
<1>3. /\ pc' = pc /\ reply' = reply /\ wake' = wake /\ started' = started
      /\ faultFree' = faultFree /\ vouched' = vouched /\ pc[t] # "idle"
  BY DEF ListDevice, historyVars
<1>4. job[t].listed \subseteq Registered \ job[t].todo
  BY <1>1, <1>3 DEF TypeOK
<1>5. ASSUME NEW u \in Threads, pc'[u] # "idle"
      PROVE  /\ job'[u] \in Jobs /\ job'[u].kind \in KindsAt(pc'[u])
             /\ job'[u].kind = "list" => job'[u].listed \subseteq Registered \ job'[u].todo
  <2>1. CASE u = t
    BY <1>1, <1>3, <1>4, <2>1 DEF TypeOK
  <2>2. CASE u # t
    BY <1>1, <1>3, <1>5, <2>2 DEF TypeOK
  <2> QED
    BY <2>1, <2>2
<1> QED
  BY <1>1, <1>2, <1>3, <1>5 DEF TypeOK

\* The answer of a list.
LEMMA AnswerListTyped ==
    ASSUME TypeOK, NEW t \in Threads, AnswerList(t)
    PROVE  /\ TypeOK' /\ StoreQuiet
           /\ job[t].kind = "list" /\ job[t].todo = {}
           /\ job[t].listed \subseteq Registered
           /\ job'[t].kind = "list" /\ job'[t].listed = job[t].listed \cup {Chaos}
           /\ job'[t].gone = job[t].gone /\ job'[t].clean = job[t].clean
<1>1. /\ pc[t] = "list_devices" /\ pc[t] # "idle" /\ job[t].todo = {}
      /\ job' = [job EXCEPT ![t].listed = @ \cup {Chaos}]
      /\ vouched' = job[t].listed /\ faultFree' = faultFree
      /\ wake' = wake /\ started' = started
      /\ pc' = [pc EXCEPT ![t] = "idle"]
      /\ reply' = [reply EXCEPT ![t] = "listed"]
      /\ now' = now /\ UNCHANGED storeVars
  BY DEF AnswerList, Finish
<1>2. job[t] \in Jobs /\ job[t].kind = "list"
  BY <1>1, AtLabel
<1>3. job[t] \in [kind : {"list"}, todo : SUBSET Registered, listed : SUBSET Devices,
                  gone : SUBSET Devices, clean : BOOLEAN]
  BY <1>2, JobFields, Zenon
<1>4. job[t].listed \subseteq Registered
  BY <1>1, <1>2 DEF TypeOK
<1> DEFINE j == [job[t] EXCEPT !.listed = @ \cup {Chaos}]
<1>5. job' = [job EXCEPT ![t] = j]
  BY <1>1, <1>2 DEF TypeOK
<1>6. /\ j \in [kind : {"list"}, todo : SUBSET Registered, listed : SUBSET Devices,
                gone : SUBSET Devices, clean : BOOLEAN]
      /\ j.kind = "list" /\ j.listed = job[t].listed \cup {Chaos}
      /\ j.gone = job[t].gone /\ j.clean = job[t].clean
  BY <1>3, ChaosAssumption
<1>7. j \in Jobs
  BY <1>6, Zenon DEF Jobs
<1> HIDE DEF j
<1>8. job'[t] = j /\ job' \in [Threads -> Jobs \cup {NoJob}]
  BY <1>5, <1>7 DEF TypeOK
<1>9. ASSUME NEW u \in Threads, pc'[u] # "idle"
      PROVE  /\ job'[u] \in Jobs /\ job'[u].kind \in KindsAt(pc'[u])
             /\ job'[u].kind = "list" => job'[u].listed \subseteq Registered \ job'[u].todo
  <2>1. u # t /\ pc'[u] = pc[u] /\ job'[u] = job[u]
    BY <1>1, <1>5, <1>9 DEF TypeOK
  <2> QED
    BY <1>9, <2>1 DEF TypeOK
<1>10. /\ pc' \in [Threads -> Labels] /\ reply' \in [Threads -> Replies]
       /\ wake' \in [Threads -> Nat] /\ started' \in [Threads -> Nat]
  BY <1>1 DEF TypeOK, Labels, Replies
<1>11. StoreTypeOK' /\ StoreQuiet
  BY <1>1, QuietTime DEF TypeOK
<1>12. faultFree' \in BOOLEAN /\ vouched' \subseteq Registered
  BY <1>1, <1>4 DEF TypeOK
<1>13. TypeOK'
  BY <1>8, <1>9, <1>10, <1>11, <1>12 DEF TypeOK
<1> QED
  BY <1>1, <1>2, <1>4, <1>6, <1>8, <1>11, <1>13

\* The steps between the gate and the device: a look at the store and a move.
LEMMA PathStepTyped ==
    ASSUME TypeOK, NEW t \in Threads,
           \/ CheckHasDevice(t) \/ DescribeDevice(t) \/ ResolveFunctionId(t)
           \/ CheckUnreachable(t) \/ CheckUnavailable(t) \/ MarkQuality(t)
           \/ ReadLatency(t) \/ WakeUp(t) \/ SampleFailure(t) \/ ApplyDevice(t)
    PROVE  /\ TypeOK' /\ StoreQuiet /\ UNCHANGED <<job, historyVars>> /\ pc[t] # "idle"
           /\ \A u \in Threads \ {t} : pc'[u] = pc[u] /\ reply'[u] = reply[u]
<1> DEFINE d == job[t].device
           Moved == /\ TypeOK' /\ StoreQuiet /\ UNCHANGED <<job, historyVars>>
                    /\ pc[t] # "idle"
                    /\ \A u \in Threads \ {t} : pc'[u] = pc[u] /\ reply'[u] = reply[u]
<1>1. ASSUME NEW label \in Labels, Goto(t, label), StoreTypeOK', StoreQuiet,
             UNCHANGED <<job, started, historyVars>>, wake' \in [Threads -> Nat],
             pc[t] # "idle", job[t].kind \in KindsAt(label)
      PROVE  Moved
  <2>1. TypeOK'
    BY <1>1, GotoTyped
  <2> QED
    BY <1>1, <2>1 DEF Goto, TypeOK
<1>2. ASSUME NEW status \in Replies, Finish(t, status), StoreTypeOK', StoreQuiet,
             UNCHANGED <<job, wake, started, historyVars>>, pc[t] # "idle"
      PROVE  Moved
  <2>1. TypeOK'
    <3>1. UNCHANGED <<job, wake, started>> /\ faultFree' \in BOOLEAN
          /\ vouched' \subseteq Registered
      BY <1>2 DEF TypeOK, historyVars
    <3> QED
      BY <1>2, <3>1, FinishTyped
  <2> QED
    BY <1>2, <2>1 DEF Finish, TypeOK
<1> SUFFICES Moved
  OBVIOUS
<1> HIDE DEF Moved
<1>3. wake \in [Threads -> Nat] /\ StoreTypeOK
  BY DEF TypeOK
<1>4. CASE CheckHasDevice(t)
  <2>1. pc[t] = "has_device" /\ d \in Devices /\ job[t].kind \in {"describe", "read"}
    BY <1>4, AtLabel DEF CheckHasDevice
  <2>2. StoreTypeOK' /\ StoreQuiet
    BY <1>3, <1>4, <2>1, QuietUnavailable DEF CheckHasDevice
  <2>3. CASE Finish(t, "not_found")
    BY <1>2, <1>4, <2>1, <2>2, <2>3 DEF CheckHasDevice, Replies
  <2>4. CASE Goto(t, AfterGate(t))
    <3>1. AfterGate(t) \in Labels /\ job[t].kind \in KindsAt(AfterGate(t))
      BY <2>1 DEF AfterGate, Labels, KindsAt
    <3> QED
      BY <1>1, <1>3, <1>4, <2>1, <2>2, <2>4, <3>1 DEF CheckHasDevice
  <2> QED
    BY <1>4, <2>3, <2>4 DEF CheckHasDevice
<1>5. CASE DescribeDevice(t)
  <2>1. pc[t] = "describe_device" /\ d \in Devices
    BY <1>5, AtLabel DEF DescribeDevice
  <2>2. StoreTypeOK' /\ StoreQuiet
    BY <1>3, <1>5, <2>1, QuietUnavailable DEF DescribeDevice
  <2>3. PICK status \in Replies : Finish(t, status)
    BY <1>5 DEF DescribeDevice, Replies
  <2> QED
    BY <1>2, <1>5, <2>1, <2>2, <2>3 DEF DescribeDevice
<1>6. CASE ResolveFunctionId(t)
  <2>1. pc[t] = "resolve_function_id" /\ d \in Devices
    BY <1>6, AtLabel DEF ResolveFunctionId
  <2>2. StoreTypeOK' /\ StoreQuiet
    BY <1>3, <1>6, <2>1, QuietUnavailable DEF ResolveFunctionId
  <2> QED
    BY <1>2, <1>6, <2>1, <2>2 DEF ResolveFunctionId, Replies
<1>7. CASE CheckUnreachable(t)
  <2>1. pc[t] = "is_device_unreachable" /\ d \in Devices /\ job[t].kind \in {"read", "call"}
    BY <1>7, AtLabel DEF CheckUnreachable
  <2>2. StoreTypeOK' /\ StoreQuiet
    BY <1>3, <1>7, <2>1, QuietUnreachable DEF CheckUnreachable
  <2>3. CASE Finish(t, "unreachable")
    BY <1>2, <1>7, <2>1, <2>2, <2>3 DEF CheckUnreachable, Replies
  <2>4. CASE Goto(t, "is_device_unavailable")
    <3>1. "is_device_unavailable" \in Labels /\ job[t].kind \in KindsAt("is_device_unavailable")
      BY <2>1 DEF Labels, KindsAt
    <3> QED
      BY <1>1, <1>3, <1>7, <2>1, <2>2, <2>4, <3>1 DEF CheckUnreachable
  <2> QED
    BY <1>7, <2>3, <2>4 DEF CheckUnreachable
<1>8. CASE CheckUnavailable(t)
  <2>1. pc[t] = "is_device_unavailable" /\ d \in Devices
    BY <1>8, AtLabel DEF CheckUnavailable
  <2>2. StoreTypeOK' /\ StoreQuiet
    BY <1>3, <1>8, <2>1, QuietUnavailable DEF CheckUnavailable
  <2>3. ASSUME NEW status \in {"unavailable", "empty"}, Finish(t, status) PROVE Moved
    BY <1>2, <1>8, <2>1, <2>2, <2>3 DEF CheckUnavailable, Replies
  <2>4. CASE job[t].kind = "call" /\ Goto(t, "get_call_latency")
    <3>1. "get_call_latency" \in Labels /\ job[t].kind \in KindsAt("get_call_latency")
      BY <2>4 DEF Labels, KindsAt
    <3> QED
      BY <1>1, <1>3, <1>8, <2>1, <2>2, <2>4, <3>1 DEF CheckUnavailable
  <2>5. CASE job[t].kind = "read" /\ Goto(t, "is_signal_faulted")
    <3>1. "is_signal_faulted" \in Labels /\ job[t].kind \in KindsAt("is_signal_faulted")
      BY <2>5 DEF Labels, KindsAt
    <3> QED
      BY <1>1, <1>3, <1>8, <2>1, <2>2, <2>5, <3>1 DEF CheckUnavailable
  <2> QED
    BY <1>8, <2>3, <2>4, <2>5 DEF CheckUnavailable
<1>9. CASE MarkQuality(t)
  <2>1. pc[t] = "is_signal_faulted" /\ d \in Devices /\ job[t].signal \in Signals
    BY <1>9, AtLabel DEF MarkQuality
  <2>2. StoreTypeOK' /\ StoreQuiet
    <3>1. CASE UNCHANGED storeVars
      BY <1>3, <1>9, <3>1, QuietTime DEF MarkQuality
    <3>2. CASE IsSignalFaulted(d, job[t].signal)
      BY <1>3, <1>9, <2>1, <3>2, QuietSignal DEF MarkQuality
    <3> QED
      BY <1>9, <3>1, <3>2 DEF MarkQuality
  <2>3. PICK status \in Replies : Finish(t, status)
    BY <1>9 DEF MarkQuality, Replies
  <2> QED
    BY <1>2, <1>9, <2>1, <2>2, <2>3 DEF MarkQuality
<1>10. CASE ReadLatency(t)
  <2>1. pc[t] = "get_call_latency" /\ d \in Devices /\ job[t].kind = "call"
    BY <1>10, AtLabel DEF ReadLatency
  <2>2. StoreTypeOK' /\ StoreQuiet
    BY <1>3, <1>10, QuietTime DEF ReadLatency
  <2>3. PICK label \in {"sleep_for", "should_call_fail"} : Goto(t, label)
    BY <1>10 DEF ReadLatency
  <2>4. label \in Labels /\ job[t].kind \in KindsAt(label)
    BY <2>1, <2>3 DEF Labels, KindsAt
  <2>5. wake' \in [Threads -> Nat]
    <3>1. now \in Nat /\ CallLatency(d) \in Nat
      BY <1>3, <2>1 DEF StoreTypeOK, CallLatency
    <3>2. now + CallLatency(d) * TicksPerMs \in Nat
      BY <3>1, TicksPerMsAssumption
    <3>3. wake' = wake \/ wake' = [wake EXCEPT ![t] = now + CallLatency(d) * TicksPerMs]
      BY <1>10 DEF ReadLatency
    <3> QED
      BY <1>3, <3>2, <3>3
  <2> QED
    BY <1>1, <1>10, <2>1, <2>2, <2>3, <2>4, <2>5 DEF ReadLatency
<1>11. CASE WakeUp(t)
  <2>1. pc[t] = "sleep_for" /\ d \in Devices /\ job[t].kind = "call"
    BY <1>11, AtLabel DEF WakeUp
  <2>2. StoreTypeOK' /\ StoreQuiet
    BY <1>3, <1>11, QuietTime DEF WakeUp
  <2>3. "should_call_fail" \in Labels /\ job[t].kind \in KindsAt("should_call_fail")
    BY <2>1 DEF Labels, KindsAt
  <2> QED
    BY <1>1, <1>3, <1>11, <2>1, <2>2, <2>3 DEF WakeUp
<1>12. CASE SampleFailure(t)
  <2>1. pc[t] = "should_call_fail" /\ d \in Devices /\ job[t].kind = "call"
    BY <1>12, AtLabel DEF SampleFailure
  <2>2. StoreTypeOK' /\ StoreQuiet
    BY <1>3, <1>12, QuietTime DEF SampleFailure
  <2>3. ASSUME NEW status \in {"failed", "not_found"}, Finish(t, status) PROVE Moved
    BY <1>2, <1>12, <2>1, <2>2, <2>3 DEF SampleFailure, Replies
  <2>4. CASE Goto(t, "apply")
    <3>1. "apply" \in Labels /\ job[t].kind \in KindsAt("apply")
      BY <2>1 DEF Labels, KindsAt
    <3> QED
      BY <1>1, <1>3, <1>12, <2>1, <2>2, <2>4, <3>1 DEF SampleFailure
  <2> QED
    BY <1>12, <2>3, <2>4 DEF SampleFailure
<1>13. CASE ApplyDevice(t)
  <2>1. StoreTypeOK' /\ StoreQuiet
    BY <1>3, <1>13, QuietTime DEF ApplyDevice
  <2>2. PICK status \in Replies : Finish(t, status)
    BY <1>13 DEF ApplyDevice, Replies
  <2> QED
    BY <1>2, <1>13, <2>1, <2>2 DEF ApplyDevice
<1> QED
  BY <1>4, <1>5, <1>6, <1>7, <1>8, <1>9, <1>10, <1>11, <1>12, <1>13

\* chaos_control.  Every duration ends up as a deadline of the clock's word.
LEMMA ApplyChaosTyped ==
    ASSUME TypeOK, NEW t \in Threads, ApplyChaos(t)
    PROVE  TypeOK'
<1> DEFINE a == job[t].args
<1>1. pc[t] = "apply" /\ job[t].device = Chaos /\ job' = job /\ wake' = wake
      /\ started' = started /\ now' = now
  BY DEF ApplyChaos
<1>2. a \in ChaosArgs
  BY <1>1, AtLabel DEF ArgsFor
<1>3. StoreTypeOK /\ faultFree \in BOOLEAN /\ vouched \subseteq Registered
  BY DEF TypeOK
<1>4. \E status \in {"rejected", "ok", "not_found"} : Finish(t, status)
  BY DEF ApplyChaos
<1>5. \/ UNCHANGED storeVars
      \/ ClearAllFaults
      \/ /\ ValidArgs(a)
         /\ \/ /\ a.fn = kFnInjectDeviceUnavailable
               /\ InjectDeviceUnavailable(a.target, a.duration_ms)
            \/ /\ a.fn = kFnInjectSignalFault
               /\ InjectSignalFault(a.target, a.signal_id, a.duration_ms)
            \/ /\ a.fn = kFnInjectCallLatency
               /\ InjectCallLatency(a.target, a.latency_ms)
            \/ /\ a.fn = kFnInjectCallFailure
               /\ InjectCallFailure(a.target, a.function_id, a.rate)
            \/ /\ a.fn = kFnInjectDeviceUnreachable
               /\ InjectDeviceUnreachable(a.target, a.duration_ms)
  BY Zenon DEF ApplyChaos
<1>6. faultFree' \in BOOLEAN
  <2>1. faultFree' = faultFree \/ faultFree' = TRUE \/ faultFree' = FALSE
    BY Zenon DEF ApplyChaos, historyVars
  <2> QED
    BY <1>3, <2>1, Zenon
<1>7. vouched' \subseteq Registered
  <2>1. vouched' = vouched \/ vouched' = {}
    BY DEF ApplyChaos, historyVars
  <2> QED
    BY <1>3, <2>1
<1>8. StoreTypeOK'
  <2>1. CASE UNCHANGED storeVars
    BY <1>1, <1>3, <2>1, QuietTime
  <2>2. CASE ClearAllFaults
    BY <1>1, <1>3, <2>2 DEF ClearAllFaults, StoreTypeOK, NoTimedFaults, NoSignalFaults,
                            NoLatencies, NoFailureRules, Rates
  <2>3. CASE /\ ValidArgs(a) /\ a.fn = kFnInjectDeviceUnavailable
             /\ InjectDeviceUnavailable(a.target, a.duration_ms)
    <3>1. a.target \in Devices /\ a.duration_ms \in Int
      BY <1>2, <2>3, ValidArgFields
    <3>2. ExpiresAt(a.duration_ms) \in Time
      BY <1>3, <3>1, ExpiresAtType DEF StoreTypeOK
    <3> QED
      BY <1>1, <1>3, <2>3, <3>1, <3>2 DEF InjectDeviceUnavailable, StoreTypeOK
  <2>4. CASE /\ ValidArgs(a) /\ a.fn = kFnInjectDeviceUnreachable
             /\ InjectDeviceUnreachable(a.target, a.duration_ms)
    <3>1. a.target \in Devices /\ a.duration_ms \in Int
      BY <1>2, <2>4, ValidArgFields
    <3>2. ExpiresAt(a.duration_ms) \in Time
      BY <1>3, <3>1, ExpiresAtType DEF StoreTypeOK
    <3> QED
      BY <1>1, <1>3, <2>4, <3>1, <3>2 DEF InjectDeviceUnreachable, StoreTypeOK
  <2>5. CASE /\ ValidArgs(a) /\ a.fn = kFnInjectSignalFault
             /\ InjectSignalFault(a.target, a.signal_id, a.duration_ms)
    <3>1. a.target \in Devices /\ a.duration_ms \in Int /\ a.signal_id \in Signals
      BY <1>2, <2>5, ValidArgFields
    <3>2. ExpiresAt(a.duration_ms) \in Time
      BY <1>3, <3>1, ExpiresAtType DEF StoreTypeOK
    <3> DEFINE fault == [signal_id |-> a.signal_id, expires_at |-> ExpiresAt(a.duration_ms)]
    <3>3. fault \in SignalFault
      BY <3>1, <3>2 DEF SignalFault
    <3>4. signal_faults' = [signal_faults EXCEPT ![a.target] = @ \cup {fault}]
      BY <2>5 DEF InjectSignalFault
    <3> HIDE DEF fault
    <3>5. signal_faults' \in [Devices -> SUBSET SignalFault]
      BY <1>3, <3>1, <3>3, <3>4 DEF StoreTypeOK
    <3> QED
      BY <1>1, <1>3, <2>5, <3>5 DEF InjectSignalFault, StoreTypeOK
  <2>6. CASE /\ ValidArgs(a) /\ a.fn = kFnInjectCallLatency
             /\ InjectCallLatency(a.target, a.latency_ms)
    <3>1. a.target \in Devices /\ a.latency_ms \in Nat
      BY <1>2, <2>6, ValidArgFields
    <3> QED
      BY <1>1, <1>3, <2>6, <3>1 DEF InjectCallLatency, StoreTypeOK
  <2>7. CASE /\ ValidArgs(a) /\ a.fn = kFnInjectCallFailure
             /\ InjectCallFailure(a.target, a.function_id, a.rate)
    <3>1. a.target \in Devices /\ a.function_id \in FunctionStrings /\ a.rate \in Rates
      BY <1>2, <2>7, ValidArgFields
    <3> QED
      BY <1>1, <1>3, <2>7, <3>1 DEF InjectCallFailure, StoreTypeOK
  <2> QED
    BY <1>5, <2>1, <2>2, <2>3, <2>4, <2>5, <2>6, <2>7, Zenon
<1> QED
  <2>1. PICK status \in {"rejected", "ok", "not_found"} : Finish(t, status)
    BY <1>4
  <2>2. status \in Replies
    BY DEF Replies
  <2> QED
    BY <1>1, <1>6, <1>7, <1>8, <2>1, <2>2, FinishTyped

\* The jobs that requests and commands bring, and where each enters the path.
LEMMA BegunJobs ==
    ASSUME TypeOK, NEW d \in Devices
    PROVE  /\ DescribeJob(d) \in Jobs /\ ResolveJob(d) \in Jobs /\ ListJob \in Jobs
           /\ \A s \in Signals : ReadJob(d, s) \in Jobs
           /\ \A a \in ArgsFor(d) : CallJob(d, a) \in Jobs
<1>1. faultFree \in BOOLEAN /\ Gone \in SUBSET Devices
  BY DEF TypeOK, Gone
<1>2. ListJob \in [kind : {"list"}, todo : SUBSET Registered, listed : SUBSET Devices,
                   gone : SUBSET Devices, clean : BOOLEAN]
  BY <1>1 DEF ListJob
<1>3. DescribeJob(d) \in [kind : {"describe"}, device : Devices, gone : SUBSET Devices,
                          clean : BOOLEAN]
  BY <1>1 DEF DescribeJob
<1>4. ASSUME NEW s \in Signals
      PROVE  ReadJob(d, s) \in [kind : {"read"}, device : Devices, signal : Signals,
                                gone : SUBSET Devices, clean : BOOLEAN]
  BY <1>1 DEF ReadJob
<1>5. ResolveJob(d) \in [kind : {"resolve"}, device : Devices, clean : BOOLEAN]
  BY <1>1 DEF ResolveJob
<1>6. ASSUME NEW a \in ArgsFor(d)
      PROVE  CallJob(d, a) \in Jobs
  <2>1. CallJob(d, a) \in [kind : {"call"}, device : {d}, args : ArgsFor(d), clean : BOOLEAN]
    BY <1>1 DEF CallJob
  <2>2. CallJob(d, a) \in UNION {[kind : {"call"}, device : {c}, args : ArgsFor(c),
                                  clean : BOOLEAN] : c \in Devices}
    BY <2>1, Zenon
  <2> QED
    BY <2>2, Zenon DEF Jobs
<1>7. ListJob \in Jobs /\ DescribeJob(d) \in Jobs /\ ResolveJob(d) \in Jobs
  BY <1>2, <1>3, <1>5, Zenon DEF Jobs
<1>8. \A s \in Signals : ReadJob(d, s) \in Jobs
  BY <1>4, Zenon DEF Jobs
<1> QED
  BY <1>6, <1>7, <1>8

\* What each kind of job brings into the path.
Entries(t, label, j) ==
    \/ t = "request" /\ label = "list_devices" /\ j = ListJob
    \/ t = "request" /\ label = "has_device" /\ \E d \in Devices : j = DescribeJob(d)
    \/ /\ t = "request" /\ label = "has_device"
       /\ \E d \in Devices, s \in Signals : j = ReadJob(d, s)
    \/ /\ t = "request" /\ label = "is_device_unreachable"
       /\ \E d \in Devices : \E a \in ArgsFor(d) : j = CallJob(d, a)
    \/ t = "request" /\ label = "resolve_function_id" /\ \E d \in Devices : j = ResolveJob(d)
    \/ /\ t = "ticker" /\ label = "is_device_unavailable"
       /\ \E d \in EngineTargets : \E a \in ArgsFor(d) : j = CallJob(d, a)

LEMMA EntryTyped ==
    ASSUME TypeOK, NEW t \in Threads, NEW label, NEW j, Entries(t, label, j), Begin(t, label, j)
    PROVE  TypeOK'
<1>1. label \in Labels
  BY DEF Entries, Labels
<1>2. j \in Jobs
  <2>1. CASE j = ListJob
    BY <2>1, BegunJobs, ChaosAssumption
  <2>2. CASE j # ListJob
    BY <2>2, BegunJobs, EngineTargetsAssumption DEF Entries
  <2> QED
    BY <2>1, <2>2
<1>3. j.kind \in KindsAt(label)
  BY DEF Entries, KindsAt, ListJob, DescribeJob, ReadJob, CallJob, ResolveJob
<1>4. j.kind = "list" => j.listed \subseteq Registered \ j.todo
  BY DEF Entries, ListJob, DescribeJob, ReadJob, CallJob, ResolveJob
<1> QED
  BY <1>1, <1>2, <1>3, <1>4, BeginTyped

\* Every job enters by one of the entries.
LEMMA NextSplit ==
    ASSUME Next
    PROVE  \/ \E t \in Threads : \E label, j : Entries(t, label, j) /\ Begin(t, label, j)
           \/ \E t \in Threads : Step(t)
           \/ AdvanceClock
<1>0. "request" \in Threads /\ "ticker" \in Threads
  BY DEF Threads
<1>1. CASE BeginList
  BY <1>0, <1>1 DEF BeginList, Entries
<1>2. CASE BeginDescribe
  BY <1>0, <1>2 DEF BeginDescribe, Entries
<1>3. CASE BeginRead
  BY <1>0, <1>3 DEF BeginRead, Entries
<1>4. CASE BeginCall
  BY <1>0, <1>4 DEF BeginCall, Entries
<1>5. CASE BeginCallByName
  BY <1>0, <1>5 DEF BeginCallByName, Entries
<1>6. CASE BeginCommand
  BY <1>0, <1>6 DEF BeginCommand, Entries
<1> QED
  BY <1>1, <1>2, <1>3, <1>4, <1>5, <1>6, Zenon DEF Next

LEMMA ClockTyped ==
    ASSUME TypeOK, AdvanceClock \/ UNCHANGED vars
    PROVE  TypeOK' /\ StoreQuiet /\ UNCHANGED callVars
<1>1. StoreTypeOK' /\ StoreQuiet
  BY QuietTime DEF TypeOK, AdvanceClock, vars
<1>2. UNCHANGED callVars
  BY DEF AdvanceClock, vars
<1>3. TypeOK'
  BY <1>1, <1>2 DEF TypeOK, callVars, historyVars
<1> QED
  BY <1>1, <1>2, <1>3

LEMMA InitTyped ==
    ASSUME Init
    PROVE  TypeOK
<1>1. StoreTypeOK
  BY DEF Init, StoreInit, StoreTypeOK, NoTimedFaults, NoSignalFaults, NoLatencies,
         NoFailureRules, Rates
<1>2. faultFree \in BOOLEAN
  BY Zenon DEF Init
<1>3. /\ pc \in [Threads -> Labels] /\ reply \in [Threads -> Replies]
      /\ wake \in [Threads -> Nat] /\ started \in [Threads -> Nat]
      /\ vouched \subseteq Registered
      /\ job \in [Threads -> Jobs \cup {NoJob}]
      /\ \A t \in Threads : pc[t] = "idle"
  BY DEF Init, Labels, Replies
<1> QED
  BY <1>1, <1>2, <1>3 DEF TypeOK

\* Types are kept by every step, whoever the engine sends commands to.
LEMMA NextTyped ==
    ASSUME TypeOK, [Next]_vars
    PROVE  TypeOK'
<1>1. ASSUME NEW t \in Threads, Step(t)
      PROVE  TypeOK'
  BY <1>1, ListDeviceTyped, AnswerListTyped, PathStepTyped, ApplyChaosTyped DEF Step
<1>2. CASE Next
  BY <1>1, <1>2, NextSplit, EntryTyped, ClockTyped
<1> QED
  BY <1>2, ClockTyped

\* Type correctness of the request path, its jobs included: a thread at a label
\* of the path carries a job of a kind that can stand there.
THEOREM TypeCorrect == Spec => []TypeOK
<1>1. Init => TypeOK
  BY InitTyped
<1>2. TypeOK /\ [Next]_vars => TypeOK'
  BY NextTyped
<1> QED
  BY <1>1, <1>2, PTL DEF Spec

-----------------------------------------------------------------------------
(* The steps keep the invariant *)

LEMMA InitInv ==
    ASSUME Init
    PROVE  IInv
<1>1. TypeOK
  BY InitTyped
<1>2. /\ pc["request"] = "idle" /\ pc["ticker"] = "idle" /\ reply["request"] = "none"
      /\ job["request"] = NoJob /\ vouched = {}
  BY DEF Init, Threads
<1>3. Neutral
  BY DEF Init, StoreInit, Neutral
<1>4. TickerNeverInjects
  BY <1>2 DEF TickerNeverInjects
<1>5. AdmittedStaysAvailable
  BY <1>1, <1>2 DEF AdmittedStaysAvailable, PastUnavailable
<1>6. AnsweredAtTheEnd /\ Gated /\ GateHolds /\ GoneCovers /\ CleanMeansNeutral
  BY <1>2, <1>3 DEF AnsweredAtTheEnd, Gated, GateHolds, GoneCovers, CleanMeansNeutral, Req
<1>7. CleanRequestUntouched /\ ListProgress /\ ListedIsList /\ ListingIsHonest
      /\ VouchedAvailable /\ ListedIsDescribable
  BY <1>2 DEF CleanRequestUntouched, ListProgress, ListedIsList, ListingIsHonest,
              VouchedAvailable, ListedIsDescribable, Req
<1> QED
  BY <1>1, <1>4, <1>5, <1>6, <1>7 DEF IInv, RequestInv

\* A request that comes in.  What it notes of the store is true at that moment.
LEMMA RequestEntry ==
    ASSUME IInv, NEW label, NEW j, Entries("request", label, j), Begin("request", label, j)
    PROVE  IInv'
<1>1. TypeOK' /\ Req \in Threads /\ TypeOK /\ RequestInv
  BY EntryTyped DEF IInv, Threads, Req
<1>2. /\ pc'[Req] = label /\ job'[Req] = j /\ reply'[Req] = "pending"
      /\ pc'["ticker"] = pc["ticker"] /\ job'["ticker"] = job["ticker"]
      /\ now' = now /\ UNCHANGED storeVars /\ faultFree' = faultFree /\ vouched' = vouched
  BY <1>1 DEF Begin, TypeOK, Req, Threads, historyVars
<1>3. /\ j.clean = faultFree
      /\ j.kind \in {"list", "describe", "read"} => j.gone = Gone
      /\ j.kind = "list" => j.todo = Registered /\ j.listed = {}
      /\ label = "list_devices" <=> j.kind = "list"
      /\ label \in {"list_devices", "has_device", "is_device_unreachable",
                    "resolve_function_id"}
      /\ label = "is_device_unreachable" => j.kind = "call"
  BY DEF Entries, ListJob, DescribeJob, ReadJob, CallJob, ResolveJob
<1>4. StoreQuiet
  BY <1>1, <1>2, QuietTime DEF TypeOK
<1>5. TickerNeverInjects'
  BY <1>2 DEF IInv, TickerNeverInjects
<1>6. AnsweredAtTheEnd' /\ Gated' /\ GateHolds'
  BY <1>2, <1>3 DEF AnsweredAtTheEnd, Gated, GateHolds, Req
<1>7. AdmittedStaysAvailable'
  BY <1>1, <1>2, <1>3 DEF AdmittedStaysAvailable, PastUnavailable, Req
<1>8. GoneCovers'
  BY <1>2, <1>3, <1>4 DEF GoneCovers, Gone, StoreQuiet
<1>9. CleanMeansNeutral'
  BY <1>1, <1>2, <1>3, <1>4 DEF CleanMeansNeutral, StoreQuiet, RequestInv
<1>10. CleanRequestUntouched' /\ ListedIsList' /\ ListingIsHonest' /\ ListedIsDescribable'
  BY <1>2, <1>3 DEF CleanRequestUntouched, ListedIsList, ListingIsHonest,
                    ListedIsDescribable, Req
<1>11. ListProgress'
  BY <1>2, <1>3 DEF ListProgress
<1>12. VouchedAvailable'
  BY <1>1, <1>2, <1>4, RegisteredAssumption DEF RequestInv, VouchedAvailable, StoreQuiet, TypeOK
<1> QED
  BY <1>1, <1>5, <1>6, <1>7, <1>8, <1>9, <1>10, <1>11, <1>12 DEF IInv, RequestInv

\* The ticker and the clock: the engine's commands only look at the store.
LEMMA OthersKeep ==
    ASSUME IInv, EngineSparesChaos,
           \/ Step("ticker") \/ AdvanceClock \/ UNCHANGED vars
           \/ \E label, j : Entries("ticker", label, j) /\ Begin("ticker", label, j)
    PROVE  IInv'
<1>1. TypeOK /\ TickerNeverInjects /\ RequestInv /\ Req \in Threads /\ "ticker" \in Threads
      /\ Req # "ticker"
  BY DEF IInv, Threads, Req
<1>2. CASE AdvanceClock \/ UNCHANGED vars
  <2>1. TypeOK' /\ StoreQuiet /\ UNCHANGED callVars
    BY <1>1, <1>2, ClockTyped
  <2>2. RequestInv'
    BY <1>1, <2>1, QuietStep DEF callVars
  <2> QED
    BY <1>1, <2>1, <2>2 DEF IInv, TickerNeverInjects, callVars
<1>3. CASE Step("ticker")
  <2>1. pc["ticker"] # "idle"
    BY <1>3 DEF Step, ListDevice, AnswerList, CheckHasDevice, DescribeDevice,
       ResolveFunctionId, CheckUnreachable, CheckUnavailable, MarkQuality, ReadLatency, WakeUp,
       SampleFailure, ApplyDevice, ApplyChaos
  <2>2. job["ticker"].kind = "call" /\ job["ticker"].device # Chaos
    BY <1>1, <2>1 DEF TickerNeverInjects
  <2>3. ~ListDevice("ticker") /\ ~AnswerList("ticker")
    BY <1>1, <2>1, <2>2, AtLabel DEF ListDevice, AnswerList
  <2>4. ~ApplyChaos("ticker")
    BY <2>2 DEF ApplyChaos
  <2>5. /\ TypeOK' /\ StoreQuiet /\ UNCHANGED <<job, historyVars>>
        /\ \A u \in Threads \ {"ticker"} : pc'[u] = pc[u] /\ reply'[u] = reply[u]
    BY <1>1, <1>3, <2>3, <2>4, PathStepTyped DEF Step
  <2>6. RequestInv'
    BY <1>1, <2>5, QuietStep
  <2>7. TickerNeverInjects'
    BY <2>2, <2>5 DEF TickerNeverInjects
  <2> QED
    BY <2>5, <2>6, <2>7 DEF IInv
<1>4. ASSUME NEW label, NEW j, Entries("ticker", label, j), Begin("ticker", label, j)
      PROVE  IInv'
  <2>1. TypeOK'
    BY <1>1, <1>4, EntryTyped
  <2>2. /\ pc'[Req] = pc[Req] /\ job'[Req] = job[Req] /\ reply'[Req] = reply[Req]
        /\ job'["ticker"] = j /\ now' = now /\ UNCHANGED storeVars /\ UNCHANGED historyVars
    BY <1>1, <1>4 DEF Begin, TypeOK
  <2>3. StoreQuiet
    BY <1>1, <2>2, QuietTime DEF TypeOK
  <2>4. RequestInv'
    BY <1>1, <2>1, <2>2, <2>3, QuietStep
  <2>5. j.kind = "call" /\ j.device # Chaos
    BY <1>4 DEF Entries, CallJob, EngineSparesChaos
  <2> QED
    BY <2>1, <2>2, <2>4, <2>5 DEF IInv, TickerNeverInjects
<1> QED
  BY <1>2, <1>3, <1>4

\* One device more on the list, or left out of it for good.
LEMMA RequestLists ==
    ASSUME TypeOK, RequestInv, ListDevice(Req)
    PROVE  RequestInv'
<1>0. Req \in Threads
  BY DEF Req, Threads
<1>1. TypeOK' /\ StoreQuiet
  BY <1>0, ListDeviceTyped
<1>2. PICK d \in Registered :
         /\ IsDeviceUnavailable(d) /\ d \in job[Req].todo
         /\ \A u \in Threads \ {Req} : job'[u] = job[u]
         /\ job[Req].kind = "list" /\ job'[Req] \in Jobs /\ job'[Req].kind = "list"
         /\ job'[Req].todo = job[Req].todo \ {d}
         /\ job'[Req].listed = IF DeviceUnavailable(d) THEN job[Req].listed
                               ELSE job[Req].listed \cup {d}
         /\ job'[Req].gone = job[Req].gone /\ job'[Req].clean = job[Req].clean
         /\ job' \in [Threads -> Jobs \cup {NoJob}]
  BY <1>0, ListDeviceJob
<1>3. /\ pc[Req] = "list_devices" /\ pc'[Req] = "list_devices" /\ reply' = reply
      /\ reply[Req] = "pending" /\ faultFree' = faultFree /\ vouched' = vouched
  BY DEF ListDevice, historyVars, RequestInv, AnsweredAtTheEnd
<1>4. AnsweredAtTheEnd' /\ Gated' /\ GateHolds' /\ ListedIsList' /\ ListingIsHonest'
      /\ ListedIsDescribable'
  BY <1>3 DEF AnsweredAtTheEnd, Gated, GateHolds, ListedIsList, ListingIsHonest,
              ListedIsDescribable, Req
<1>5. AdmittedStaysAvailable'
  BY <1>1, <1>3 DEF AdmittedStaysAvailable, PastUnavailable, Req
<1>6. GoneCovers'
  BY <1>1, <1>2, <1>3 DEF GoneCovers, RequestInv, StoreQuiet
<1>7. CleanMeansNeutral'
  BY <1>1, <1>2, <1>3 DEF CleanMeansNeutral, RequestInv, StoreQuiet
<1>8. CleanRequestUntouched'
  BY <1>3 DEF CleanRequestUntouched, Req
<1>9. VouchedAvailable'
  BY <1>1, <1>3, RegisteredAssumption DEF RequestInv, VouchedAvailable, StoreQuiet, TypeOK
<1>10. ListProgress'
  <2>1. d \in Devices /\ job[Req].listed \subseteq Devices
    BY <1>0, <1>2, <1>3, RegisteredAssumption DEF TypeOK
  <2>2. DeviceUnavailable(d) => d \in job[Req].gone /\ ~job[Req].clean
    <3>1. DeviceUnavailable(d) => d \in job[Req].gone
      BY <1>2, <1>3, <2>1 DEF RequestInv, GoneCovers
    <3>2. job[Req].clean => Neutral
      BY <1>3 DEF RequestInv, CleanMeansNeutral
    <3>3. Neutral => ~DeviceUnavailable(d)
      BY <2>1, NeutralFacts
    <3> QED
      BY <3>1, <3>2, <3>3
  <2>3. ASSUME NEW c \in Registered \ (job'[Req].todo \cup job'[Req].listed)
        PROVE  c \in job'[Req].gone /\ ~job'[Req].clean
    BY <1>2, <1>3, <2>2 DEF RequestInv, ListProgress
  <2>4. ASSUME NEW c \in job'[Req].listed
        PROVE  ~DeviceUnavailable(c)'
    <3>1. c \in Devices /\ ~DeviceUnavailable(c)
      BY <1>2, <1>3, <2>1 DEF RequestInv, ListProgress
    <3> QED
      BY <1>1, <3>1 DEF StoreQuiet
  <2> QED
    BY <2>3, <2>4 DEF ListProgress
<1> QED
  BY <1>4, <1>5, <1>6, <1>7, <1>8, <1>9, <1>10 DEF RequestInv

\* The list is answered.
LEMMA RequestAnswersList ==
    ASSUME TypeOK, RequestInv, AnswerList(Req)
    PROVE  RequestInv'
<1>0. Req \in Threads
  BY DEF Req, Threads
<1>1. /\ TypeOK' /\ StoreQuiet
      /\ job[Req].kind = "list" /\ job[Req].todo = {}
      /\ job[Req].listed \subseteq Registered
      /\ job'[Req].kind = "list" /\ job'[Req].listed = job[Req].listed \cup {Chaos}
      /\ job'[Req].gone = job[Req].gone /\ job'[Req].clean = job[Req].clean
  BY <1>0, AnswerListTyped
<1>2. /\ pc[Req] = "list_devices" /\ pc'[Req] = "idle" /\ reply'[Req] = "listed"
      /\ faultFree' = faultFree /\ vouched' = job[Req].listed
  BY <1>0 DEF AnswerList, Finish, TypeOK
<1>3. /\ \A d \in Registered \ job[Req].listed : d \in job[Req].gone /\ ~job[Req].clean
      /\ \A d \in job[Req].listed : ~DeviceUnavailable(d)
  BY <1>1, <1>2 DEF RequestInv, ListProgress
<1>4. \A d \in job[Req].listed : ~DeviceUnavailable(d)'
  BY <1>1, <1>3, RegisteredAssumption DEF StoreQuiet
<1>5. AnsweredAtTheEnd' /\ Gated' /\ GateHolds' /\ GoneCovers' /\ ListProgress'
  BY <1>2 DEF AnsweredAtTheEnd, Gated, GateHolds, GoneCovers, ListProgress, Req
<1>6. AdmittedStaysAvailable'
  BY <1>1, <1>2 DEF AdmittedStaysAvailable, PastUnavailable, Req
<1>7. CleanMeansNeutral'
  BY <1>1, <1>2 DEF CleanMeansNeutral, RequestInv, StoreQuiet
<1>8. CleanRequestUntouched'
  BY <1>1, <1>2, <1>3 DEF CleanRequestUntouched, Req
<1>9. ListedIsList' /\ ListedIsDescribable'
  BY <1>1, <1>2 DEF ListedIsList, ListedIsDescribable, Req
<1>10. ListingIsHonest'
  BY <1>1, <1>2, <1>3, <1>4, ChaosAssumption DEF ListingIsHonest, Req
<1>11. VouchedAvailable'
  BY <1>2, <1>4 DEF VouchedAvailable
<1> QED
  BY <1>5, <1>6, <1>7, <1>8, <1>9, <1>10, <1>11 DEF RequestInv

\* A request on its way: what each look at the store established still holds at
\* the next one.
LEMMA RequestMoves ==
    ASSUME TypeOK, RequestInv,
           \/ CheckHasDevice(Req) \/ DescribeDevice(Req) \/ ResolveFunctionId(Req)
           \/ CheckUnreachable(Req) \/ CheckUnavailable(Req) \/ MarkQuality(Req)
           \/ ReadLatency(Req) \/ WakeUp(Req) \/ SampleFailure(Req) \/ ApplyDevice(Req)
    PROVE  RequestInv'
<1> DEFINE d == job[Req].device
<1>0. Req \in Threads
  BY DEF Req, Threads
<1>1. TypeOK' /\ StoreQuiet /\ UNCHANGED <<job, historyVars>> /\ pc[Req] # "idle"
  BY <1>0, PathStepTyped
<1>2. (faultFree' => Neutral') /\ VouchedAvailable'
  BY <1>1, RegisteredAssumption DEF RequestInv, CleanMeansNeutral, VouchedAvailable, StoreQuiet,
     historyVars, TypeOK
<1>3. job[Req].clean => Neutral
  BY <1>1 DEF RequestInv, CleanMeansNeutral
<1>4. vouched' = vouched /\ \A c \in vouched : c \in Registered /\ ~DeviceUnavailable(c)
  BY <1>1 DEF historyVars, RequestInv, VouchedAvailable, TypeOK
<1>5. ASSUME NEW label \in Labels \ {"idle", "list_devices", "has_device"}, Goto(Req, label),
             label \in PastUnavailable => ~DeviceUnavailable(d)' /\ ~DeviceUnreachable(d)',
             label = "is_device_unavailable" => ~DeviceUnreachable(d)',
             label = "describe_device" \/ job[Req].kind = "read" =>
                ~DeviceUnavailable(d)' /\ HasAdapter(d),
             label = "sleep_for" => ~job[Req].clean
      PROVE  RequestInv'
  BY <1>1, <1>5, GotoInv
<1>6. ASSUME NEW status \in Replies \ {"empty", "listed"}, Finish(Req, status),
             job[Req].clean => status \notin {"unreachable", "unavailable", "failed", "fault"},
             status = "not_found" /\ job[Req].kind \in {"describe", "read"} =>
                d \notin vouched /\ (HasAdapter(d) => d \in job[Req].gone)
      PROVE  RequestInv'
  BY <1>1, <1>2, <1>4, <1>6, FinishInv
<1>7. pc[Req] # "list_devices" => d \in Devices
  BY <1>0, <1>1, AtLabel
<1>8. d \in Devices => /\ DeviceUnavailable(d)' => DeviceUnavailable(d)
                       /\ DeviceUnreachable(d)' => DeviceUnreachable(d)
                       /\ job[Req].clean => ~DeviceUnavailable(d) /\ ~DeviceUnreachable(d)
  BY <1>1, <1>3, NeutralFacts DEF StoreQuiet
<1>9. CASE CheckHasDevice(Req)
  <2>1. d \in Devices /\ pc[Req] = "has_device" /\ job[Req].kind \in {"describe", "read"}
    BY <1>0, <1>7, <1>9, AtLabel DEF CheckHasDevice
  <2>2. CASE DeviceUnavailable(d) \/ ~HasAdapter(d)
    <3>1. Finish(Req, "not_found")
      BY <1>9, <2>2 DEF CheckHasDevice
    <3>2. d \notin vouched
      BY <1>4, <2>2 DEF HasAdapter
    <3>3. HasAdapter(d) => d \in job[Req].gone
      BY <1>1, <2>1, <2>2 DEF RequestInv, GoneCovers
    <3> QED
      BY <1>6, <3>1, <3>2, <3>3 DEF Replies
  <2>3. CASE ~(DeviceUnavailable(d) \/ ~HasAdapter(d))
    <3>1. Goto(Req, AfterGate(Req)) /\ ~DeviceUnavailable(d)' /\ HasAdapter(d)
      BY <1>8, <1>9, <2>1, <2>3 DEF CheckHasDevice
    <3>2. AfterGate(Req) \in {"describe_device", "is_device_unreachable"}
      BY DEF AfterGate
    <3> QED
      BY <1>5, <3>1, <3>2 DEF Labels, PastUnavailable
  <2> QED
    BY <2>2, <2>3
<1>10. CASE DescribeDevice(Req)
  <2>1. ~DeviceUnavailable(d) /\ HasAdapter(d)
    BY <1>10 DEF RequestInv, Gated, DescribeDevice
  <2>2. Finish(Req, "described")
    BY <1>10, <2>1 DEF DescribeDevice
  <2> QED
    BY <1>6, <2>2 DEF Replies
<1>11. CASE ResolveFunctionId(Req)
  <2>1. job[Req].kind = "resolve" /\ Finish(Req, "not_found")
    BY <1>0, <1>11, AtLabel DEF ResolveFunctionId
  <2> QED
    BY <1>6, <2>1 DEF Replies
<1>12. CASE CheckUnreachable(Req)
  <2>1. d \in Devices /\ pc[Req] = "is_device_unreachable"
    BY <1>7, <1>12 DEF CheckUnreachable
  <2>2. CASE DeviceUnreachable(d)
    <3>1. Finish(Req, "unreachable") /\ ~job[Req].clean
      BY <1>8, <1>12, <2>1, <2>2 DEF CheckUnreachable
    <3> QED
      BY <1>6, <3>1 DEF Replies
  <2>3. CASE ~DeviceUnreachable(d)
    <3>1. Goto(Req, "is_device_unavailable") /\ ~DeviceUnreachable(d)'
      BY <1>8, <1>12, <2>1, <2>3 DEF CheckUnreachable
    <3>2. job[Req].kind = "read" => ~DeviceUnavailable(d)' /\ HasAdapter(d)
      BY <1>8, <2>1 DEF RequestInv, Gated
    <3> QED
      BY <1>5, <3>1, <3>2 DEF Labels, PastUnavailable
  <2> QED
    BY <2>2, <2>3
<1>13. CASE CheckUnavailable(Req)
  <2>1. d \in Devices /\ pc[Req] = "is_device_unavailable" /\ ~DeviceUnreachable(d)
    BY <1>7, <1>13 DEF CheckUnavailable, RequestInv, AdmittedStaysAvailable, Req
  <2>2. CASE job[Req].kind = "call" /\ DeviceUnavailable(d)
    <3>1. Finish(Req, "unavailable") /\ ~job[Req].clean
      BY <1>8, <1>13, <2>1, <2>2 DEF CheckUnavailable
    <3> QED
      BY <1>6, <3>1 DEF Replies
  <2>3. CASE job[Req].kind = "call" /\ ~DeviceUnavailable(d)
    <3>1. Goto(Req, "get_call_latency") /\ ~DeviceUnavailable(d)' /\ ~DeviceUnreachable(d)'
      BY <1>8, <1>13, <2>1, <2>3 DEF CheckUnavailable
    <3> QED
      BY <1>5, <2>3, <3>1 DEF Labels
  <2>4. CASE job[Req].kind = "read"
    <3>1. ~DeviceUnavailable(d) /\ HasAdapter(d)
      BY <2>1, <2>4 DEF RequestInv, Gated
    <3>2. Goto(Req, "is_signal_faulted") /\ ~DeviceUnavailable(d)' /\ ~DeviceUnreachable(d)'
      BY <1>8, <1>13, <2>1, <2>4, <3>1 DEF CheckUnavailable
    <3> QED
      BY <1>5, <3>1, <3>2 DEF Labels
  <2> QED
    BY <1>13, <2>2, <2>3, <2>4 DEF CheckUnavailable
<1>14. CASE MarkQuality(Req)
  <2>1. d \in Devices /\ job[Req].signal \in Signals
    BY <1>0, <1>7, <1>14, AtLabel DEF MarkQuality
  <2>2. job[Req].clean => ~SignalFaulted(d, job[Req].signal)
    BY <1>3, <2>1, NeutralFacts
  <2>3. Finish(Req, "good") \/ (Finish(Req, "fault") /\ ~job[Req].clean)
    BY <1>14, <2>2 DEF MarkQuality
  <2> QED
    BY <1>6, <2>3 DEF Replies
<1>15. CASE ReadLatency(Req)
  <2>1. d \in Devices /\ job[Req].kind = "call" /\ ~DeviceUnavailable(d)'
        /\ ~DeviceUnreachable(d)'
    <3>1. pc[Req] = "get_call_latency" /\ d \in Devices /\ job[Req].kind = "call"
      BY <1>0, <1>7, <1>15, AtLabel DEF ReadLatency
    <3> QED
      BY <1>8, <3>1 DEF RequestInv, AdmittedStaysAvailable, PastUnavailable, Req
  <2>2. job[Req].clean => CallLatency(d) = 0
    BY <1>3, <2>1, NeutralFacts
  <2>3. \/ Goto(Req, "sleep_for") /\ ~job[Req].clean
        \/ Goto(Req, "should_call_fail")
    BY <1>15, <2>2 DEF ReadLatency
  <2> QED
    BY <1>5, <2>1, <2>3 DEF Labels
<1>16. CASE WakeUp(Req)
  <2>1. pc[Req] = "sleep_for" /\ d \in Devices /\ job[Req].kind = "call"
    BY <1>0, <1>7, <1>16, AtLabel DEF WakeUp
  <2>2. ~DeviceUnavailable(d)' /\ ~DeviceUnreachable(d)'
    BY <1>8, <2>1 DEF RequestInv, AdmittedStaysAvailable, PastUnavailable, Req
  <2>3. Goto(Req, "should_call_fail")
    BY <1>16 DEF WakeUp
  <2> QED
    BY <1>5, <2>1, <2>2, <2>3 DEF Labels
<1>17. CASE SampleFailure(Req)
  <2>1. pc[Req] = "should_call_fail" /\ d \in Devices /\ job[Req].kind = "call"
    BY <1>0, <1>7, <1>17, AtLabel DEF SampleFailure
  <2>2. ~DeviceUnavailable(d)' /\ ~DeviceUnreachable(d)'
    BY <1>8, <2>1 DEF RequestInv, AdmittedStaysAvailable, PastUnavailable, Req
  <2>3. job[Req].clean =>
           FailureSamples(d, FunctionIdString(job[Req].args.fn)) = {FALSE}
    BY <1>3, <2>1, NeutralFacts
  <2>4. \/ Finish(Req, "failed") /\ ~job[Req].clean
        \/ Finish(Req, "not_found")
        \/ Goto(Req, "apply")
    BY <1>17, <2>3 DEF SampleFailure
  <2> QED
    BY <1>5, <1>6, <2>1, <2>2, <2>4 DEF Labels, Replies
<1>18. CASE ApplyDevice(Req)
  BY <1>6, <1>18 DEF ApplyDevice, Replies
<1> QED
  BY <1>9, <1>10, <1>11, <1>12, <1>13, <1>14, <1>15, <1>16, <1>17, <1>18

\* A call to chaos_control: the one step that can put a fault in force, and it
\* answers its own request at the same time.
LEMMA RequestInjects ==
    ASSUME TypeOK, RequestInv, ApplyChaos(Req)
    PROVE  RequestInv'
<1> DEFINE a == job[Req].args
<1>0. Req \in Threads
  BY DEF Req, Threads
<1>1. TypeOK' /\ job' = job /\ now' = now
  BY <1>0, ApplyChaosTyped DEF ApplyChaos
<1>2. job[Req].kind = "call"
  BY <1>0, AtLabel DEF ApplyChaos
<1>3. ASSUME NEW status \in {"ok", "rejected", "not_found"}, Finish(Req, status),
             faultFree' => Neutral', VouchedAvailable'
      PROVE  RequestInv'
  BY <1>1, <1>2, <1>3, FinishInv DEF Replies
<1>4. CASE /\ \E status \in {"rejected", "not_found"} : Finish(Req, status)
           /\ UNCHANGED <<storeVars, historyVars>>
  <2>1. StoreQuiet
    BY <1>1, <1>4, QuietTime DEF TypeOK
  <2>2. (faultFree' => Neutral') /\ VouchedAvailable'
    BY <1>4, <2>1, RegisteredAssumption DEF RequestInv, CleanMeansNeutral, VouchedAvailable,
       StoreQuiet, historyVars, TypeOK
  <2> QED
    BY <1>3, <1>4, <2>2
<1>5. CASE Finish(Req, "ok") /\ faultFree' = FALSE /\ vouched' = {}
  <2>1. VouchedAvailable'
    BY <1>5 DEF VouchedAvailable
  <2> QED
    BY <1>3, <1>5, <2>1
<1>6. CASE ClearAllFaults /\ Finish(Req, "ok") /\ faultFree' = TRUE /\ UNCHANGED vouched
  <2>1. Neutral'
    BY <1>6 DEF ClearAllFaults, Neutral
  <2>2. VouchedAvailable'
    <3>1. \A c \in Devices : ~DeviceUnavailable(c)'
      BY <2>1 DEF Neutral, NoTimedFaults, DeviceUnavailable, Live
    <3> QED
      BY <1>6, <3>1, RegisteredAssumption DEF VouchedAvailable, TypeOK
  <2> QED
    BY <1>3, <1>6, <2>1, <2>2
<1> QED
  BY <1>4, <1>5, <1>6, Zenon DEF ApplyChaos

\* The invariant is inductive, provided that the engine does not inject faults.
LEMMA NextInv ==
    ASSUME EngineSparesChaos, IInv, [Next]_vars
    PROVE  IInv'
<1>1. CASE Step("request")
  <2>1. TypeOK /\ RequestInv /\ TypeOK' /\ "request" = Req
    BY <1>1, NextTyped DEF IInv, Req
  <2>2. RequestInv'
    BY <1>1, <2>1, RequestLists, RequestAnswersList, RequestMoves, RequestInjects DEF Step
  <2>3. pc'["ticker"] = pc["ticker"] /\ job'["ticker"] = job["ticker"]
    <3>1. Req \in Threads /\ "ticker" \in Threads \ {Req}
      BY DEF Threads, Req
    <3>2. CASE ListDevice(Req)
      BY <2>1, <3>1, <3>2, ListDeviceJob DEF ListDevice
    <3>3. CASE AnswerList(Req) \/ ApplyChaos(Req)
      BY <2>1, <3>1, <3>3 DEF AnswerList, ApplyChaos, Finish, TypeOK
    <3>4. CASE ~(ListDevice(Req) \/ AnswerList(Req) \/ ApplyChaos(Req))
      BY <1>1, <2>1, <3>1, <3>4, PathStepTyped DEF Step
    <3> QED
      BY <3>2, <3>3, <3>4
  <2>4. TickerNeverInjects'
    BY <2>3 DEF IInv, TickerNeverInjects
  <2> QED
    BY <2>1, <2>2, <2>4 DEF IInv
<1>2. CASE \E label, j : Entries("request", label, j) /\ Begin("request", label, j)
  BY <1>2, RequestEntry
<1>3. CASE \/ Step("ticker") \/ AdvanceClock \/ UNCHANGED vars
           \/ \E label, j : Entries("ticker", label, j) /\ Begin("ticker", label, j)
  BY <1>3, OthersKeep
<1> QED
  BY <1>1, <1>2, <1>3, NextSplit DEF Threads

\* What the looks at the store along the path establish holds until the request
\* is answered: call_function, read_signals, describe_device and list_devices
\* drop the lock between two looks, and only the request thread injects.
THEOREM Invariance ==
    ASSUME EngineSparesChaos
    PROVE  Spec => []IInv
<1>1. Init => IInv
  BY InitInv
<1>2. IInv /\ [Next]_vars => IInv'
  BY NextInv
<1> QED
  BY <1>1, <1>2, PTL DEF Spec

\* A request past the availability tests of read and call_function runs on a
\* device that is available and reachable, whatever latency it slept through.
THEOREM AdmittedIsServed ==
    ASSUME EngineSparesChaos
    PROVE  Spec => []AdmittedStaysAvailable
<1>1. IInv => AdmittedStaysAvailable
  BY DEF IInv, RequestInv
<1> QED
  BY <1>1, Invariance, PTL

\* The second tests in describe_device and read_signals never contradict has_device.
THEOREM GateIsNotRevoked ==
    ASSUME EngineSparesChaos
    PROVE  Spec => []GateHolds
<1>1. IInv => GateHolds
  BY DEF IInv, RequestInv
<1> QED
  BY <1>1, Invariance, PTL

\* After clear_faults no request is refused, failed, delayed or degraded, and a
\* list is complete, until the next injection.
THEOREM ClearedMeansUntouched ==
    ASSUME EngineSparesChaos
    PROVE  Spec => []CleanRequestUntouched
<1>1. IInv => CleanRequestUntouched
  BY DEF IInv, RequestInv
<1> QED
  BY <1>1, Invariance, PTL

\* A list left out only what was unavailable when it was asked for, and holds only
\* what is available when it is answered.
THEOREM HonestList ==
    ASSUME EngineSparesChaos
    PROVE  Spec => []ListingIsHonest
<1>1. IInv => ListingIsHonest
  BY DEF IInv, RequestInv
<1> QED
  BY <1>1, Invariance, PTL

\* has_device does not deny a device that the last list named and nothing was
\* injected against since.
THEOREM ListedStaysDescribable ==
    ASSUME EngineSparesChaos
    PROVE  Spec => []ListedIsDescribable
<1>1. IInv => ListedIsDescribable
  BY DEF IInv, RequestInv
<1> QED
  BY <1>1, Invariance, PTL
=============================================================================
