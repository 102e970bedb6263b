------------------------- MODULE LocalDevicesProofs -------------------------
(***************************************************************************)
(* The devices of the local engine: the sensor for every cap, every pair of   *)
(* thresholds, every horizon and ticks however late, and the devices together  *)
(* for every deployment, mode, set of channels and configured top speed.      *)
(*                                                                         *)
(* None of the sensor's properties is inductive alone: GoodIsAccurate needs   *)
(* the drift tied to the timer, and DegradesNoEarlier needs the simulated      *)
(* time tied to the real time that has passed.                                *)
(***************************************************************************)
EXTENDS LocalDevices, TLAPS

-----------------------------------------------------------------------------
(* The sensor *)

\* Drift accumulates only while the timer runs, and none without noise.
DriftBounded ==
    /\ drift_accumulator <= quality_timer
    /\ ~noise_enabled => drift_accumulator = 0

\* A degraded sensor has noise and a timer beyond its threshold; a GOOD one
\* with noise has been caught by the tick that passed the threshold.
TimerExplains ==
    /\ quality # "GOOD" => noise_enabled /\ quality_timer > NoisyAfter
    /\ quality = "FAULT" => quality_timer > FaultAfter

\* What was simulated, and what the next tick will simulate, was lived through
\* since the last reset, but for one step; at the horizon nothing is claimed.
TimeIsReal == sinceReset < Horizon => quality_timer + Dt <= sinceReset + Cap

\* The inductive invariant.
SensorInv ==
    /\ TypeOK
    /\ DriftBounded
    /\ TimerExplains
    /\ TimeIsReal
    /\ GoodIsAccurate
    /\ StaleNoiseIsBrief

\* Saturating addition of durations: it stays a duration, it is monotonic, and
\* below the horizon it is addition.
LEMMA PlusFacts ==
    ASSUME NEW d \in Durations, NEW e \in Nat
    PROVE  /\ Plus(d, e) \in Durations
           /\ d <= Plus(d, e) /\ Plus(d, e) <= d + e
           /\ Plus(d, e) < Horizon => Plus(d, e) = d + e
           /\ \A c \in Durations : c <= d => Plus(c, e) <= Plus(d, e)
BY ThresholdsAssumption DEF Plus, Durations

\* The step of LocalEngine::tick is a duration of at most Cap.
LEMMA DtFacts ==
    ASSUME TypeOK
    PROVE  Dt \in Nat /\ Dt <= Cap /\ Dt <= elapsed
BY CapAssumption, MaxGapAssumption DEF Dt, TypeOK

\* SensorInv holds for a new sensor.
LEMMA SensorStarts == Init => SensorInv
<1> SUFFICES ASSUME Init PROVE SensorInv
  OBVIOUS
<1>1. TypeOK
  <2>1. 0 \in Durations /\ 0 \in 0 .. MaxGap
    BY ThresholdsAssumption, MaxGapAssumption DEF Durations
  <2>2. noise_enabled \in BOOLEAN
    BY DEF Init
  <2> QED
    BY <2>1, <2>2 DEF Init, TypeOK, Qualities
<1>2. DriftBounded /\ TimerExplains /\ GoodIsAccurate /\ StaleNoiseIsBrief
  BY ThresholdsAssumption
     DEF Init, DriftBounded, TimerExplains, GoodIsAccurate, StaleNoiseIsBrief
<1>3. TimeIsReal
  BY CapAssumption DEF Init, TimeIsReal, Dt
<1> QED
  BY <1>1, <1>2, <1>3 DEF SensorInv

\* SensorInv is kept by every step of the ticker, of time and of the clients.
LEMMA SensorSteps == SensorInv /\ [Next]_vars => SensorInv'
<1> SUFFICES ASSUME SensorInv, [Next]_vars PROVE SensorInv'
  OBVIOUS
<1> USE DEF SensorInv
<1>1. CASE Tick
  <2> DEFINE timer == Plus(quality_timer, Dt)
  <2>1. /\ drift_accumulator' = IF noise_enabled THEN Plus(drift_accumulator, Dt)
                                ELSE drift_accumulator
        /\ quality_timer' = timer
        /\ quality' = QualityAt(timer)
        /\ noise_level' = NoiseLevel(quality')
        /\ noise_enabled' = noise_enabled /\ elapsed' = 0 /\ sinceReset' = sinceReset
    BY <1>1 DEF Tick, UpdatePhysics
  <2>2. /\ quality_timer \in Durations /\ drift_accumulator \in Durations
        /\ Dt \in Nat /\ Dt <= Cap /\ sinceReset \in Durations
    BY DtFacts DEF TypeOK
  <2>3. /\ timer \in Durations
        /\ quality_timer <= timer /\ timer <= quality_timer + Dt
        /\ Plus(drift_accumulator, Dt) \in Durations
        /\ Plus(drift_accumulator, Dt) <= timer
    BY <2>2, PlusFacts DEF DriftBounded
  <2> HIDE DEF timer
  <2>4. /\ quality' \in Qualities /\ noise_level' \in {10, 50, 200}
    BY <2>1 DEF QualityAt, NoiseLevel, TypeOK, Qualities
  <2>5. TypeOK'
    BY <2>1, <2>2, <2>3, <2>4, MaxGapAssumption DEF TypeOK
  <2>6. DriftBounded'
    BY <2>1, <2>2, <2>3 DEF DriftBounded, Durations
  <2>7. TimerExplains'
    BY <2>1, <2>2, <2>3, ThresholdsAssumption DEF TimerExplains, QualityAt, Durations
  <2>8. TimeIsReal'
    BY <2>1, <2>2, <2>3, CapAssumption, ThresholdsAssumption DEF TimeIsReal, Dt, Durations
  <2>9. GoodIsAccurate'
    BY <2>1, <2>2, <2>3, <2>6, ThresholdsAssumption
       DEF GoodIsAccurate, DriftBounded, QualityAt, Durations
  <2>10. StaleNoiseIsBrief'
    BY <2>1 DEF StaleNoiseIsBrief
  <2> QED
    BY <2>5, <2>6, <2>7, <2>8, <2>9, <2>10
<1>2. CASE PassTime
  <2>1. /\ elapsed < MaxGap /\ elapsed' = elapsed + 1
        /\ sinceReset' = Plus(sinceReset, 1)
        /\ UNCHANGED <<noise_enabled, quality, quality_timer, drift_accumulator, noise_level>>
    BY <1>2 DEF PassTime, deviceVars
  <2>2. sinceReset \in Durations /\ quality_timer \in Durations /\ elapsed \in 0 .. MaxGap
    BY DEF TypeOK
  <2>3. /\ sinceReset' \in Durations /\ sinceReset <= sinceReset'
        /\ sinceReset' < Horizon => sinceReset' = sinceReset + 1
    BY <2>1, <2>2, PlusFacts
  <2>4. TypeOK'
    BY <2>1, <2>2, <2>3, MaxGapAssumption DEF TypeOK
  <2>5. Dt \in Nat /\ Dt' \in Nat /\ Dt' <= Dt + 1
    BY <2>1, <2>2, CapAssumption, MaxGapAssumption DEF Dt
  <2>6. TimeIsReal'
    BY <2>1, <2>2, <2>3, <2>5, CapAssumption, ThresholdsAssumption DEF TimeIsReal, Durations
  <2> QED
    BY <2>1, <2>4, <2>6
       DEF DriftBounded, TimerExplains, GoodIsAccurate, StaleNoiseIsBrief, NoiseLevel
<1>3. ASSUME NEW channel \in 0 .. 5, CalibrateChannel(channel)
      PROVE  SensorInv'
  <2>1. /\ quality = "GOOD"
        /\ drift_accumulator' = 0 /\ quality_timer' = 0 /\ sinceReset' = 0
        /\ UNCHANGED <<noise_enabled, quality, noise_level, elapsed>>
    BY <1>3 DEF CalibrateChannel
  <2>2. TypeOK'
    BY <2>1, ThresholdsAssumption DEF TypeOK, Durations
  <2>3. TimeIsReal'
    BY <2>1, <2>2, DtFacts, CapAssumption DEF TimeIsReal, Dt
  <2> QED
    BY <2>1, <2>2, <2>3, ThresholdsAssumption
       DEF DriftBounded, TimerExplains, GoodIsAccurate, StaleNoiseIsBrief
<1>4. ASSUME NEW enabled \in BOOLEAN, InjectNoise(enabled)
      PROVE  SensorInv'
  <2>1. CASE enabled
    <3>1. /\ noise_enabled' = enabled
          /\ UNCHANGED <<quality, quality_timer, drift_accumulator, sinceReset, noise_level,
                         elapsed>>
      BY <1>4, <2>1 DEF InjectNoise
    <3>2. Dt' = Dt
      BY <3>1 DEF Dt
    <3> QED
      BY <2>1, <3>1, <3>2
         DEF TypeOK, DriftBounded, TimerExplains, TimeIsReal, GoodIsAccurate,
             StaleNoiseIsBrief, NoiseLevel
  <2>2. CASE ~enabled
    <3>1. /\ noise_enabled' = enabled
          /\ quality' = "GOOD" /\ quality_timer' = 0 /\ drift_accumulator' = 0
          /\ sinceReset' = 0
          /\ UNCHANGED <<noise_level, elapsed>>
      BY <1>4, <2>2 DEF InjectNoise
    <3>2. TypeOK'
      BY <3>1, ThresholdsAssumption DEF TypeOK, Durations, Qualities
    <3>3. TimeIsReal'
      BY <3>1, DtFacts, CapAssumption DEF TimeIsReal, Dt
    <3> QED
      BY <3>1, <3>2, <3>3, ThresholdsAssumption
         DEF DriftBounded, TimerExplains, GoodIsAccurate, StaleNoiseIsBrief
  <2> QED
    BY <2>1, <2>2
<1>5. CASE UNCHANGED vars
  BY <1>5 DEF vars, deviceVars, TypeOK, DriftBounded, TimerExplains, TimeIsReal, Dt,
              GoodIsAccurate, StaleNoiseIsBrief, NoiseLevel
<1> QED
  BY <1>1, <1>2, <1>3, <1>4, <1>5 DEF Next, Request

\* The strengthened invariant of the sensor.
THEOREM SensorInvariance == Spec => []SensorInv
BY SensorStarts, SensorSteps, PTL DEF Spec

\* The sensor's state keeps its types (analogsensor_device.cpp:39).
THEOREM SensorTypeCorrect == Spec => []TypeOK
<1>1. SensorInv => TypeOK
  BY DEF SensorInv
<1> QED
  BY <1>1, SensorInvariance, PTL

\* A sensor that reports GOOD never carries more drift than the first threshold
\* allows, whenever the noise was switched on (analogsensor_device.cpp:85).
THEOREM GoodStaysAccurate == Spec => []GoodIsAccurate
<1>1. SensorInv => GoodIsAccurate
  BY DEF SensorInv
<1> QED
  BY <1>1, SensorInvariance, PTL

\* The invariant bounds how early a sensor can degrade.
LEMMA SensorNeverEarly == SensorInv => DegradesNoEarlier
<1> SUFFICES ASSUME SensorInv PROVE DegradesNoEarlier
  OBVIOUS
<1>1. /\ quality_timer \in Durations /\ sinceReset \in Durations /\ Dt \in Nat
      /\ sinceReset < Horizon => quality_timer + Dt <= sinceReset + Cap
  BY DtFacts DEF SensorInv, TypeOK, TimeIsReal
<1> QED
  BY <1>1, CapAssumption, ThresholdsAssumption
     DEF SensorInv, TimerExplains, DegradesNoEarlier, Durations

\* A late tick never degrades a sensor before its time: the cap of the local
\* engine keeps simulated time behind real time (local_engine.cpp:28).
THEOREM NeverEarly == Spec => []DegradesNoEarlier
BY SensorNeverEarly, SensorInvariance, PTL

\* The noise of a worse quality outlives inject_noise(false) only until the next
\* tick (analogsensor_device.cpp:303).
THEOREM NoiseCatchesUp == Spec => []StaleNoiseIsBrief
<1>1. SensorInv => StaleNoiseIsBrief
  BY DEF SensorInv
<1> QED
  BY <1>1, SensorInvariance, PTL

-----------------------------------------------------------------------------
(* The motor and the relays *)

\* Only mode sim marks inputs as driven, and only the local engine's tick writes
\* the device's own inputs; where it does, an input out of step with its relay
\* is noted as switched.
RelayInv ==
    /\ Relay!TypeOK
    /\ mode # "sim" => driven = {}
    /\ mode # "non_interacting" => \A ch \in Channels : gpio_input[ch] = FALSE
    /\ mode = "non_interacting" => \A ch \in Channels :
          gpio_input[ch] # Relay!Looped(ch, relay[ch]) => ch \in switched

LEMMA MotorInitTyped ==
    ASSUME Motor!Init
    PROVE  Motor!TypeOK
<1>1. max_rpm \in (1 .. RpmLimit) \cup {NaN}
  <2>1. CASE max_rpm = DefaultRpm
    BY <2>1, RpmAssumption
  <2>2. CASE max_rpm \in MaxSpeeds \ {Absent} /\ ~Motor!OutOfValidRange(max_rpm)
    <3>1. max_rpm \in Int \/ max_rpm = NaN
      BY <2>2, MaxSpeedsAssumption DEF Motor!OutOfValidRange
    <3> QED
      BY <2>2, <3>1, RpmAssumption DEF Motor!OutOfValidRange
  <2> QED
    BY <2>1, <2>2 DEF Motor!Init, Motor!InitialRpm
<1>2. /\ duty \in [Motor!Motors -> 0 .. DutySteps]
      /\ speed \in [Motor!Motors -> Nat \cup {NaN}]
  BY RpmAssumption DEF Motor!Init
<1> QED
  BY <1>1, <1>2 DEF Motor!TypeOK

LEMMA MotorTyped ==
    ASSUME Motor!TypeOK, Motor!Request \/ Motor!UpdatePhysics \/ UNCHANGED motorVars
    PROVE  Motor!TypeOK'
<1>1. CASE Motor!Request
  <2>1. PICK idx \in 0 .. 3, d \in Motor!DutyArgs : Motor!SetMotorDuty(idx, d)
    BY <1>1 DEF Motor!Request
  <2>2. d \in 0 .. DutySteps
    BY <2>1, RpmAssumption DEF Motor!SetMotorDuty, Motor!DutyArgs
  <2> QED
    BY <2>1, <2>2 DEF Motor!SetMotorDuty, Motor!TypeOK
<1>2. CASE Motor!UpdatePhysics
  <2>1. ASSUME NEW i \in Motor!Motors
        PROVE  Motor!Target(i) \in Nat \cup {NaN}
    <3>1. duty[i] \in Nat /\ Motor!Clamp(duty[i]) \in Nat
      BY RpmAssumption DEF Motor!TypeOK, Motor!Clamp
    <3>2. max_rpm = NaN \/ max_rpm \in Nat
      BY RpmAssumption DEF Motor!TypeOK
    <3>3. max_rpm \in Nat => Motor!Clamp(duty[i]) * max_rpm \in Nat
      BY <3>1
    <3> QED
      BY <3>2, <3>3 DEF Motor!Target
  <2>2. ASSUME NEW a \in Nat \cup {NaN}, NEW b \in Nat \cup {NaN}
        PROVE  Motor!Towards(a, b) \subseteq Nat \cup {NaN}
    BY <2>2, NotNumbersAssumption DEF Motor!Towards
  <2>3. PICK s1 \in Motor!Towards(speed[1], Motor!Target(1)),
             s2 \in Motor!Towards(speed[2], Motor!Target(2)) :
           speed' = [i \in Motor!Motors |-> IF i = 1 THEN s1 ELSE s2]
    BY <1>2 DEF Motor!UpdatePhysics
  <2>4. 1 \in Motor!Motors /\ 2 \in Motor!Motors
    BY DEF Motor!Motors
  <2>5. s1 \in Nat \cup {NaN} /\ s2 \in Nat \cup {NaN}
    BY <2>1, <2>2, <2>4 DEF Motor!TypeOK
  <2> QED
    BY <1>2, <2>3, <2>5 DEF Motor!TypeOK, Motor!UpdatePhysics
<1>3. CASE UNCHANGED motorVars
  BY <1>3 DEF motorVars, Motor!TypeOK
<1> QED
  BY <1>1, <1>2, <1>3

LEMMA RelayInitInv ==
    ASSUME Relay!Init
    PROVE  RelayInv
<1>1. relay \in [Channels -> BOOLEAN] /\ gpio_input \in [Channels -> BOOLEAN]
  BY Zenon DEF Relay!Init
<1>2. /\ mode \in Modes /\ driven \subseteq Channels
      /\ signal_cache \in [driven -> Levels \cup {NoValue}] /\ switched = Channels
  BY DEF Relay!Init
<1>3. mode # "sim" => driven = {}
  BY DEF Relay!Init
<1>4. \A ch \in Channels : gpio_input[ch] = FALSE
  BY DEF Relay!Init
<1> QED
  BY <1>1, <1>2, <1>3, <1>4 DEF RelayInv, Relay!TypeOK

LEMMA LoopedIsBoolean ==
    ASSUME NEW ch, NEW level \in BOOLEAN
    PROVE  Relay!Looped(ch, level) \in BOOLEAN
BY DEF Relay!Looped

LEMMA RelayKeeps ==
    ASSUME RelayInv,
           Relay!Request \/ Relay!UpdatePhysics \/ Relay!Publish \/ UNCHANGED relayVars
    PROVE  RelayInv'
<1>0. /\ relay \in [Channels -> BOOLEAN] /\ gpio_input \in [Channels -> BOOLEAN]
      /\ mode \in Modes /\ driven \subseteq Channels
      /\ signal_cache \in [driven -> Levels \cup {NoValue}] /\ switched \subseteq Channels
  BY DEF RelayInv, Relay!TypeOK
<1>1. CASE Relay!Request
  <2>1. PICK ch \in Channels, enabled \in BOOLEAN : Relay!SetRelay(ch, enabled)
    BY <1>1 DEF Relay!Request
  <2>2. /\ relay' = [relay EXCEPT ![ch] = enabled]
        /\ switched' = IF relay[ch] = enabled THEN switched ELSE switched \cup {ch}
        /\ UNCHANGED <<gpio_input, mode, driven, signal_cache>>
    BY <2>1 DEF Relay!SetRelay
  <2>3. Relay!TypeOK'
    BY <1>0, <2>2 DEF Relay!TypeOK
  <2>4. ASSUME mode = "non_interacting", NEW c \in Channels,
               gpio_input[c] # Relay!Looped(c, relay'[c])
        PROVE  c \in switched'
    <3>1. relay'[c] = relay[c] => c \in switched
      BY <2>4 DEF RelayInv
    <3>2. relay'[c] # relay[c] => c = ch /\ relay[ch] # enabled
      BY <1>0, <2>2
    <3> QED
      BY <2>2, <3>1, <3>2
  <2> QED
    BY <2>2, <2>3, <2>4 DEF RelayInv
<1>2. CASE Relay!UpdatePhysics
  <2>1. /\ mode = "non_interacting"
        /\ gpio_input' = [ch \in Channels |-> Relay!Looped(ch, relay[ch])]
        /\ switched' = {}
        /\ UNCHANGED <<relay, mode, driven, signal_cache>>
    BY <1>2 DEF Relay!UpdatePhysics
  <2>2. gpio_input' \in [Channels -> BOOLEAN]
    BY <1>0, <2>1, LoopedIsBoolean
  <2>3. Relay!TypeOK'
    BY <1>0, <2>1, <2>2 DEF Relay!TypeOK
  <2> QED
    BY <2>1, <2>3 DEF RelayInv
<1>3. CASE Relay!Publish
  <2>1. PICK read \in SUBSET driven : \E level \in [read -> Levels] :
           signal_cache' = [ch \in driven |->
                               IF ch \in read THEN level[ch] ELSE signal_cache[ch]]
    BY <1>3 DEF Relay!Publish
  <2>2. UNCHANGED <<relay, gpio_input, mode, driven, switched>>
    BY <1>3 DEF Relay!Publish
  <2>3. signal_cache' \in [driven -> Levels \cup {NoValue}]
    BY <1>0, <2>1
  <2>4. Relay!TypeOK'
    BY <1>0, <2>2, <2>3 DEF Relay!TypeOK
  <2> QED
    BY <2>2, <2>4 DEF RelayInv
<1>4. CASE UNCHANGED relayVars
  BY <1>4 DEF relayVars, RelayInv, Relay!TypeOK
<1> QED
  BY <1>1, <1>2, <1>3, <1>4

\* What the invariant says of a read of an input.
LEMMA InputsFromInv ==
    ASSUME RelayInv, NEW ch \in Channels
    PROVE  CASE mode = "non_interacting" -> Relay!FollowsRelay(ch)
             [] mode = "sim" -> Relay!FollowsSimulation(ch)
             [] mode = "inert" -> ~Relay!ReadGpioInput(ch)
<1>0. mode \in {"inert", "non_interacting", "sim"}
  BY ModesAssumption DEF RelayInv, Relay!TypeOK
<1>1. CASE mode = "non_interacting"
  <2>1. Relay!ReadGpioInput(ch) = gpio_input[ch]
    BY <1>1 DEF RelayInv, Relay!ReadGpioInput
  <2>2. Relay!FollowsRelay(ch)
    BY <1>1, <2>1 DEF RelayInv, Relay!FollowsRelay
  <2> QED
    BY <1>1, <2>2
<1>2. CASE mode = "sim"
  <2>1. CASE ch \in driven /\ signal_cache[ch] # NoValue
    BY <1>2, <2>1 DEF Relay!FollowsSimulation, Relay!ReadGpioInput
  <2>2. CASE ~(ch \in driven /\ signal_cache[ch] # NoValue)
    <3>1. gpio_input[ch] = FALSE
      BY <1>2 DEF RelayInv
    <3> QED
      BY <1>2, <2>2, <3>1 DEF Relay!FollowsSimulation, Relay!ReadGpioInput
  <2> QED
    BY <2>1, <2>2
<1>3. CASE mode = "inert"
  <2>1. driven = {} /\ gpio_input[ch] = FALSE
    BY <1>3 DEF RelayInv
  <2> QED
    BY <1>3, <2>1 DEF Relay!ReadGpioInput
<1> QED
  BY <1>0, <1>1, <1>2, <1>3

-----------------------------------------------------------------------------
(* The devices together *)

\* A sensor that is not registered is never touched.
AbsentSensorIsNew == "analogsensor" \notin registered =>
    /\ noise_enabled = FALSE /\ quality = "GOOD" /\ quality_timer = 0
    /\ drift_accumulator = 0 /\ noise_level = 10 /\ sinceReset = 0

\* The inductive invariant.
LocalInv ==
    /\ SensorInv
    /\ AbsentSensorIsNew
    /\ Motor!TypeOK
    /\ RelayInv
    /\ registered \in Deployments

LEMMA LocalStarts == LocalInit => LocalInv
<1> SUFFICES ASSUME LocalInit PROVE LocalInv
  OBVIOUS
<1>1. SensorInv
  BY SensorStarts DEF LocalInit
<1>2. AbsentSensorIsNew
  BY DEF LocalInit, Init, AbsentSensorIsNew
<1>3. Motor!TypeOK /\ RelayInv
  BY MotorInitTyped, RelayInitInv DEF LocalInit
<1> QED
  BY <1>1, <1>2, <1>3 DEF LocalInit, LocalInv

\* Whatever the other devices do, a registered sensor takes only its own steps.
LEMMA SensorMovesAlone ==
    ASSUME [LocalNext]_localVars, "analogsensor" \in registered
    PROVE  [Next]_vars
<1>1. CASE LocalTick
  BY <1>1 DEF LocalTick, Next, Tick
<1>2. CASE LocalTime
  BY <1>2 DEF LocalTime, Next
<1>3. CASE Publish
  BY <1>3 DEF Publish
<1>4. CASE DeviceRequest
  BY <1>4 DEF DeviceRequest, Next
<1>5. CASE UNCHANGED localVars
  BY <1>5 DEF localVars
<1> QED
  BY <1>1, <1>2, <1>3, <1>4, <1>5 DEF LocalNext

\* The sensor's state stays that of a new one when none is registered.
LEMMA AbsentSensorStays ==
    ASSUME TypeOK, [LocalNext]_localVars, "analogsensor" \notin registered
    PROVE  /\ UNCHANGED <<noise_enabled, quality, quality_timer, drift_accumulator, noise_level,
                          sinceReset>>
           /\ elapsed' \in 0 .. MaxGap
<1>1. CASE LocalTick
  BY <1>1, MaxGapAssumption DEF LocalTick, deviceVars
<1>2. CASE LocalTime
  BY <1>2, MaxGapAssumption DEF LocalTime, sensorVars, deviceVars, TypeOK
<1>3. CASE Publish
  BY <1>3 DEF Publish, vars, deviceVars, TypeOK
<1>4. CASE DeviceRequest
  BY <1>4 DEF DeviceRequest, vars, deviceVars, TypeOK
<1>5. CASE UNCHANGED localVars
  BY <1>5 DEF localVars, vars, deviceVars, TypeOK
<1> QED
  BY <1>1, <1>2, <1>3, <1>4, <1>5 DEF LocalNext

LEMMA LocalSteps == LocalInv /\ [LocalNext]_localVars => LocalInv'
<1> SUFFICES ASSUME LocalInv, [LocalNext]_localVars PROVE LocalInv'
  OBVIOUS
<1> USE DEF LocalInv
<1>1. registered' = registered
  BY DEF LocalNext, LocalTick, LocalTime, Publish, DeviceRequest, localVars
<1>2. SensorInv' /\ AbsentSensorIsNew'
  <2>1. CASE "analogsensor" \in registered
    <3>1. SensorInv'
      BY <2>1, SensorMovesAlone, SensorSteps
    <3> QED
      BY <1>1, <2>1, <3>1 DEF AbsentSensorIsNew
  <2>2. CASE "analogsensor" \notin registered
    <3>1. /\ UNCHANGED <<noise_enabled, quality, quality_timer, drift_accumulator, noise_level,
                         sinceReset>>
          /\ elapsed' \in 0 .. MaxGap
      BY <2>2, AbsentSensorStays DEF SensorInv
    <3>2. /\ noise_enabled = FALSE /\ quality = "GOOD" /\ quality_timer = 0
          /\ drift_accumulator = 0 /\ noise_level = 10 /\ sinceReset = 0
      BY <2>2 DEF AbsentSensorIsNew
    <3>3. TypeOK'
      BY <3>1 DEF SensorInv, TypeOK
    <3>4. TimeIsReal'
      <4>1. sinceReset' = 0 /\ quality_timer' = 0
        BY <3>1, <3>2
      <4>2. PICK e \in Nat : elapsed' = e
        BY <3>1, MaxGapAssumption
      <4> QED
        BY <4>1, <4>2, CapAssumption DEF TimeIsReal, Dt
    <3>5. (DriftBounded /\ TimerExplains /\ GoodIsAccurate /\ StaleNoiseIsBrief)'
      BY <3>1, <3>2, ThresholdsAssumption
         DEF DriftBounded, TimerExplains, GoodIsAccurate, StaleNoiseIsBrief
    <3> QED
      BY <1>1, <3>1, <3>2, <3>3, <3>4, <3>5 DEF SensorInv, AbsentSensorIsNew
  <2> QED
    BY <2>1, <2>2
<1>3. Motor!TypeOK'
  <2>1. Motor!Request \/ Motor!UpdatePhysics \/ UNCHANGED motorVars
    BY DEF LocalNext, LocalTick, LocalTime, Publish, DeviceRequest, localVars
  <2> QED
    BY <2>1, MotorTyped
<1>4. RelayInv'
  <2>1. Relay!Request \/ Relay!UpdatePhysics \/ Relay!Publish \/ UNCHANGED relayVars
    BY DEF LocalNext, LocalTick, LocalTime, Publish, DeviceRequest, localVars
  <2> QED
    BY <2>1, RelayKeeps
<1> QED
  BY <1>1, <1>2, <1>3, <1>4

\* The invariant of the devices together, in every mode and deployment.
THEOREM LocalInvariance == LocalSpec => []LocalInv
BY LocalStarts, LocalSteps, PTL DEF LocalSpec

\* In every mode the inputs of a relayio show what the documentation says,
\* whatever is done to its relays (docs/devices/device_relayio0.md:24).
THEOREM InputsStayAsDocumented == LocalSpec => []InputsAsDocumented
<1>1. LocalInv => InputsAsDocumented
  <2> SUFFICES ASSUME LocalInv PROVE InputsAsDocumented
    OBVIOUS
  <2>1. LocalTypeOK
    BY DEF LocalInv, SensorInv, RelayInv, LocalTypeOK
  <2>2. \A ch \in Channels :
           CASE mode = "non_interacting" -> Relay!FollowsRelay(ch)
             [] mode = "sim" -> Relay!FollowsSimulation(ch)
             [] mode = "inert" -> ~Relay!ReadGpioInput(ch)
    BY InputsFromInv DEF LocalInv
  <2> QED
    BY <2>1, <2>2 DEF InputsAsDocumented
<1> QED
  BY <1>1, LocalInvariance, PTL

\* Beside other devices, or absent, the sensor is as accurate as it is alone.
THEOREM GoodStaysAccurateLocally == LocalSpec => []GoodIsAccurate
<1>1. LocalInv => GoodIsAccurate
  BY DEF LocalInv, SensorInv
<1> QED
  BY <1>1, LocalInvariance, PTL

\* And it degrades no earlier: LocalEngine::tick hands every device the same
\* capped step (local_engine.cpp:28).
THEOREM NeverEarlyLocally == LocalSpec => []DegradesNoEarlier
<1>1. LocalInv => DegradesNoEarlier
  BY SensorNeverEarly DEF LocalInv
<1> QED
  BY <1>1, LocalInvariance, PTL

\* Every step of the engine that ticks all the devices is a step of the sensor
\* alone, or leaves it as it is: no tick, request or publication for another
\* device moves it in a way of its own.
THEOREM SensorIsImplemented ==
    LocalSpec => [][("analogsensor" \in registered => [Next]_vars)]_localVars
<1>1. [LocalNext]_localVars => [("analogsensor" \in registered => [Next]_vars)]_localVars
  BY SensorMovesAlone
<1> QED
  BY <1>1, PTL DEF LocalSpec
=============================================================================
