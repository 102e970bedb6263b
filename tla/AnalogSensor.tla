---------------------------- MODULE AnalogSensor ----------------------------
(***************************************************************************)
(* An analogsensor (analogsensor_device.cpp) in mode non_interacting: the    *)
(* ticker moves its drift and its quality through LocalEngine::tick          *)
(* (local_engine.cpp), clients calibrate it and switch its noise at any      *)
(* moment between two ticks.  In the other modes update_physics never runs.  *)
(*                                                                         *)
(* Time is counted in units of the clock; Cap, NoisyAfter and FaultAfter      *)
(* stand for 0.25, 30 and 60 seconds.  The drift is counted in units of what  *)
(* accumulates in one unit of time (2 mV per second), the noise level in mV.  *)
(* Durations beyond Horizon are not told apart: the code only compares them   *)
(* with smaller ones.                                                        *)
(***************************************************************************)
EXTENDS Integers

CONSTANTS
    Cap,         \* the longest step the local engine simulates
    NoisyAfter,  \* quality_timer beyond which a GOOD sensor turns NOISY
    FaultAfter,  \* quality_timer beyond which a NOISY sensor turns FAULT
    MaxGap,      \* bound: the longest time between two ticks
    Horizon      \* where durations saturate

ASSUME CapAssumption == Cap \in Nat \ {0}
ASSUME ThresholdsAssumption ==
    /\ NoisyAfter \in Nat /\ FaultAfter \in Nat /\ NoisyAfter <= FaultAfter
    /\ Horizon \in Nat /\ FaultAfter < Horizon
ASSUME MaxGapAssumption == MaxGap \in Nat

VARIABLES
    noise_enabled, quality, quality_timer, drift_accumulator, noise_level,  \* State
    elapsed,   \* now() - last_update_ of the engine
    sinceReset \* history: real time since quality_timer was last zeroed

deviceVars == <<noise_enabled, quality, quality_timer, drift_accumulator, noise_level>>
vars == <<deviceVars, elapsed, sinceReset>>

Qualities == {"GOOD", "NOISY", "FAULT"}
Durations == 0 .. Horizon

TypeOK ==
    /\ noise_enabled \in BOOLEAN
    /\ quality \in Qualities
    /\ quality_timer \in Durations /\ drift_accumulator \in Durations
    /\ noise_level \in {10, 50, 200}
    /\ elapsed \in 0 .. MaxGap
    /\ sinceReset \in Durations

Plus(d, e) == IF d + e < Horizon THEN d + e ELSE Horizon

\* In mV.
NoiseLevel(q) == IF q = "GOOD" THEN 10 ELSE IF q = "NOISY" THEN 50 ELSE 200

Init ==
    /\ noise_enabled = FALSE /\ quality = "GOOD"
    /\ quality_timer = 0 /\ drift_accumulator = 0 /\ noise_level = 10
    /\ elapsed = 0 /\ sinceReset = 0

-----------------------------------------------------------------------------
(* The ticker *)

\* Mutant: the cap is forgotten.
MutantDtUncapped == elapsed

\* The step of LocalEngine::tick.  With no time elapsed the tick fails and
\* changes nothing.
Dt == IF elapsed < Cap THEN elapsed ELSE Cap

\* Mutant: the second stage repeats the condition of the first.
MutantQualityCopied(timer) ==
    IF noise_enabled /\ quality = "GOOD" /\ timer > NoisyAfter THEN "NOISY"
    ELSE IF noise_enabled /\ quality = "GOOD" /\ timer > FaultAfter THEN "FAULT"
    ELSE quality

\* At most one stage per tick, and only with noise.
QualityAt(timer) ==
    IF noise_enabled /\ quality = "GOOD" /\ timer > NoisyAfter THEN "NOISY"
    ELSE IF noise_enabled /\ quality = "NOISY" /\ timer > FaultAfter THEN "FAULT"
    ELSE quality

UpdatePhysics(dt) ==
    /\ drift_accumulator' = IF noise_enabled THEN Plus(drift_accumulator, dt)
                            ELSE drift_accumulator
    /\ quality_timer' = Plus(quality_timer, dt)
    /\ quality' = QualityAt(quality_timer')
    /\ noise_level' = NoiseLevel(quality')
    /\ UNCHANGED noise_enabled

Tick ==
    /\ elapsed > 0
    /\ UpdatePhysics(Dt)
    /\ elapsed' = 0
    /\ UNCHANGED sinceReset

PassTime ==
    /\ elapsed < MaxGap
    /\ elapsed' = elapsed + 1
    /\ sinceReset' = Plus(sinceReset, 1)
    /\ UNCHANGED deviceVars

-----------------------------------------------------------------------------
(* The request thread *)

\* All four channels are calibrated, whichever is named.
CalibrateChannel(channel) ==
    /\ quality = "GOOD"
    /\ channel >= 1 /\ channel <= 4
    /\ drift_accumulator' = 0 /\ quality_timer' = 0 /\ sinceReset' = 0
    /\ UNCHANGED <<noise_enabled, quality, noise_level, elapsed>>

\* Mutant: switching the noise off leaves the drift behind.
MutantDriftKept(enabled) ==
    /\ noise_enabled' = enabled
    /\ IF enabled
       THEN UNCHANGED <<quality, quality_timer, sinceReset>>
       ELSE quality' = "GOOD" /\ quality_timer' = 0 /\ sinceReset' = 0
    /\ UNCHANGED <<drift_accumulator, noise_level, elapsed>>

\* Switching the noise off resets the sensor, its noise level excepted.
InjectNoise(enabled) ==
    /\ noise_enabled' = enabled
    /\ IF enabled
       THEN UNCHANGED <<quality, quality_timer, drift_accumulator, sinceReset>>
       ELSE /\ quality' = "GOOD" /\ quality_timer' = 0 /\ drift_accumulator' = 0
            /\ sinceReset' = 0
    /\ UNCHANGED <<noise_level, elapsed>>

Request ==
    \/ \E channel \in 0 .. 5 : CalibrateChannel(channel)
    \/ \E enabled \in BOOLEAN : InjectNoise(enabled)

Next == Tick \/ PassTime \/ Request

\* Time passes and the ticker ticks; clients need not do anything.
Spec == Init /\ [][Next]_vars /\ WF_vars(Tick) /\ WF_vars(PassTime)

-----------------------------------------------------------------------------
(* Properties *)

\* A sensor that reports GOOD has drifted for at most 30 s (60 mV), although
\* the timer also runs while the noise is off and the noise may be switched on
\* at any value of it (analogsensor_device.cpp:85, :89).
GoodIsAccurate == quality = "GOOD" => drift_accumulator <= NoisyAfter

\* Simulated time is never ahead of real time by more than the one step under
\* way when the timer was reset: no sensor is NOISY before 30 s, or FAULT before
\* 60 s, less that step, however long a tick was delayed (local_engine.cpp:28).
DegradesNoEarlier ==
    /\ quality # "GOOD" => sinceReset + Cap > NoisyAfter
    /\ quality = "FAULT" => sinceReset + Cap > FaultAfter

\* The noise level belongs to another quality only between inject_noise(false)
\* and the next tick.
StaleNoiseIsBrief == noise_level # NoiseLevel(quality) =>
    quality = "GOOD" /\ quality_timer = 0

\* A sensor whose noise stays on ends in FAULT, unless it is calibrated again
\* and again.
NoiseEndsInFault ==
    <>[]noise_enabled => (<>[](quality = "FAULT") \/ []<>(quality_timer = 0))
=============================================================================
